SPECIFICATION FairSpec
CONSTANTS
  Tasks = {t1}
  Handlers = {h1, h2}
  Loop = loop
  Worker = worker
  None = none
  Keep = 1
  Requests <- CreateDeleteFull
  MaxRequests = 3
  Faults <- NoCopyFault
PROPERTIES
  WorkerNeverRevives
  EveryTaskSettles
  EveryDeleteEnds
CHECK_DEADLOCK FALSE
