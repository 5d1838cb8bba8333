SPECIFICATION FairSpec
CONSTANTS
  Tasks = {t1}
  Handlers = {h1, h2}
  Loop = loop
  Worker = worker
  None = none
  Keep = 1
  Requests <- Repeats
  MaxRequests = 3
  Faults <- AllFaults
INVARIANTS
  RunningIsHeld
PROPERTIES
  FreshRunsInFull
  PublishesOwnStart
  EveryTaskSettles
CHECK_DEADLOCK FALSE
