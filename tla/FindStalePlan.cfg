SPECIFICATION Spec
CONSTANTS
  Tasks = {t1}
  Handlers = {h1}
  Loop = loop
  Worker = worker
  None = none
  Keep = 1
  Requests <- CreateDeleteFull
  MaxRequests = 5
  Faults <- NoFaults
PROPERTIES
  FreshRunsInFull
CHECK_DEADLOCK FALSE
