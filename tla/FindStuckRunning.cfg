SPECIFICATION Spec
CONSTANTS
  Tasks = {t1}
  Handlers = {h1}
  Loop = loop
  Worker = worker
  None = none
  Keep = 1
  Requests <- CreateIncremental
  MaxRequests = 5
  Faults <- AllFaults
INVARIANTS
  RunningIsHeld
CHECK_DEADLOCK FALSE
