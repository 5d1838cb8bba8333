SPECIFICATION Spec
CONSTANTS
  Tasks = {t1}
  Handlers = {h1, h2}
  Loop = loop
  Worker = worker
  None = none
  Keep = 1
  Requests <- AllRequests
  MaxRequests = 3
  Faults <- AllFaults
SYMMETRY HandlerSymmetry
INVARIANTS
  TypeOK
  RunsAndDeletesExclude
  NeverRunsCancelled
  PendingIsHeld
CHECK_DEADLOCK FALSE
