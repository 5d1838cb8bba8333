SPECIFICATION Spec
CONSTANTS
  Tasks = {t1, t2, t3}
  Handlers = {h1}
  Loop = loop
  Worker = worker
  None = none
  Keep = 1
  Requests <- CreateOnly
  MaxRequests = 5
  Faults <- NoDeleteFault
SYMMETRY TaskSymmetry
INVARIANTS
  SceneBound
PROPERTIES
  CleanupSparesBusy
CHECK_DEADLOCK FALSE
