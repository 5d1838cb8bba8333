SPECIFICATION Spec
CONSTANTS
  Tasks = {t1, t2}
  Handlers = {h1}
  Loop = loop
  Worker = worker
  None = none
  Keep = 1
  Requests <- CreateFull
  MaxRequests = 5
  Faults <- NoFaults
PROPERTIES
  CleanupSparesBusy
CHECK_DEADLOCK FALSE
