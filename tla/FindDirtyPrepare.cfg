SPECIFICATION Spec
CONSTANTS
  N = 2
  Prepared = {1, 2}
  Matching <- AllMatch
  Natures <- OneFlaky
  Versions = {1}
  NoMarker = 0
  Resisting = {}
  MaxWorkers = 2
  MinUnits = 2
  MaxRuns = 1
PROPERTIES
  PrepareStartsClean
CHECK_DEADLOCK FALSE
