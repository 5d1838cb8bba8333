SPECIFICATION FairSpec
CONSTANTS
  N = 3
  Prepared = {1, 2}
  Matching <- SomeMatch
  Natures <- SomeCrash
  Versions = {1, 2}
  NoMarker = 0
  Resisting = {1}
  MaxWorkers = 2
  MinUnits = 2
  MaxRuns = 3
INVARIANTS
  TypeOK
  MarkerSound
  InspectsReadWhole
  InnocentUnaffected
PROPERTIES
  SettlesEachUnit
  RunsAgainOnlyLost
  EveryRunEnds
CHECK_DEADLOCK FALSE
