SPECIFICATION KpiSpec
CONSTANTS
  Editors = {e1, e2}
  Rules = {r1, r2}
  Types = {csp}
  FocusType = csp
  Units = {u1}
  Metrics = {m1}
  Bindings = {b1}
  UnitOf <- MCUnitOf
  MetricOf <- MCMetricOf
  Derived <- MCDerived
  Menu <- MCMenu
  MaxEdits = 2
  u1 = u1
  u2 = u2
  mA = mA
  mB = mB
  mC = mC
  CatUnits = {u1, u2}
  CatMetrics = {mA, mB, mC}
  Names = {"a", "b"}
  CatColumns <- MCColumns
  CatUnitOf <- MCCatUnitOf
  BaseName <- MCBaseName
  InitialName <- MCInitialName
  InitialBindings <- MCInitialBindings
  Stewards = {s1}
  Wishes <- MCWishes
  NoMetric = nometric
  NoName = noname
  MaxScans = 2
  MaxWishes = 2
  mNum = mNum
  mDen = mDen
  None = none
  Blank = blank
  Bad = bad
  MeasMetrics = {mNum, mDen}
  Objects = {0, 1, 2}
  Nameless = {0}
  Columns = {1, 2, 3}
  ColumnMetric <- MCColumnMetric
  Denominator <- MCDenominator
  Direction <- MCDirection
  Warning <- MCWarning
  Critical <- MCCritical
  Tasks <- MCTasks
  Scale = 2
  Nil = nil
  Kpis <- MCKpis
  KpiUnit <- MCKpiUnit
  Formula <- MCFormula
  InternalKpis = {"num"}
  Settings <- MCSettings
  DefaultRule <- MCDefaultRule
  CustomRule <- MCCustomRule
  Upkeeps <- MCUpkeeps
  Focuses <- MCFocuses
  Readings <- MCReadings
  EarlierTasks <- MCEarlier
  TaskDay = 3
  Asked = {nil, "load"}
  BenchRuns = 2
  BenchEdits = 1
INVARIANTS
  KpiTypeOK
  AuditExplainsAssignments
  FrozenCoversRevision
  CatalogSafe
  MeasSafe
  FailReachesAttention
  VerdictShown
CHECK_DEADLOCK FALSE
