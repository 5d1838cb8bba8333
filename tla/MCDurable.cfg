SPECIFICATION DurableSpec
CONSTANTS
  SiteRoots = {1, 2, 3}
  RootsOf <- MCRootsOf
  Expected = "expected"
  Foreign = "foreign"
  SiteRuns = 3
  SiteFaults = 2
  SiteCrashes = 1
  SiteEdits = 1
  RouteConfigs <- MCRouteConfigs
  SceneAnchors <- MCAnchors
  RouteTrees <- MCRouteTrees
  SegmentOrder <- MCSegmentOrder
  NameChars = {"x", "y", "z"}
  MaxSourceDirs = 3
  MaxSourceName = 2
  Packages <- MCPackages
  Routes <- MCRoutes
  Handling <- MCHandling
  SuffixOf <- MCSuffixOf
  Bare <- MCBare
  MaxMembers = 4
  MaxSingle = 3
  MaxTotal = 4
  MaxSegments = 3
  MaxDepth = 2
  RefusedSlots = {2}
  LandFaults = 1
  RecRuns = 2
  RecFaults = 3
  RecCrashes = 1
  InvTasks = {1, 2, 3, 4}
  InvNames = {1, 2}
  NoValue = NoValue
  SiteOf <- MCSiteOf
  Product = typ
  Supplements = {4}
  TimeTolerance = 1
  Scans <- MCScans
  InvRuns = 3
  InvDeletes = 1
  pa = pa
  oa = oa
  ob = ob
  typ = typ
  other = other
  va = va
  vb = vb
  mu = mu
  me = me
  bind = bind
  conf = conf
  NetTypes = {csp, umf}
  NoType = notype
  Resources <- MCResources
  MuResources = {mu}
  BindingRecs = {bind}
  DerivedRecs = {der}
  ConfigRecs = {conf}
  UnitRef <- MCUnitRef
  MetricRef <- MCMetricRef
  Parts <- MCParts
  Disabled = {me, bind}
  ConfirmedRecs = {bind}
  Unfit = {}
  Maintainers = {m1, m2}
  Keys = {k1}
  Asks <- MCAsks
  MaxLegacy = 1
  MaxCalls = 2
  MaxCrashes = 1
INVARIANTS
  DurableTypeOK
  SceneTrusted
  RoutingSound
  ScansAndConflicts
  RecordsSafe
  LedgerSound
  AttrSafe
PROPERTIES
  RunsRecover
  NeverOverwrites
  RestartLeavesSettled
  ChangesAudited
  EditsSurvive
  EveryOperationEnds
CHECK_DEADLOCK FALSE
