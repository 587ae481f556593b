SPECIFICATION Spec
CONSTANTS
  Graphs <- MCGraphs
  Filters <- MCFilters
  CycleLimits <- MCCycleLimits
  MaxDepth = 3
  KeyWidth = 3
  MaxScan = 6
  Requests <- CollectRequests
  MinPage = 2
  ScanRows = 3
  Symbols <- MCSymbols
  KindOf <- MCKindOf
  BaseOf <- MCBaseOf
  HomeOf <- MCHomeOf
  Docs = {1, 2, 3}
  Tests = {3}
  Loaders = {}
  Noisy = {}
  StaleTypeNoise = {}
  Databases <- MCDatabases
  Options <- MCOptions
  MaxDirFiles = 1
INVARIANTS
  AnalysisTypeOK
  ComponentsExact
  CyclesOnce
  CyclesComplete
  PagingIsInvisible
  RowsWithinLimit
  EveryCutIsTold
  NothingLostToRedundancy
  DeadIsDead
CHECK_DEADLOCK FALSE
