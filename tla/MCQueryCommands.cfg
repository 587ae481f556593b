SPECIFICATION Spec
CONSTANTS
  Symbols <- MCSymbols
  KindOf <- MCKindOf
  BaseOf <- MCBaseOf
  HomeOf <- MCHomeOf
  Docs = {1, 2, 3, 4}
  Tests = {}
  Loaders = {}
  Specs = {1, 3}
  QualifiedFactor = 2
  QualifiedRows = 2
  Databases <- MCDatabases
  Commands <- MCCommands
  LabelOf <- MCLabelOf
  Noisy = {"m"}
  MembersOf <- MCMembersOf
  DirectOf <- MCDirectOf
  MinBatch = 2
  MinScan = 3
  ScanFactor = 2
  MembersCap = 2
INVARIANTS
  QueryTypeOK
  BestFileFirst
  SearchFindsEachOnce
  RefsAreTheFirst
  CutsAreTold
  CommandsAgree
CHECK_DEADLOCK FALSE
