SPECIFICATION Spec
CONSTANTS
  Procs = {p1, p2, p3}
  NoProc = NoProc
  NoFile = NoFile
  NoScope = NoScope
  NoGlob = NoGlob
  Keep = Keep
  Torn = Torn
  web = web
  gone = gone
  tests = tests
  Scopes <- MCScopes
  BadScopes <- MCBadScopes
  Globs <- MCGlobs
  Updates <- MCUpdates
  MaxCommands = 3
  MaxCrashes = 1
SYMMETRY Symmetry
INVARIANTS
  TypeOK
  LockProtects
  LiveIsWhole
  NextIsMine
  MetadataHeld
  SuccessIsServed
PROPERTIES
  OnlyReindexReplaces
  ImplementsStore
CHECK_DEADLOCK FALSE
