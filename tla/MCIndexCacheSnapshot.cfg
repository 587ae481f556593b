SPECIFICATION Spec
CONSTANTS
  Procs = {p1, p2}
  NoProc = NoProc
  NoFile = NoFile
  NoScope = NoScope
  NoGlob = NoGlob
  Keep = Keep
  Torn = Torn
  web = web
  gone = gone
  tests = tests
  Scopes <- MCScopes
  BadScopes <- MCBadScopes
  Globs <- MCGlobs
  Updates <- MCFewUpdates
  MaxCommands = 3
  MaxCrashes = 0
INVARIANTS
  SessionReadsOneIndex
CHECK_DEADLOCK FALSE
