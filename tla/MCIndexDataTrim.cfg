SPECIFICATION Spec
CONSTANTS
  NoDB = NoDB
  function = function
  type = type
  variable = variable
  a = a
  b = b
  lib = lib
  Names <- MCNames
  Variables <- MCVariables
  Structural <- MCStructural
  Inputs <- MCInputs
INVARIANTS
  ProjectSymbolsKept
CHECK_DEADLOCK FALSE
