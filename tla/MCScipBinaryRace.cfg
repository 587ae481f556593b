SPECIFICATION Spec
CONSTANTS
  Workers = {w1, w2}
  Old = Old
  NoFile = NoFile
INVARIANTS
  ReturnsWorking
CHECK_DEADLOCK FALSE
