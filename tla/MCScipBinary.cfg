SPECIFICATION FairSpec
CONSTANTS
  Workers = {w1, w2, w3}
  Old = Old
  NoFile = NoFile
INVARIANTS
  TypeOK
  OldNeverConverts
  QuietMeansWorking
  SomeoneConverts
PROPERTIES
  WorkersEnd
CHECK_DEADLOCK FALSE
