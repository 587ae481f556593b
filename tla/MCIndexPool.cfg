SPECIFICATION FairSpec
CONSTANTS
  MaxProjects = 4
  MaxWorkers = 2
INVARIANTS
  TypeOK
  SlotsBounded
  SendsSafe
  NothingLostOrDoubled
  OutcomeOfTheLoop
PROPERTIES
  Ends
CHECK_DEADLOCK FALSE
