SPECIFICATION Spec
CONSTANTS
  MaxRun = 2
  MaxGen = 3
  MaxFault = 1
  RecoveryLimit = 1
  Contained = TRUE
  Forgets = FALSE
INVARIANTS RunsInOrder OneEngine
CHECK_DEADLOCK FALSE
