SPECIFICATION Spec
CONSTANTS
  MaxRun = 1
  MaxGen = 4
  MaxFault = 2
  RecoveryLimit = 1
  Contained = TRUE
  Forgets = TRUE
PROPERTIES ReturnedUnbegun
CHECK_DEADLOCK FALSE
