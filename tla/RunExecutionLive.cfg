SPECIFICATION FairSpec
CONSTANTS
  MaxRun = 1
  MaxGen = 3
  MaxFault = 1
  RecoveryLimit = 0
  Contained = TRUE
  Forgets = FALSE
PROPERTIES StopEndsRun DesertedIsSettled OverdueIsStopped
CHECK_DEADLOCK FALSE
