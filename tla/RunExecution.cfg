SPECIFICATION Spec
CONSTANTS
  MaxRun = 1
  MaxGen = 5
  MaxFault = 2
  RecoveryLimit = 1
  Contained = FALSE
  Forgets = FALSE
INVARIANTS Consistent StopIsFinal NoStaleActing OneEngine
PROPERTIES ReturnedUnbegun ImplementsLifecycle
CHECK_DEADLOCK FALSE
