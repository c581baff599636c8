SPECIFICATION LiveSpec
CONSTANTS
  MaxCommand = 2
  ThreadOf <- MCThreadOf
  IsRun <- MCIsRun
  MaxRuns = 1
  MaxControls = 1
  MaxQueued = 2
  MaxRejection = 1
  Pausable <- MCPausable
  Absent <- MCAbsent
  Uncertain <- MCUncertain
INVARIANT CoordinatorSound
PROPERTIES RetriesArePaced NoneForgotten NothingLingers
CHECK_DEADLOCK FALSE
