SPECIFICATION LiveSpec
CONSTANTS
  Key = {k1, k2}
  Size = {1, 2}
  Closer = {c1, c2}
  MaxTask = 3
  MaxInFlight = 2
  MaxQueuedCommands = 2
  MaxQueuedBytes = 3
  MaxConflictAttempts = 2
INVARIANTS NoOvertaking BooksBalance ScanAgrees
PROPERTY EveryoneIsAnswered
CHECK_DEADLOCK FALSE
