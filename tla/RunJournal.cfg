SPECIFICATION LiveSpec
CONSTANTS
  MaxGen = 2
  MaxOrdinal = 2
  MaxSocket = 2
INVARIANT JournalSound
PROPERTIES LogImplemented JournalDrains
CHECK_DEADLOCK FALSE
