SPECIFICATION LiveSpec
CONSTANTS
  Message = {m1, m2}
  NoMessage = none
  MaxRun = 2
  MaxAttempt = 3
  MaxFault = 1
INVARIANTS Receipts KeptTogether
PROPERTY SteersArrive
CHECK_DEADLOCK FALSE
