SPECIFICATION MCSpec
CONSTANTS
  t1 = t1
  t2 = t2
  k1 = k1
  k2 = k2
  Thread <- MCThread
  Key <- MCKey
  MaxRun = 3
  MaxIdle = 1
  Kind = {command, ticket}
  MaxItems = 2
  MaxBytes = 2
  MaxPush = 3
  MaxRead = 3
  Command = {c1, c2, c3}
  MaxEntries = 3
  MaxOperation = 4
INVARIANTS EnginesSound CommandsAnsweredOnce
PROPERTIES FramesAreRead EnginesGo
CHECK_DEADLOCK FALSE
