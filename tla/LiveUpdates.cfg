SPECIFICATION UpdatesSpec
CONSTANTS
  MaxAnswer = 2
  MaxText = 2
  MaxInFlight = 1
  MaxDrop = 1
  MaxLeave = 1
  MaxMiss = 1
  MaxFault = 2
  MaxEvent = 4
  MaxFrame = 1
  MaxLost = 1
  MaxBuffered = 2
  MaxReplay = 1
  MaxLive = 1
  Hidden = {2}
INVARIANTS ProgressFollows EventsInOrder
PROPERTIES NeverTakenBack UpdatesArrive
CHECK_DEADLOCK FALSE
