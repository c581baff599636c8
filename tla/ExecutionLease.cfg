SPECIFICATION Spec
CONSTANTS
  Lease = 8
  MarginCap = 3
  Watch = 1
  Grace = 1
  MaxTime = 11
  MaxFlight = 2
INVARIANTS GrantIsBacked StopsFirst EndedFirst
CHECK_DEADLOCK FALSE
