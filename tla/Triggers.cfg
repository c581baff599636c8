SPECIFICATION TriggersSpec
CONSTANTS
  Trigger = {t1}
  MaxTime = 2
  MaxRev = 2
  MaxManual = 1
  MaxPending = 2
  Threshold = 2
  Occurrence = {o1, o2}
  MaxBoot = 2
  MaxRestart = 1
  MaxFault = 1
INVARIANT ProgramsOnce
PROPERTIES ClockSound TakesTableSteps TriggersGoOn
CHECK_DEADLOCK FALSE
