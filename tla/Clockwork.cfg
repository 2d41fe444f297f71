SPECIFICATION ClockSpec
CHECK_DEADLOCK FALSE
CONSTANTS
  Timers = {1}
  Waits = {2}
  Wakes = {11, 12, 13}
  MaxTime = 1
  MaxCrashes = 2
  MaxFaults = 1
  Resets = TRUE
  CrashInReset = FALSE
INVARIANTS
  AlarmsSound
PROPERTIES
  DueEventuallyFires 
