SPECIFICATION WholeSpec
CHECK_DEADLOCK FALSE
CONSTANTS
  Msgs = {1}
  Users = {"ann"}
  UserOf <- OneSender
  Waits = {}
  WorkKinds = {"timer", "task_ready"}
  Jobs = {}
  Cap = 1
  MaxHops = 2
  MaxStreak = 1
  MaxWork = 1
  MaxCrashes = 1
  MaxFaults = 1
  MaxResets = 1
  MaxOutages = 1
  MaxToggles = 1
PROPERTIES
   ResetEndsEmpty
