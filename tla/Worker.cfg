SPECIFICATION WorkerSpec
CHECK_DEADLOCK FALSE
CONSTANTS
  Msgs = {1, 2}
  Users = {"ann", "bob"}
  UserOf <- EachTheirOwn
  Waits = {1, 2}
  WorkKinds = {"timer", "task_ready"}
  Jobs = {1}
  Cap = 1
  MaxHops = 2
  MaxStreak = 2
  MaxWork = 1
  MaxCrashes = 1
  MaxFaults = 1
  MaxResets = 1
  MaxOutages = 1
  MaxToggles = 2
INVARIANTS
  PhaseIsTrue 
