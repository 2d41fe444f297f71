SPECIFICATION KeepersSpec
CHECK_DEADLOCK FALSE
CONSTANTS
  GoalIds = {"g1", "g2"}
  TaskIds = {"t1"}
  MaxOps = 5
  MaxFaults = 2
  MaxDeaths = 1
  MaxResets = 1
  Low = 1
  High = 3
  MinShare = 1
  DefaultMax = 3
  HardMax = 4
  DefaultShare = 2
  Asked = {0, 2, 3, 5}
  ControlCalls = 2
  ControlFaults = 1
  ControlRestarts = 1
  ControlOverrides = 1
INVARIANTS
   AttachmentsKept LedgerHolds  
