SPECIFICATION Spec
CONSTANTS
  Calls = {"speak", "read", "load_work", "wait"}
  Failing = {"read"}
  MaxCalls = 2
  MaxHops = 4
  Room = 2
  ContinueMax = 1
  IdleAfter = 1
  WallClock = 2
  WorkNudgeMax = 1
  FailStreak = 2
  OkStreak = 3
  SynthStreak = 2
  MaxInterjections = 1
INVARIANTS
  LoopIsSound
PROPERTIES
  LoopEnds
