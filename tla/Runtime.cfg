SPECIFICATION RuntimeSpec
CHECK_DEADLOCK FALSE
CONSTANTS
  Limit = 1
  MaxEdits = 2
  MaxArchives = 3
  MaxFaults = 2
  MaxDeaths = 1
  StageFiles = {"main", "aux"}
  MaxVer = 3
  StageCalls = 3
  StageFaults = 2
  StageDeaths = 2
  MaxUnseen = 2
  MaxTok = 2
  ProviderOps = 1
  MaxBusy = 2
  ProviderFaults = 1
  MeterCallers = {c1, c2}
  MaxCall = 1
  WeekLimit = 2
  DayLimit = 2
  Burst = 0
  DayLen = 2
  WeekLen = 3
  BillShift = 1
  StaleAfter = 1
  MaxTime = 3
  MaxLedger = 4
  MeterFaults = 1
  MeterOps = 1
  SandboxPkgs = {"a", "b"}
  SandboxPolicies = {"open"}
  MaxGens = 2
  SandboxFaults = 1
  MaxCrashes = 1
  SandboxOps = 1
  MaxStarts = 2
  MaxSessions = 2
  MaxJobs = 4
  MaxTimeouts = 2
  BrowserFaults = 1
INVARIANTS
  BooksHold CredentialHolds  SessionsExact SandboxHolds
  
