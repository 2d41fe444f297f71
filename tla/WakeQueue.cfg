SPECIFICATION MCSpec
CONSTANTS
  Ids = {1, 2, 3}
  Kinds = {"user_message", "moment_continue", "task_ready"}
  Works = {1}
  Times = {1, 2}
  Second = 2
  MaxCrashes = 2
  MaxFaults = 1
  CrashInRecovery = FALSE
CHECK_DEADLOCK FALSE
INVARIANTS
  IndexIsTrue 
PROPERTIES
  ClaimTakesBest
  TerminalIsFinal
  ImplementsLedger
