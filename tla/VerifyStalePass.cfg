SPECIFICATION Spec
CONSTANTS
  Limit = 1
  MaxEdits = 1
  MaxArchives = 2
  MaxFaults = 0
  MaxDeaths = 0
CHECK_DEADLOCK FALSE
INVARIANT NoPassAfterFailure
