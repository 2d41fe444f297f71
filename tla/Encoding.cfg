SPECIFICATION EncodingSpec
CHECK_DEADLOCK FALSE
CONSTANTS
  Rows = {1, 2, 3}
  Corpus = {1, 2}
  MaxDeaths = 3
  MaxRaises = 3
INVARIANTS
  MigrationIsSafe
PROPERTIES
  Resolved WorkerPromise 
