SPECIFICATION StoresSpec
CHECK_DEADLOCK FALSE
CONSTANTS
  Ids = {1, 2}
  Versions = {1, 2}
  DirtyMax = 2
  MaxWrites = 3
  MaxCuts = 2
  Beats <- SampleBeats
  ToolCap = 1
  PrMaxFaults = 2
  PrMaxOffers = 4
INVARIANTS
  AtomsDurable PromotedOnceAndWhole EdgesHold EncodedFaithfully
  LadderSound KeepsHold MealIsSound
