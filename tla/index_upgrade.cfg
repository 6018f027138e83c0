SPECIFICATION FairSpec
CONSTANTS
  e1 = e1  e2 = e2  e3 = e3
  Encoders = {e1, e2, e3}
  NoEncoder = NoEncoder
  Dim <- TwoDimensions
  ChunkSize = 2
  MayReturn = FALSE
  MaxMemories = 3
  MaxFaults = 3
INVARIANTS IndexServesEncoder StatusTellsReindexing
PROPERTIES NoNeedlessRebuild ServesAgain
CHECK_DEADLOCK FALSE
