CONSTANTS
  MaxKey = 3
  MaxShared = 2
  Slots <- Rowids
  MaxCount = 2
  MaxFaults = 1
  None = None
SPECIFICATION FairSpec
INVARIANTS Kept SkipsNothing
PROPERTY CatchesUp
CHECK_DEADLOCK FALSE
