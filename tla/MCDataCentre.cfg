CONSTANTS
  Rows <- MCRows
  Bad = {}
  Setups <- MCSetups
  MaxFiles = 3
  MaxFaults = 1
  Client = {c1, c2}
  Worker = {w1, w2}
  MaxFD = 2
  MaxPieces = 1
  MaxRequests = 1
SPECIFICATION CentreSpec
INVARIANTS NothingSkipped BackedUpIsLoaded OwnReplies
PROPERTIES Delivered AnsweredThenEnds
CHECK_DEADLOCK FALSE
