CONSTANTS
  Tiles = 2
  Edge = 2
  Banks = {"A", "B"}
  Place <- MCPlace
  Lanes = {1, 2}
  Programs <- MCPrograms
  Receives <- MCReceives
  RowCount = 3
  IqDepth = 4
  FetchLatency = 1
  MaxAge = 4
  FifoDepth = 2
SPECIFICATION FairSpec
INVARIANT PayloadMeetsWrite
INVARIANT ScoreboardExact
INVARIANT ReadsSeePages
PROPERTY OpenPacketCompletes
CHECK_DEADLOCK FALSE
