CONSTANTS
  Tiles = 2
  Edge = 2
  Banks = {"A", "B"}
  Place <- MCPlace
  Lanes = {1, 2}
  Programs <- SameTagPrograms
  Receives <- SameTagReceives
  RowCount = 3
  IqDepth = 4
  FetchLatency = 1
  MaxAge = 4
  FifoDepth = 2
SPECIFICATION Spec
INVARIANT PayloadMeetsWrite
CHECK_DEADLOCK FALSE
