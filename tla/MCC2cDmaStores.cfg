CONSTANTS
  Program <- StoreProgram
  Ends <- NoEnds
  NumStreams = 1
  FifoDepth = 2
  RequestDepth = 2
  Channels = 1
SPECIFICATION Spec
INVARIANT IndexInside
CHECK_DEADLOCK FALSE
