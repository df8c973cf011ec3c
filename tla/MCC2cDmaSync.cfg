CONSTANTS
  Program <- SyncProgram
  Ends <- NoEnds
  NumStreams = 2
  FifoDepth = 2
  RequestDepth = 2
  Channels = 2
SPECIFICATION Spec
INVARIANT SyncAfterLastBeat
CHECK_DEADLOCK FALSE
