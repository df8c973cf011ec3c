CONSTANTS
  Program <- MCProgram
  Ends <- MCEnds
  NumStreams = 2
  FifoDepth = 2
  RequestDepth = 3
  Channels = 2
SPECIFICATION FairSpec
INVARIANT TypeOK
INVARIANT LoadsInOrder
INVARIANT LoadsSeeStores
INVARIANT StoresLanded
INVARIANT CompletionsNotified
PROPERTY ProgramCompletes
CHECK_DEADLOCK FALSE
