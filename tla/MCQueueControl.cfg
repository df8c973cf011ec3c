CONSTANTS
  Tasks <- MCTasks
  NumQueues = 3
  CacheDepth = 2
  ReadLatency = 3
  ReadInterval = 2
  PoolCapacity = 8
  QueueCapacity = 3
  BarrierLatency = 2
  Horizon = 3
SPECIFICATION FairSpec
INVARIANT TypeOK
INVARIANT InOrder
INVARIANT BoundaryRespected
INVARIANT ArbitrationBounded
INVARIANT NotifyConserved
INVARIANT WaitsForPages
PROPERTY TaskCompletes
CHECK_DEADLOCK FALSE
