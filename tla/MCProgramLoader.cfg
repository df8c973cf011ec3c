CONSTANTS
  Programs <- MCPrograms
  Configs <- MCConfigs
  VectorBytes = 8
  ReassemblyBytes = 16
  FifoDepth = 2
  QueueCapacity = 3
  PoolCapacity = 4
  BarrierCapacity = 2
  MaxInstances = 3
  MaxGeneration = 2
SPECIFICATION FairSpec
INVARIANT TypeOK
INVARIANT ImagesIntact
INVARIANT FailsIffMalformed
PROPERTY LoadCompletes
CHECK_DEADLOCK FALSE
