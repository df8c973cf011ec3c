CONSTANTS
  Programs <- WidePrograms
  Configs <- WideConfigs
  VectorBytes = 16
  ReassemblyBytes = 16
  FifoDepth = 2
  QueueCapacity = 3
  PoolCapacity = 4
  BarrierCapacity = 2
  MaxInstances = 3
  MaxGeneration = 2
SPECIFICATION FairSpec
PROPERTY LoadCompletes
CHECK_DEADLOCK FALSE
