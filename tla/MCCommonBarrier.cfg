CONSTANTS
  Images <- MCImages
  BarrierCapacity = 2
  MaxCompletionInstances = 3
  LastCycle = 3
  CounterModulus = 5
SPECIFICATION FairSpec
INVARIANT TypeOK
INVARIANT ClockBalance
INVARIANT CursorAgrees
INVARIANT CompletedIsVisible
INVARIANT GenerationsAgree
PROPERTY ReleaseIsDrained
PROPERTY GateSpec
PROPERTY BarrierReleased
CHECK_DEADLOCK FALSE
