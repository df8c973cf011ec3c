SPECIFICATION FairSpec
CONSTANTS
  Commands <- MCCommands
  ImemDepth = 8
  IqDepth = 3
  FetchLatency = 2
  Tags = {"t"}
  MaxEvents = 1
  Images <- MCImages
  WordBits = 96
  ImemReadLatency = 2
  ImemRequestInitiationInterval = 1
  ReservoirWords = 2
  DecodeWindowBits = 64
  DdbDepth = 2
  DdbRunCapacity = 2
  AdmissionLookahead = 3
  ContextDepth = 2
  OperandLimit = 16
  MaxHolds = 1
  Loaded <- MCLoaded
  Together <- MCTogether
INVARIANT TypeOK
INVARIANT IssuesOnSchedule
INVARIANT LegacyStartsKept
INVARIANT MacroIssuesOnTime
INVARIANT FaultsJustified
PROPERTY QueuesEnd
CHECK_DEADLOCK FALSE
