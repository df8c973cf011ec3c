SPECIFICATION Spec
CONSTANTS
    SramDepthRows = 8192
    EastStreams = 32
    WestStreams = 32
    AccumulatorRows = 128
    MxmRows = 32
    Supercells = 4
    IsColumns = 4
    Int8LoadStreams = 8
    LoadStreams = 16
    LanesPerTile = 8
    TileRows = 4
    MemSlices = 52
    MemBanks = 2
    C2cLanes = 8
    Samples <- MCSamples
    Damaged <- MCDamaged
    Bases <- MCBases
    Scales <- MCScales
    PointLimit = 64
INVARIANT RoundTrip
INVARIANT NoDeadBits
INVARIANT DomainsSafe
CHECK_DEADLOCK FALSE
