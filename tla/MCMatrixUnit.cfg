SPECIFICATION Spec
CONSTANT
    Tiles = 3
    Lanes = 2
    AccRows = 6
    Horizon = 14
    Programs <- MCPrograms
INVARIANT ResultsExact
INVARIANT FaultsExact
\* A schedule ends at the horizon or with the exception of a failed check.
CHECK_DEADLOCK FALSE
