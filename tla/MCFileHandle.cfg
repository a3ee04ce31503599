SPECIFICATION Spec
CONSTANTS
    Handle = {h1, h2}
    Mode <- MCMode
    BS = 2
    NP = 3
    FB = 5
    MaxTrunc = 2
    Amount = {1, 5}
    Length = {0, 2}
    Offset <- MCOffset
    InitSize = {0, 3, 6}
    MaxCalls = 3
    MaxErrors = 1
SYMMETRY MCSymmetry
INVARIANTS
    NoBlockShared
    MapMatchesSize
    SuperblockIntact
    WriteThroughBetweenCalls
PROPERTIES
    EveryStepAdvances
    ImplementsOpenFile
CHECK_DEADLOCK FALSE
