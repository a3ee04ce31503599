SPECIFICATION Spec
CONSTANTS
    FileBlocks = 5
    Blocks = 18
    MaxCuts = 1
    RootMax = 1
    NodeMax = 2
    InitMaxLen = 4
    UnwrittenMaxLen = 3
    MadeElsewhere <- Elsewhere
    ForeignSets <- Foreigners
CHECK_DEADLOCK FALSE
INVARIANTS
    EveryBlockInOnePlace
    TreeShape
PROPERTIES
    ImplementsMap
    CallsReturn
