CONSTANTS
    Sizes = {1, 2, 3}
    IPG = 2
    Reserved = {0}
    CrashGroups = 2
SPECIFICATION Spec
INVARIANTS Counted NoSpaceMeansFull
PROPERTY SearchEnds
