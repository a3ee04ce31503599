SPECIFICATION Spec
CONSTANTS
    lg_bcnt = 4
    Value = {v1, v2}
    Garbage = garbage
    cnt = 2
    JournalBlock = {3}
    MaxRefs = 3
    MaxWriteBack = 2
    MaxRange = 2
SYMMETRY ValueSymmetry
VIEW LruView
INVARIANTS
    DirtyListReady
    CleanMatchesDisk
    DirtyTracked
