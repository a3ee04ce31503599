SPECIFICATION VolumeSpec
CONSTANTS
    lg_bcnt = 4
    Value = {v1, v2}
    Garbage = garbage
    cnt = 1
    JournalBlock = {}
    MaxRefs = 2
    MaxWriteBack = 1
    MaxRange = 1
SYMMETRY ValueSymmetry
VIEW LruView
INVARIANTS
    NoStaleDirtyOverData
PROPERTIES
    ImplementsStore
