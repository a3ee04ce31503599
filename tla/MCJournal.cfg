SPECIFICATION Spec
CONSTANTS
    Bitmap = bitmap
    Pool = {b}
    FirstUses = {"meta"}
    LogSize = 12
    MaxTrans = 4
    MaxCrashes = 1
CHECK_DEADLOCK FALSE
INVARIANTS
    DirtyIsQueued
PROPERTIES
    ImplementsPromise
