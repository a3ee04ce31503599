CONSTANTS
    Total = 10
    BPG = 6
    Fdb = 1
    W = 3
    K = 1
    Meta = {1, 2, 8}
    Unwritten = {1}
    Ino = {n1, n2}
    n1 = n1
    n2 = n2
SPECIFICATION Spec
INVARIANTS TypeOK NotShared GroupsCounted TotalsAgree FullWhenNoSpace
PROPERTY ImplementsPool
