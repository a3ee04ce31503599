SPECIFICATION Spec
CONSTANTS
    Name = {a1, b1, b2, b3, c1, c2, c3}
    a1 = a1
    b1 = b1
    b2 = b2
    b3 = b3
    c1 = c1
    c2 = c2
    c3 = c3
    Child = {1}
    Need <- Needs
    Hash <- Hashes
    BlockSize = 8
    RootLimit = 2
    NodeLimit = 3
    Starts <- History
    MaxChanges = 3
CHECK_DEADLOCK FALSE
INVARIANT
    SplitDistributes
