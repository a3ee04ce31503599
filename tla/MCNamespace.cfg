CONSTANTS
    Root = 1
    Name = {"a", "b", "c"}
    Makes = {"dir", "file"}
    LinkMax = 4
    LinkWrap = 5
    Ino <- MCIno
    Paths <- MCPaths
SPECIFICATION Spec
INVARIANTS NamesAndInodesAgree OneTree LinksCountNames StaysBelow
PROPERTY CallsReturn
CHECK_DEADLOCK FALSE
