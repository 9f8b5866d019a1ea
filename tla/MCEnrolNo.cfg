SPECIFICATION Spec
CONSTANTS
    b = b
    x = x
    y = y
    Bridges = {b}
    Names = {"p"}
    Name <- MCName
    Admins = {x, y}
    MaxRef = 4
    MaxId = 2
    Histories <- NoHistories
INVARIANTS AsksNoMore
CHECK_DEADLOCK FALSE
