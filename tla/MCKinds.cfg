SPECIFICATION Spec
CONSTANTS
    a = a
    b = b
    c = c
    f = f
    r1 = r1
    r2 = r2
    None = none
    Ids = {a, b, c, f}
    First <- MCFirst
    Requests = {r1, r2}
    Histories <- MCHistories
INVARIANTS TypeOK Follows NextInLine
PROPERTIES LeftAsTheyAre
CHECK_DEADLOCK FALSE
