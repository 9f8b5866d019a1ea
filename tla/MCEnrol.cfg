SPECIFICATION FairSpec
CONSTANTS
    b = b
    x = x
    y = y
    Bridges = {b}
    Names = {"p"}
    Name <- MCName
    Admins = {x, y}
    MaxRef = 4
    MaxId = 2
    Histories <- MCHistories
INVARIANTS TypeOK OneWorker PendingOnce
PROPERTIES StaysRefused Arrives
CHECK_DEADLOCK FALSE
