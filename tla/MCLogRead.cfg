SPECIFICATION FairSpec
CONSTANTS
    w = w r1 = r1 r2 = r2 r3 = r3 other = other id = id job = job
    None = none
    Workers = {w}
    Requests = {r1, r2}
    Sender <- ReadSender
    Cid <- ReadNone
    Job <- ReadNone
    MayRepeat = {}
    Members = {w}
    Keep = 2
    Limit = 1
    MaxSeq = 3
    Histories <- ReadHistories
CHECK_DEADLOCK FALSE
INVARIANTS TypeOK MissedOnlyLate
PROPERTIES Delivered
