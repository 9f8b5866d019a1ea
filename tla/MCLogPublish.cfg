SPECIFICATION Spec
CONSTANTS
    w = w r1 = r1 r2 = r2 r3 = r3 other = other id = id job = job
    None = none
    Workers = {}
    Requests <- MCRequests
    Sender <- PublishSender
    Cid <- PublishCid
    Job <- PublishJob
    MayRepeat = {}
    Members = {}
    Keep = 1
    Limit = 1
    MaxSeq = 4
    Histories <- PublishHistories
CHECK_DEADLOCK FALSE
INVARIANTS StoredOnce Confirmed KeptPlusLate
