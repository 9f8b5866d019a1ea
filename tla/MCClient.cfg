SPECIFICATION FairSpec
CONSTANTS
    r1 = r1 r2 = r2
    None = none
    Requests = {r1, r2}
    Reply = r2
    OutboxMax = 1
    Posts = 2
    Histories <- MCHistories
CHECK_DEADLOCK FALSE
INVARIANTS TypeOK StoredOnce Confirmed HandledInOrder AckedHandled
PROPERTIES Returned Acked
