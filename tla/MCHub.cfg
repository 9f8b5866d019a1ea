SPECIFICATION Spec
CONSTANTS
    w1 = w1 s1 = s1 s2 = s2 s3 = s3
    Server = server None = none
    Members <- MCMembers
    Workers = {w1}
    Sockets = {s1, s2}
    Channels = {1, 2}
    Batch = 2
    MaxSeq = 2
    MaxTokens = 2
    Histories <- MCHistories
SYMMETRY SocketSymmetry
CHECK_DEADLOCK FALSE
INVARIANTS TypeOK Presence NothingForgotten MissedOnlyStray InOrder
