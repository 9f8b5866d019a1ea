SPECIFICATION FairSpec
CONSTANTS
    v1 = v1
    v2 = v2
    c = c
    cGone = cGone
    t = t
    tGone = tGone
    x = x
    y = y
    Servers <- MCServers
    Chats <- MCChats
    Triggers <- MCTriggers
    Broken <- MCBroken
    Authors = {x, y}
    Author <- MCAuthor
    MaxSeq = 2
    Batch = 2
    Page = 2
    Histories <- MCHistories
INVARIANTS TypeOK NothingPassedOver
PROPERTIES OnceEach Served
CHECK_DEADLOCK FALSE
