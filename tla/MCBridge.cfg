SPECIFICATION FairSpec
CONSTANTS
    Channels = {"jobs", "github", "other"}
    Watched = {"jobs", "github"}
    MaxSeq = 6
    Channel <- MCChannel
    Jobs = {1, 3, 6}
    Bad <- MCBad
    Amiss = "no profile"
    Blame = 2
    Limit = 2
    Histories <- MCHistories
INVARIANTS TypeOK Kept
PROPERTIES Through
CHECK_DEADLOCK FALSE
