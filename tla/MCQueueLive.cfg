SPECIFICATION FairSpec
CONSTANTS
    h = h a = a b = b pa = pa pb = pb
    Server = server
    NoOne = none
    Workers <- MCWorkers
    Polls <- MCPolls
    Patient = {pa}
    Owner <- MCOwner
    Rank <- MCRank
    Turns = {1}
    Author <- MCAuthor
    Routes <- MCRoutes
    Members <- MCWorkers
    Takers <- MCTakers
    MaxSeq = 1
    Histories <- LongHistories
    From = 0
    Batch = 1
    Keep = 0
    Keeps = {1}
INVARIANTS TypeOK
PROPERTIES Served
