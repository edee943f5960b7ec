CONSTANTS
    Clients = {c1}
    RingCapacity = 3
    MaxQueued = 0
    MaxSubscribers = 20
    MaxSeq = 5
    MaxGen = 2
    MaxDrops = 2
SPECIFICATION FairFeedSpec
INVARIANTS FeedTypeOK NothingSkipped
PROPERTY EventuallyTold
