CONSTANTS
    Clients = {c1}
    RingCapacity = 3
    MaxQueued = 0
    MaxSubscribers = 20
    MaxSeq = 4
    MaxGen = 1
    MaxDrops = 1
SPECIFICATION FeedSpec
INVARIANT PlacesAreStreams
