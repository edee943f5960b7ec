CONSTANTS
    Clients = {c1}
    RingCapacity = 1
    MaxQueued = 0
    MaxSubscribers = 20
    MaxSeq = 2
    MaxGen = 1
    MaxDrops = 0
    Writers = {w1, w2}
    Statuses = {"working", "review"}
    MaxNotes = 1
    None = None
SPECIFICATION Spec
INVARIANT CopyFollowsStore
SYMMETRY AnyWriter
