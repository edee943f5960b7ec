\* No forge: two accepts, the daemon's resume, a reject and two crashes.
CONSTANTS
    a1 = a1  a2 = a2
    Accepts = {a1, a2}
    Resume = Resume  Sync = Sync  Reject = Reject
    Actors = {a1, a2, Resume, Reject}
    None = None  NoReason = NoReason
    Forge = FALSE
    Protected = FALSE
    Gate = FALSE
    TreesAnswer = FALSE
    MayDropForge = FALSE
    MaxResumes = 2
    MaxTurns = 1
    MaxCrashes = 2
SPECIFICATION Spec
INVARIANTS TypeOK LandedIsFinishable LocalMergingIsMarked RejectStands ReasonRecordedOnce AcceptedHasReason
PROPERTY ImplementsOutcome
CHECK_DEADLOCK FALSE
