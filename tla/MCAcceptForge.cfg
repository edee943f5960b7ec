\* A forge that merges: accept, resume, remote-sync, reject and one crash.
CONSTANTS
    a1 = a1  a2 = a2
    Accepts = {a1, a2}
    Resume = Resume  Sync = Sync  Reject = Reject
    Actors = {a1, Resume, Sync, Reject}
    None = None  NoReason = NoReason
    Forge = TRUE
    Protected = TRUE
    Gate = FALSE
    TreesAnswer = TRUE
    MayDropForge = FALSE
    MaxResumes = 1
    MaxTurns = 0
    MaxCrashes = 1
SPECIFICATION Spec
INVARIANTS CompleteMeansLanded MarkedHasIntent OneCommitter
CHECK_DEADLOCK FALSE
