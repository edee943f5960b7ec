\* The forge is taken away; the sweep recovers without the lock.
CONSTANTS
    a1 = a1  a2 = a2
    Accepts = {a1, a2}
    Resume = Resume  Sync = Sync  Reject = Reject
    Actors = {a1, a2, Resume}
    None = None  NoReason = NoReason
    Forge = TRUE
    Protected = TRUE
    Gate = FALSE
    TreesAnswer = TRUE
    MayDropForge = TRUE
    MaxResumes = 1
    MaxTurns = 0
    MaxCrashes = 1
SPECIFICATION Spec
INVARIANT MarkedHasIntent
CHECK_DEADLOCK FALSE
