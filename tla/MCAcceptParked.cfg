\* An unprotected target, an open PR, one crash: remote-sync parks landed work.
CONSTANTS
    a1 = a1  a2 = a2
    Accepts = {a1}
    Resume = Resume  Sync = Sync  Reject = Reject
    Actors = {a1, Resume, Sync}
    None = None  NoReason = NoReason
    Forge = TRUE
    Protected = FALSE
    Gate = FALSE
    TreesAnswer = TRUE
    MayDropForge = FALSE
    MaxResumes = 1
    MaxTurns = 0
    MaxCrashes = 1
SPECIFICATION Spec
INVARIANT LandedNotRestored
CHECK_DEADLOCK FALSE
