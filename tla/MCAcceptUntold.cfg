\* A crash during the last resume.
CONSTANTS
    a1 = a1  a2 = a2
    Accepts = {a1}
    Resume = Resume  Sync = Sync  Reject = Reject
    Actors = {a1, Resume}
    None = None  NoReason = NoReason
    Forge = FALSE
    Protected = FALSE
    Gate = FALSE
    TreesAnswer = TRUE
    MayDropForge = FALSE
    MaxResumes = 1
    MaxTurns = 0
    MaxCrashes = 2
SPECIFICATION Spec
INVARIANT ExhaustedIsTold
CHECK_DEADLOCK FALSE
