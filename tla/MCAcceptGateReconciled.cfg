\* The acceptance gate runs while the daemon reconciles.
CONSTANTS
    a1 = a1  a2 = a2
    Accepts = {a1}
    Resume = Resume  Sync = Sync  Reject = Reject
    Actors = {a1}
    None = None  NoReason = NoReason
    Forge = FALSE
    Protected = FALSE
    Gate = TRUE
    TreesAnswer = TRUE
    MayDropForge = FALSE
    MaxResumes = 1
    MaxTurns = 1
    MaxCrashes = 0
SPECIFICATION Spec
INVARIANT GateUndisturbed
CHECK_DEADLOCK FALSE
