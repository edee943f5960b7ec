\* The acceptance gate: two accepts and a reject.
CONSTANTS
    a1 = a1  a2 = a2
    Accepts = {a1, a2}
    Resume = Resume  Sync = Sync  Reject = Reject
    Actors = {a1, a2, Reject}
    None = None  NoReason = NoReason
    Forge = FALSE
    Protected = FALSE
    Gate = TRUE
    TreesAnswer = TRUE
    MayDropForge = FALSE
    MaxResumes = 1
    MaxTurns = 0
    MaxCrashes = 0
SPECIFICATION Spec
INVARIANT RejectStands
CHECK_DEADLOCK FALSE
