\* A crash right after the merge is handed to the forge.
CONSTANTS
    a1 = a1  a2 = a2
    Accepts = {a1}
    Resume = Resume  Sync = Sync  Reject = Reject
    Actors = {a1, Resume}
    None = None  NoReason = NoReason
    Forge = TRUE
    Protected = TRUE
    Gate = FALSE
    TreesAnswer = TRUE
    MayDropForge = FALSE
    MaxResumes = 1
    MaxTurns = 0
    MaxCrashes = 1
SPECIFICATION Spec
INVARIANT HandedOverHasReason
CHECK_DEADLOCK FALSE
