\* A crash leaves a marker, a turn changes the status, the next accept aborts.
CONSTANTS
    a1 = a1  a2 = a2
    Accepts = {a1, a2}
    Resume = Resume  Sync = Sync  Reject = Reject
    Actors = {a1, a2}
    None = None  NoReason = NoReason
    Forge = FALSE
    Protected = FALSE
    Gate = FALSE
    TreesAnswer = TRUE
    MayDropForge = FALSE
    MaxResumes = 1
    MaxTurns = 1
    MaxCrashes = 1
SPECIFICATION Spec
PROPERTY AbortRestoresFound
CHECK_DEADLOCK FALSE
