\* A forge that may be taken away, an acceptance gate, one crash: what is
\* accepted becomes complete, and nothing stays stranded.
CONSTANTS
    a1 = a1  a2 = a2
    Accepts = {a1, a2}
    Resume = Resume  Sync = Sync  Reject = Reject
    Actors = {a1, a2, Resume}
    None = None  NoReason = NoReason
    Forge = TRUE
    Protected = TRUE
    Gate = TRUE
    TreesAnswer = FALSE
    MayDropForge = TRUE
    MaxResumes = 1
    MaxTurns = 0
    MaxCrashes = 1
SPECIFICATION FairSpec
PROPERTIES AcceptedCompletes StrandedSettles
CHECK_DEADLOCK FALSE
