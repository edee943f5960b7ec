\* A reopen and an accept overtake the note of a message.
CONSTANTS
    MessageAfter = 1
    MaxMerges = 0
    MaxReopens = 1
    MaxCrashes = 1
    Failing = {"push-parent"}
SPECIFICATION Spec
INVARIANT ClearedAlwaysDone
CHECK_DEADLOCK FALSE
