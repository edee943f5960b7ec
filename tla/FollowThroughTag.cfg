\* Another task is merged into the same target.
CONSTANTS
    MessageAfter = 1
    MaxMerges = 1
    MaxReopens = 0
    MaxCrashes = 1
    Failing = {}
SPECIFICATION Spec
INVARIANT TagNamesMerge
CHECK_DEADLOCK FALSE
