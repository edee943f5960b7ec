\* The task is reopened while the sweep has it listed.
CONSTANTS
    MessageAfter = 1
    MaxMerges = 0
    MaxReopens = 1
    MaxCrashes = 0
    Failing = {"cleanup"}
SPECIFICATION Spec
INVARIANT CleansOnlyComplete
CHECK_DEADLOCK FALSE
