\* Another merge, a reopen, one crash; two steps may fail for ever.
SPECIFICATION FairSpec
CONSTANTS
  MessageAfter = 2
  MaxMerges = 1
  MaxReopens = 1
  MaxCrashes = 1
  Failing = {"fast-forward", "push-parent"}
INVARIANTS TypeOK ClearedMeansDone DependentsWait
PROPERTIES TagStaysPinned CleanupReached PersistentFailureTold OwedGetsDone
CHECK_DEADLOCK FALSE
