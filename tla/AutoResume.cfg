\* Both lanes, a restart, a stop, a hold and a person, two tasks.
SPECIFICATION FairSpec
CONSTANTS
  Tasks = {t1, t2}
  NoTask = none
  Breaker = 2
  MaxAttempts = 2
  Gap = 1
  Interval = 1
  MaxEnds = 2
  MaxEvents = 1
INVARIANT TypeOK
PROPERTIES GapKept QueuedIsRetried
