\* One stop beside the tick and a launch.
SPECIFICATION Spec
CONSTANTS
  Tasks = {t1, t2}
  NoTask = none
  Breaker = 2
  MaxAttempts = 2
  Gap = 1
  Interval = 1
  MaxEnds = 2
  MaxEvents = 1
INVARIANT StopStands

