\* A task whose relaunch is refused every time, beside one of the slow lane.
SPECIFICATION FairSpec
CONSTANTS
  Tasks = {t1, t2}
  NoTask = none
  Breaker = 2
  MaxAttempts = 2
  Gap = 1
  Interval = 1
  MaxEnds = 2
  MaxEvents = 0

PROPERTY QueueNeverStarves
