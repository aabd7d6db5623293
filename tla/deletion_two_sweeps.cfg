CONSTANTS
  Task = {t1, t2}
  Sweeper = {s1, s2}
  Limit = 2
  MaxDelay = 2
  MaxAttempts = 3
  MaxRestarts = 1
  Healthy = {}
SPECIFICATION OverlapSpec
INVARIANT TypeOK
INVARIANT DoneObjectGone
PROPERTY DoneIsFinal
PROPERTY OnlyDueAttempted
CHECK_DEADLOCK FALSE
