CONSTANTS
  Task = {t1, t2}
  Sweeper = {s1}
  Limit = 1
  MaxDelay = 2
  MaxAttempts = 3
  MaxRestarts = 1
  Healthy = {t2}
SPECIFICATION BusySpec
PROPERTY HealthyRowsSettle
CHECK_DEADLOCK FALSE
