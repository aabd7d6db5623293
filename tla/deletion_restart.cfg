CONSTANTS
  Task = {t1}
  Sweeper = {s1}
  Limit = 1
  MaxDelay = 2
  MaxAttempts = 2
  MaxRestarts = 1
  Healthy = {}
SPECIFICATION ServiceSpec
PROPERTY RestartRetries
CHECK_DEADLOCK FALSE
