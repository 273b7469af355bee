\* A job that outlives its workers is attempted too often.
CONSTANTS
  w1 = w1  w2 = w2
  Jobs = {j1, j2}
  Workers = {w1, w2}
  MaxAttempts = 2
  BaseDelay = 1  BackoffFactor = 2  MaxDelay = 2
  Backoff <- MCBackoff
  Lease = 2
  Interval = 2
  Delays = {0, 1}
  Skew <- MCSkew
  MaxTime = 3
  MaxRequeues = 1
SPECIFICATION AloneSpec
INVARIANT AttemptsWithinPolicy
CHECK_DEADLOCK FALSE
