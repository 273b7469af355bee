\* A repair takes a job from a worker whose lease is fresh.
CONSTANTS
  w1 = w1  w2 = w2
  Jobs = {j1}
  Workers = {w1, w2}
  MaxAttempts = 2
  BaseDelay = 1  BackoffFactor = 2  MaxDelay = 2
  Backoff <- MCBackoff
  Lease = 2
  Interval = 2
  Delays = {0, 1}
  Skew <- MCSkew
  MaxTime = 3
  MaxRequeues = 1
SPECIFICATION RepairSpec
INVARIANT HeldDespiteRepair
CHECK_DEADLOCK FALSE
