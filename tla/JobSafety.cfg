\* Two workers with different clocks, two jobs, leases that run out.
CONSTANTS
  w1 = w1  w2 = w2
  Jobs = {j1, j2}
  Workers = {w1, w2}
  MaxAttempts = 2
  BaseDelay = 1  BackoffFactor = 2  MaxDelay = 2
  Backoff <- MCBackoff
  Lease = 2
  Interval = 2
  Delays = {0, 1}
  Skew <- MCSkew
  MaxTime = 2
  MaxRequeues = 1
SPECIFICATION AloneSpec
SYMMETRY JobSymmetry
INVARIANTS
  TypeOK
  HeldForTheLease
  OneSweepPerInterval
PROPERTY OnlyTheLastClaimReports
CHECK_DEADLOCK FALSE
