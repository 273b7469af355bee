\* Workers and a repair race for the same jobs; the workers are fair.
CONSTANTS
  w1 = w1  w2 = w2
  Jobs = {j1}
  Workers = {w1, w2}
  MaxAttempts = 2
  BaseDelay = 1  BackoffFactor = 2  MaxDelay = 2
  Backoff <- MCBackoff
  Lease = 2
  Interval = 2
  Delays = {0, 1}
  Skew <- MCSkew
  MaxTime = 3
  MaxRequeues = 1
SPECIFICATION RepairFairSpec
PROPERTIES
  OutcomeIsOfTheLastClaim
  DueJobsAreClaimed
  LostLeasesAreRecovered
CHECK_DEADLOCK FALSE
