\* Does a conflict answer to a cancellation mean a stale version?
CONSTANTS
  ToleranceStroops = 0
  i1 = i1  i2 = i2  good = good  otherIssuer = otherIssuer  feeBump = feeBump
  s1 = s1  s2 = s2
  Invoices = {i1}
  Txs = {good}
  Requests = {r1}
  Servers = {s1}
  Kinds = {"verify", "cancel"}
  Ledger <- MCLedger
  Terms <- MCTerms
  Networks = {"testnet"}
  Versions = {1}
  PlatformAccount <- NoPlatform
  SimulateAllowed = FALSE
  Skew <- NoSkew
  MaxTime = 1
  MaxTtl = 1
  MaxCrashes = 0
SPECIFICATION Spec
PROPERTY CancelConflictMeansStale
CHECK_DEADLOCK FALSE
