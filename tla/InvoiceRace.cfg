\* Verify, cancel and simulate race on one invoice over two servers.
CONSTANTS
  ToleranceStroops = 0
  i1 = i1  i2 = i2  good = good  otherIssuer = otherIssuer  feeBump = feeBump
  s1 = s1  s2 = s2
  Invoices = {i1}
  Txs = {good}
  Requests = {r1, r2}
  Servers = {s1, s2}
  Kinds = {"verify", "cancel", "simulate"}
  Ledger <- MCLedger
  Terms <- MCTerms
  Networks = {"testnet"}
  Versions = {1}
  PlatformAccount <- NoPlatform
  SimulateAllowed = TRUE
  Skew <- NoSkew
  MaxTime = 1
  MaxTtl = 1
  MaxCrashes = 1
SPECIFICATION Spec
SYMMETRY RequestSymmetry
INVARIANTS
  TypeOK
  OneWinner
  LockGuardsVerify
  ConfirmedOnce
  AuditTruthful
  SettlerNotMisled
  VerifyConflictMeansStale
PROPERTY FinalRowsStay
CHECK_DEADLOCK FALSE
