\* Does the monitor settle only what verifyHorizonPayment accepts?
CONSTANTS
  ToleranceStroops = 0
  i1 = i1  i2 = i2  good = good  otherIssuer = otherIssuer  feeBump = feeBump
  s1 = s1  s2 = s2
  Invoices = {i1}
  Txs = {good, otherIssuer}
  Requests = {r1}
  Servers = {s1}
  Kinds = {"monitor"}
  Ledger <- MCLedger
  Terms <- MCTerms
  Networks = {"testnet"}
  Versions = {1}
  PlatformAccount <- Platform
  SimulateAllowed = FALSE
  Skew <- NoSkew
  MaxTime = 1
  MaxTtl = 1
  MaxCrashes = 0
SPECIFICATION Spec
INVARIANT PaidOnlyWhenVerified
CHECK_DEADLOCK FALSE
