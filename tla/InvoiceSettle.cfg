\* The payment monitor and verification settle two invoices, one server's clock ahead.
CONSTANTS
  ToleranceStroops = 0
  i1 = i1  i2 = i2  good = good  otherIssuer = otherIssuer  feeBump = feeBump
  s1 = s1  s2 = s2
  Invoices = {i1, i2}
  Txs = {otherIssuer, feeBump}
  Requests = {r1, r2}
  Servers = {s2}
  Kinds = {"verify", "monitor"}
  Ledger <- MCLedger
  Terms <- MCTerms
  Networks = {"testnet"}
  Versions = {}
  PlatformAccount <- Platform
  SimulateAllowed = FALSE
  Skew <- SomeSkew
  MaxTime = 2
  MaxTtl = 1
  MaxCrashes = 0
SPECIFICATION Spec
SYMMETRY RequestSymmetry
INVARIANTS
  OneInvoicePerTransaction
PROPERTY ImplementsLifecycle
CHECK_DEADLOCK FALSE
