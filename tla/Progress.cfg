\* Progress of racing requests, of expiry, of emails and of repairs.
CONSTANTS
  ToleranceStroops = 0
  i1 = i1  i2 = i2  good = good  otherIssuer = otherIssuer  feeBump = feeBump
  s1 = s1  s2 = s2
  Invoices = {i1}
  Txs = {good}
  Requests = {r1, r2}
  Servers = {s1}
  Kinds = {"verify", "cancel"}
  Ledger <- MCLedger
  Terms <- MCTerms
  Networks = {"testnet"}
  Versions = {1}
  PlatformAccount <- NoPlatform
  SimulateAllowed = FALSE
  Skew <- NoSkew
  MaxTime = 1
  MaxTtl = 1
  MaxCrashes = 1
  Mails = {"e1", "e2"}
  Keys = {"k"}
  NoKey = "nokey"
  Bodies = {"a"}
  MaxPerInvoice = 1
  WalletLimit = 2
  MaxAttempts = 2
  MaxFaults = 1
  BatchRows = 1
SPECIFICATION ProgressSpec
PROPERTIES
  EveryRequestAnswered
  OverdueLeavesPending
  WorkEnds
CHECK_DEADLOCK FALSE
