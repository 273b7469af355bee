SPECIFICATION Spec
CONSTANTS
    Runs = {"r1", "r2", "r3"}
    Prints = {"p", "q"}
    Asks = {"r3"}
    StaleAfter = 0
    MaxClock = 1
    Requests = {"q1", "q2"}
    Keys = {"k"}
    NoKey = "nokey"
    Bodies = {"a", "b"}
    MaxPerInvoice = 1
    WalletLimit = 2
    MaxAttempts = 2
    MaxFaults = 1
    Events = {"e1", "e2", "e3"}
    Capacity = 2
    Window = 1
    MaxNow = 3
    Calls = {"c1", "c2", "c3"}
    Details = {"d"}
    None = "none"
    Mails = {"m1", "m2", "m3"}
    MaxTries = 2
    LogCapacity = 2
    Users = {"u1", "u2", "u3"}
    Transfers = {1, 2}
    Ttls = {1}
    MaxTime = 2
    Inviters = {"ann", "bob"}
    Emails = {"x", "y"}
    MaxPerWindow = 2
    MaxPerEmail = 2
    InviteWindow = 2
    Lifetime = 1
    MaxInvites = 3
    MaxDay = 2
    Maintainers = {"m1", "m2"}
    Actions = {"job.requeue_dead", "invoice.cancel"}
    TwoPerson = {"invoice.cancel"}
    MaxIntents = 2
    IntentTtl = 1
    MaxMinute = 1
    RiskWindow = 2
    MaxEvents = 9
    MaxHistory = 11
    MaxMishaps = 4
    MaxTick = 2
    Tokens = {"t1", "t2"}
    Subjects = {"s1"}
    Targets = {"f1"}
    Callers = {"c1", "c2"}
    TokenTtls = {1, 2}
    MaxTtl = 2
    Skew = 1
    LedgerCapacity = 1
    MaxMs = 4
    Staff = {"m1"}
    Durations = {1}
    MaxSessions = 2
    MaxStarts = 3
    MaxTrail = 4
    MaxMoment = 2
    Flags = {"f1", "f2"}
    Admins = {"a1", "a2"}
    MaxVersion = 3
    Tabs = {"t1", "t2"}
    Ops = {"o1"}
    MaxRetries = 1
    PageInvoices = {"i1", "i2"}
    MaxOpened = 2
    MaxRequests = 2
    Components = {"header", "panel"}
    Payments = {"p1", "p2"}
    MaxStreams = 3
INVARIANTS
    TypeOK
    NothingTwice
    AnswersAreTrue
    OnlyWithConsent
    

    
CHECK_DEADLOCK FALSE
