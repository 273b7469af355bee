SPECIFICATION Spec
CONSTANTS
    Entities = {"e1", "e2"}
    Actors = {"a1"}
    AuditCapacity = 2
    MaxRecorded = 4
    PageLimit = 1
    InvoiceIds = {"i1"}
    Visibilities = {"INTERNAL", "REVOKED"}
    Repairers = {"r1"}
    CacheKeys = {"k1", "k2"}
    Loads = {"l1", "l2"}
    MaxEntries = 1
    MaxVersions = 2
    StatusCalls = {"g1", "g2"}
    CacheTtl = 1
    MaxSecond = 1
    Watched = {"stellar_horizon", "postgres"}
    ProbeStates = {"healthy", "down"}
    Bills = {"b1", "b2"}
    OldJobs = {"j1"}
    BatchSize = 1
    TableSets = {{"invoices", "transactions", "payment_events", "jobs"}, {"payment_events", "jobs"}, {"invoices", "payment_events"}}
    Executors = {"x1", "x2"}
    BatchRows = 1
    FailedJobs = {"f1", "f2"}
    RetryKeys = {"k1"}
    RetryCalls = {"c1", "c2"}
    RetryWindow = 0
    MaxTick = 1
    Journeys = {"w1", "w2"}
    MaxRetries = 1
    Versions = {"old", "new"}
    ExpectedVersion = "old"
    TableNames = {"invoices", "extra"}
    ColumnNames = {"id", "new"}
    QueueJobs = {"q1", "q2", "q3"}
    ScanCap = 1
    HeldIds = {"i1", "i2", "i3"}
    Memos = {"m1", "m2", "m3"}
    Hashes = {"h1"}
    NoHash = "nohash"
    NoId = "noid"
    MaxHeld = 2
    CacheEntries = 2
    Ttl = 2
    Life = 1
    MaxClock = 2
    RowIds = {1, 2, 3}
    Times = {0, 1}
    Sellers = {"s", "t"}
    PageSize = 1
    MaxRecords = 2
    ExportIds = {"e1", "e2", "e3"}
    Wallets = {"s", "t"}
    RetentionTime = 1
    MaxArtifacts = 1
    MaxTombstones = 1
    MaxHour = 2
    ItemIds = {1, 2, 3}
    SortKeys = {0, 1}
    CursorScopes = {"a", "b"}
    Limit = 1
    Width = 2
    Moments = {0, 3}
    EventIds = {1, 2, 3}
    EventTimes = {1, 2}
INVARIANTS
    TypeOK
    DerivedDataAgrees
    ReadersMissNothing
    

    
CHECK_DEADLOCK FALSE
