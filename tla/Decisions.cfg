SPECIFICATION DecisionsSpec
CONSTANTS
    Callers = {c1, c2}
    Costs = {1, 3}
    MaxQueueDepth = 5
    HighWatermark = 4
    LowWatermark = 2
    EmergencyLimit = 6
    MaxWorkloadCost = 6
    MaxBooked = 9
    ToleranceStroops = 1
    TextLength = 4
    CellLength = 2
    MaxCells = 4
    Keys = {"k1", "k2"}
    Values = {0, 1, 2}
    Events = {"e1", "e2", "e3"}
    NoKey = "nokey"
    PolicyIds = {1, 2}
    DaysCap = 4
    Granted = {"invoice:cancel", "invoice:verify", "policy:update", "audit:read", "export:create"}
    Taken = {"invoice:read", "export:create", "job:view"}
    DiffAmounts = {1, 2, 3}
    DiffAssets = {"XLM", "USDC"}
    Holders = {"x", "y"}
    People = {"ann", "bob", "eve"}
    Reserve = 1
    Opening = 6
    Flows = {"f1"}
    MaxTime = 6
    Clients = {"c1", "c2"}
    MaxAttempts = 3
    Jobs = {"j1", "j2"}
    MaxId = 3
    MaxDay = 1
    MaxVersion = 3
    BillLife = 2
    RestoreTime = 2
    Runners = {"r1", "r2"}
    Bills = {"b1", "b2"}
INVARIANTS
    TypesOK
    OvershootIsBounded
    
    
    EditsSurvive
    
    
    

    
CHECK_DEADLOCK FALSE
