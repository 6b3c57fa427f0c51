SPECIFICATION ControlSpec
CONSTANTS
    Runners = {w1, w2}
    TTL = 1
    ReclaimAge = 1
    MaxWorkTime = 3
    MaxWork = 3
    MaxWorkEvents = 2
    Schedulers = {k1, k2}
    ManualRunner = api
    Period = 2
    ClaimLease = 0
    MaxDeployTime = 3
    MaxEdits = 2
    MaxCalls = 2
    ModelRequests = {1, 2}
    Attempts = {1}
    FrameBuffer = 2
    MaxPreviews = 2
    Listings <- MCListings
    PageLimit = 1
    MaxRows = 4
    MaxStamp = 3
    MaxRowMoves = 1
    Coordinator = c
    Helpers = {h}
    Ceilings = {0, 1, 3}
    MaxRequests = 3
    MaxInputs = 2
    MaxRuntime = 1
    Creds = {1, 2}
    Resolvers = {v1, v2}
    Rotates = TRUE
    MaxGrants = 2
    MaxRefreshes = 2
    AgentIds = {"c", "m"}
    Geos = {"eu", "us"}
    CatalogClients = {x1, x2}
    MaxVersions = 3
    MaxCatalogCalls = 2
SYMMETRY MCSymmetry
INVARIANTS
    ControlTypeOK
    WorkIsExact
    StreamIsExact
    EveryRowListed
    BudgetIsExact
    
    ReadsAreRechecked
PROPERTIES
    ScheduleIsExact
CHECK_DEADLOCK FALSE
