SPECIFICATION DataSpec
CONSTANTS
    MemSessions = {"s1"}
    MemTools = {"t1", "t2"}
    HomeOf <- MCHome
    Paths = {"p"}
    MaxMemories = 1
    MaxMemWrites = 2
    MaxMemFaults = 1
    MaxFiles = 2
    ApiRequests = {r1}
    WorkerAttempts = {a1, a2}
    MaxOutputs = 2
    MaxRestarts = 1
    QuietRestarts = TRUE
    ProviderNames = {"docker", "e2b", "opensandbox", "daytona", "local"}
    Callers = {d1, d2}
    Grace = 2
    CreateTimeout = 1
    MaxProviderBoxes = 2
    MaxRoots = 3
    MaxProviderFaults = 2
    Protocols = {"remote_file", "docker_file", "git", "remote_skill", "docker_skill"}
    MaxIdentities = 3
    MaxCuts = 2
    MaxDamage = 1
    ToolBatches <- MCToolBatches
    MaxTexts = 2
    MaxStops = 1
    MaxToolRounds = 2
    MaxBarriers = 1
    MaxCompactions = 1
    MaxPrepareFaults = 1
INVARIANTS
    DataTypeOK
    MemoryIsConsistent
    FilesAreConsistent
    ProvidersAreIdempotent
    MountIsExact
    ContextIsExact
CHECK_DEADLOCK FALSE
