SPECIFICATION FairSandboxSpec
CONSTANTS
    w1 = w1
    w2 = w2
    Workers <- MCWorkers
    UniqueNames = TRUE
    MemoryMounted = TRUE
    MaxBoxes = 3
    MaxTools = 1
    MaxSandboxFaults = 0
PROPERTIES DeletionCompletes
CHECK_DEADLOCK FALSE
