SPECIFICATION FairSandboxSpec
CONSTANTS
    w1 = w1
    w2 = w2
    Workers <- MCWorkers
    UniqueNames = TRUE
    MemoryMounted = FALSE
    MaxBoxes = 3
    MaxTools = 1
    MaxSandboxFaults = 1
INVARIANTS SandboxTypeOK ToolsShareTheBoundBox NoOrphanBox
PROPERTIES DeletionCompletes
CHECK_DEADLOCK FALSE
