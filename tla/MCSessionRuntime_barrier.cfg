SPECIFICATION Spec
CONSTANTS
    r1 = r1
    r2 = r2
    Inputs = {"message"}
    Parks <- MCBothParks
    Replies = {"end", "park", "tools", "pause", "truncated", "overflow"}
    Relays <- MCOneRelay
    MaxInputs = 4
    MaxBatch = 2
    MaxRounds = 2
    MaxTries = 2
    MaxMore = 1
    MaxGrades = 1
    BatchLimit = 2
    MaxSignals = 2
    MaxLost = 1
INVARIANTS IdleMeansWaiting
PROPERTIES MessagesInOrder
CHECK_DEADLOCK FALSE
