SPECIFICATION FairSpec
CONSTANTS
    r1 = r1
    r2 = r2
    Inputs = {"message", "interrupt"}
    Parks <- MCNoParks
    Replies = {"end", "retry", "fail"}
    Relays <- MCTwoRelays
    MaxInputs = 2
    MaxBatch = 2
    MaxRounds = 1
    MaxTries = 2
    MaxMore = 0
    MaxGrades = 1
    BatchLimit = 1
    MaxSignals = 1
    MaxLost = 1
INVARIANTS TypeOK StatusIsProjection NoLostWakeup CursorSafe OneEndPerTurn
PROPERTIES ImplementsContract SessionProgress
CHECK_DEADLOCK FALSE
