SPECIFICATION FairSpec
CONSTANTS
    r1 = r1
    r2 = r2
    Inputs = {"message", "outcome"}
    Parks <- MCBothParks
    Replies = {"end", "park", "fail"}
    Relays <- MCOneRelay
    MaxInputs = 4
    MaxBatch = 1
    MaxRounds = 1
    MaxTries = 1
    MaxMore = 0
    MaxGrades = 2
    BatchLimit = 2
    MaxSignals = 1
    MaxLost = 0
PROPERTIES BarrierResumes
CHECK_DEADLOCK FALSE
