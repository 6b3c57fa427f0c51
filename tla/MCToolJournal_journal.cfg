SPECIFICATION FairSpec
CONSTANTS
    w1 = w1
    w2 = w2
    None = None
    NSteps = 4
    Kind <- MCAllKinds
    Workers <- MCWorkers
    MaxLost = 2
    Interrupts = TRUE
INVARIANTS TypeOK AtMostOnce NoHiddenEffect ToldIsDurable ClosedAttemptSettled
PROPERTIES ClassificationIsFinal ToolCallAnswered
CHECK_DEADLOCK FALSE
