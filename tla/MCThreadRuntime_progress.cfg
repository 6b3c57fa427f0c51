SPECIFICATION FairThreadSpec
CONSTANTS
    p = p
    c1 = c1
    r1 = r1
    Primary = p
    Children <- MCOneChild
    MaxThreads = 2
    ThreadRelays <- MCOneRelay
    PrimaryOutcomes = {"report"}
    ChildOutcomes = {"report", "park", "exhausted", "terminate"}
    MaxUserMessages = 1
    MaxSends = 1
    MaxInterrupts = 1
    MaxModelRetries = 0
    MaxParks = 1
    MaxFaults = 0
PROPERTIES ThreadProgress
CHECK_DEADLOCK FALSE
