SPECIFICATION FairThreadSpec
CONSTANTS
    p = p
    c1 = c1
    r1 = r1
    Primary = p
    Children <- MCOneChild
    MaxThreads = 2
    ThreadRelays <- MCOneRelay
    PrimaryOutcomes = {"report"}
    ChildOutcomes = {"report", "park", "exhausted", "terminate"}
    MaxUserMessages = 2
    MaxSends = 0
    MaxInterrupts = 0
    MaxModelRetries = 1
    MaxParks = 0
    MaxFaults = 0
PROPERTIES ThreadRetryProceeds
CHECK_DEADLOCK FALSE
