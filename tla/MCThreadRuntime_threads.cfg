SPECIFICATION ThreadSpec
CONSTANTS
    p = p
    c1 = c1
    r1 = r1
    Primary = p
    Children <- MCOneChild
    MaxThreads = 2
    ThreadRelays <- MCOneRelay
    PrimaryOutcomes = {"report", "exhausted"}
    ChildOutcomes = {"report", "park", "exhausted", "terminate"}
    MaxUserMessages = 1
    MaxSends = 2
    MaxInterrupts = 1
    MaxModelRetries = 1
    MaxParks = 1
    MaxFaults = 1
INVARIANTS ThreadTypeOK ThreadNoLostWakeup IdleSessionIsQuiet
PROPERTIES ArchivedThreadFrozen
CHECK_DEADLOCK FALSE
