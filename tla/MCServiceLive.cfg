\* No deadline ever helps: the handoff and the fallback timer alone.
CONSTANTS
    Req = {n1, v1}
    Priority = {v1}
    Proc = {p1, p2}
    EffectiveLimit = 1
    MaxInflight = 1
    MaxAttempts = 2
    MaxQueueDepth = 1
    MaxPriorityQueueDepth = 1
    Deadlines = FALSE
    Recoveries = TRUE
    Raises = TRUE
SPECIFICATION FairSpec
PROPERTY EveryRequestEnds
