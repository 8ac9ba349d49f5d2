\* Everything the environment can do.
CONSTANTS
    Req = {n1, n2, v1}
    Priority = {v1}
    Proc = {p1, p2}
    EffectiveLimit = 1
    MaxInflight = 1
    MaxAttempts = 2
    MaxQueueDepth = 1
    MaxPriorityQueueDepth = 1
    Deadlines = TRUE
    Recoveries = TRUE
    Raises = TRUE
SPECIFICATION Spec
SYMMETRY Symmetry
INVARIANTS TypeOK SlotsAccounted WaitersSound CountersExact HopsBounded FirstHopBacklogBounded
           RefusedUnsent
PROPERTIES NoQueueingPastDeadline ServedInTurn
