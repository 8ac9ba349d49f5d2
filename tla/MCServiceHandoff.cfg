\* One attempt per payment, capacity freed by returned slots alone.
CONSTANTS
    Req = {n1, n2, n3, v1, v2}
    Priority = {v1, v2}
    Proc = {p1, p2}
    EffectiveLimit = 5
    MaxInflight = 1
    MaxAttempts = 1
    MaxQueueDepth = 3
    MaxPriorityQueueDepth = 2
    Deadlines = FALSE
    Recoveries = FALSE
    Raises = TRUE
SPECIFICATION Spec
SYMMETRY Symmetry
INVARIANT NoLostWakeup
