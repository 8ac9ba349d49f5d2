\* Failover: the woken request may not be able to use the slot.
CONSTANTS
    Req = {n1, n2, n3, n4}
    Priority = {}
    Proc = {p1, p2}
    EffectiveLimit = 5
    MaxInflight = 1
    MaxAttempts = 2
    MaxQueueDepth = 2
    MaxPriorityQueueDepth = 1
    Deadlines = FALSE
    Recoveries = FALSE
    Raises = FALSE
SPECIFICATION Spec
SYMMETRY Symmetry
INVARIANT NoLostWakeup
