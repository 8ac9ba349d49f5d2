\* Payments that may share a key; any call may be lost.
CONSTANTS
    Req = {r1, r2}
    Shared = {r1, r2}
    Proc = {p1, p2, p3}
    MaxAttempts = 2
    MaxWipes = 1
SPECIFICATION Spec
SYMMETRY Symmetry
INVARIANTS TypeOK ApprovedIsAuthorised ReplayNeverAuthorises ReplayConsistent
PROPERTY ImplementsSettlement
