\* One payment, two processors.
CONSTANTS
    Req = {r1}
    Shared = {}
    Proc = {p1, p2}
    MaxAttempts = 2
    MaxWipes = 0
SPECIFICATION Spec
INVARIANT AuthorisedOnce
