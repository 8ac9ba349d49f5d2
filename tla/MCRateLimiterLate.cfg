\* The same limiter when a call the router gave up on can still be delivered.
CONSTANTS
    Req = {r1, r2, r3}
    MaxRps = 2
    ScaledRps = 1
    ScaledInflight = 1
    Window = 1
    MaxTime = 3
    LateDelivery = TRUE
SPECIFICATION Spec
SYMMETRY Symmetry
INVARIANT NoRateLimitRejection
