\* Headroom and ratio that make the in-flight clamp bind: requested 3, budget 2.
CONSTANTS
    Req = {r1, r2, r3, r4, r5}
    MaxRps = 4
    ScaledRps = 2
    ScaledInflight = 3
    Window = 2
    MaxTime = 4
    LateDelivery = FALSE
SPECIFICATION Spec
SYMMETRY Symmetry
INVARIANTS TypeOK InflightExact RateBounded InflightBounded NoCapacityLeak NoRateLimitRejection
