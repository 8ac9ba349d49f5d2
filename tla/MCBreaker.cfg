\* The shipped proportions: a cooldown longer than any upstream call, two
\* probes.  No symmetry, because of the liveness properties.
CONSTANTS
    Call = {c1, c2, c3}
    MinSamples = 2
    ThresholdNum = 3
    ThresholdDen = 5
    HealthWindow = 4
    Cooldown = 3
    ProbeRequests = 2
    CallTimeout = 2
    EffectiveLimit = 2
    MaxInflight = 2
    Raises = TRUE
SPECIFICATION FairSpec
INVARIANTS TypeOK ProbeHasItsPeriod NoTransitionUnlogged ClosedIsFresh NoClaimLost
PROPERTIES ProbingEnds RecoversUnlessSwallowed ImplementsRotation
