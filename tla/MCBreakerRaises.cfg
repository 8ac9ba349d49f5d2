\* An answer that escapes classification during a probe.
CONSTANTS
    Call = {c1, c2, c3}
    MinSamples = 2
    ThresholdNum = 3
    ThresholdDen = 5
    HealthWindow = 3
    Cooldown = 2
    ProbeRequests = 2
    CallTimeout = 1
    EffectiveLimit = 2
    MaxInflight = 2
    Raises = TRUE
SPECIFICATION FairSpec
PROPERTY Recovers
