\* Cost-aware routing over three processors.
CONSTANTS
    p1 = p1  p2 = p2  p3 = p3  r1 = r1  r2 = r2
    Config <- Processors
    FeePermille <- Fees
    EffectiveLimit <- Limits
    MaxInflight <- Slots
    MinSamples = 1
    FloorNum = 3
    FloorDen = 10
    Balanced = FALSE
    Req = {r1, r2}
    Priority = {r2}
    Amount <- Amounts
    Baseline = p2
    MaxAttempts = 2
    MaxResets = 1
SPECIFICATION Spec
INVARIANTS TypeOK CountersBalance LanesBalance SavingsAccurate
PROPERTY RoutedBest
