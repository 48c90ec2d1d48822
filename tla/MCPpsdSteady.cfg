SPECIFICATION Spec
CONSTANTS
    BootTick = 10
    MinTick = 5
    MaxTick = 15
    MaxFreq = 60
    Second = 100
    TickUnit = 5
    TickAdjMax = 2
    HalfSecond = 50
    MinOffset <- Minus30
    MaxOffset = 50
    MaxDrift = 40
    OffNb = 2
    DriftNb = 3
    Once = TRUE
    InitFreqs <- MCInitFreqs
    NaturalDrift = 20
    Noise <- MCNoise
    Offsets <- MCOffsets
    Deviations <- MCDeviations
    MayTimeOut = FALSE
    MayRetry = FALSE
    MaxBehind = 0
    MayCrash = TRUE
INVARIANTS
    DriftUnbiased
    WholeCorrection
    LeftoverBounded
PROPERTY NeverJumpsBack
