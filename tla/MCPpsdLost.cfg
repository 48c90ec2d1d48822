SPECIFICATION Spec
CONSTANTS
    BootTick = 10
    MinTick = 8
    MaxTick = 12
    MaxFreq = 60
    Second = 100
    TickUnit = 5
    TickAdjMax = 2
    HalfSecond = 50
    MinOffset <- MinusHalf
    MaxOffset = 50
    MaxDrift = 40
    OffNb = 2
    DriftNb = 4
    Once = FALSE
    InitFreqs <- MCInitFreqs
    NaturalDrift = 20
    Noise <- MCNoise
    Offsets <- MCOffsets
    Deviations <- MCDeviations
    MayTimeOut = TRUE
    MayRetry = FALSE
    MaxBehind = 2
    MayCrash = FALSE
INVARIANT TimerefIsLastPulse
