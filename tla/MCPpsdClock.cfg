SPECIFICATION CSpec
CONSTANTS
    BootTick = 10
    MinTick = 8
    MaxTick = 12
    MaxFreq = 60
    Second = 100
    TickUnit = 5
    TickAdjMax = 2
    HalfSecond = 50
    MinOffset <- MinusHalf
    MaxOffset = 30
    MaxDrift = 40
    OffNb = 3
    DriftNb = 6
    Once = FALSE
    InitFreqs <- MCInitFreqs
    NaturalDrift = 4
    Noise <- MCNoise
    Offsets <- MCOffsets
    Deviations <- MCDeviations
    MayTimeOut = TRUE
    MayRetry = FALSE
    MaxBehind = 0
    MayCrash = FALSE
    InitErrors <- MCInitErrors
    Jitters <- MCJitters
    Devices <- MCDevices
    Asked = "clear"
    PulseWidth = 7
    HwOffset = 7
INVARIANT
    WindowsFull
PROPERTIES
    ImplementsPpsd
    SteadyAtLast
