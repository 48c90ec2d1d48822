SPECIFICATION Spec
CONSTANTS
    Length = 2
    Second = 8
    Radix = 2
    Epoch = 20
    MaxLines = 4
    MaxFiles = 2
    Offsets <- MCOffsets
    Formats <- MCFormats
INVARIANTS
    OffsetsKept
    TimesKept
    SortedLosesLittle
CHECK_DEADLOCK FALSE
