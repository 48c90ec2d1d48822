SPECIFICATION Spec
CONSTANTS
    Length = 4
    Offsets <- MCOffsets
INVARIANT MedianOfEven
