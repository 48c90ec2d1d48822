SPECIFICATION BothSpec
CONSTANTS
    Length = 4
    Unsigned = 8
    Offsets <- MCOffsets
INVARIANTS
    TypeOK
    SortedList
    UpdateSafe
    MomentsAgree
    MedianOfOdd
    FormerAgrees
PROPERTIES
    ImplementsSlidingWindow
    UpdateReturns
