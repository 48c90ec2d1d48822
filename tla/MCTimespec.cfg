SPECIFICATION FairSpec
CONSTANTS
    Second = 3
    Parts <- MCParts
    Nanoseconds <- MCNanoseconds
INVARIANTS
    TypeOK
    ValueKept
    NormalForm
    CmpAgrees
PROPERTY NormReturns
