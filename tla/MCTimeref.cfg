SPECIFICATION FairSpec
CONSTANTS
    Second = 4
    MaxOffset = 2
    FixTimeout = 2
    MaxServers = 2
    Processing <- MCProcessing
    Delays <- MCDelays
    Garbage <- MCGarbage
    Skews <- MCSkews
    MayFail = TRUE
INVARIANTS
    TypeOK
    OneProtocol
PROPERTIES
    SetWithinASecond
    QueryEnds
CHECK_DEADLOCK FALSE
