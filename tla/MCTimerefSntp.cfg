SPECIFICATION Spec
CONSTANTS
    Second = 4
    MaxOffset = 2
    FixTimeout = 2
    MaxServers = 2
    Processing <- MCProcessing
    Delays <- MCDelays
    Garbage <- MCGarbage
    Skews <- MCSkews
    MayFail = FALSE
PROPERTY SntpSets
CHECK_DEADLOCK FALSE
