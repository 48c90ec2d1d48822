SPECIFICATION FairSpec
CONSTANTS
    Masters = {"ppsd", "jfadjtimex"}
    BootTick = 4
    MinTick = 3
    MaxTick = 5
    MaxFreq = 7
    Ppm = 5
    PpbPerPpm = 3
    TopPpm = 2
    Second = 4
    Roots <- MCRoots
    Jobs <- MCJobs
    MaxJobs = 3
INVARIANTS TypeOK TickAddsUp FrequencyAddsUp LimitsFound ClockMovedAsAsked
PROPERTIES NoFalseAlarm LimitsEnd
CHECK_DEADLOCK FALSE
