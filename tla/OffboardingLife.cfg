SPECIFICATION Spec

CONSTANTS
    index = index
    k1 = k1
    t1 = t1
    k2 = k2

    Pages     = {index}
    Index     = index
    Keys      = {k1, k2}
    Threads   = {t1}
    Delay     = 1
    MaxEvents = 2
    MaxHires  = 2
    MaxLeaves = 1
    MaxFaults = 1

INVARIANTS
    NothingLost
    CutOff
    ReportedOnce
    MarkedMeansWritten
    OnlyBlockersReturn

PROPERTIES
    ArchivedAtLast
    MaterializedAtLast

CHECK_DEADLOCK FALSE
