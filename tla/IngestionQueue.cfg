SPECIFICATION Spec

CONSTANTS
    c1 = c1
    c2 = c2

    Conversations = {c1, c2}
    Long          = {c1}
    Growing       = {c1, c2}
    Urgent        = {c2}
    Terse         = {c2}
    BatchSize     = 2
    MaxVersion    = 1
    MaxDays       = 2
    MaxFaults     = 1

INVARIANTS
    AbsorbedMeansRead
    QueuedIsKept
    GivenOnce

PROPERTIES
    LatestReaches

CHECK_DEADLOCK FALSE
