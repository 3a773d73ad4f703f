SPECIFICATION Spec

CONSTANTS
    p = p
    q = q

    Procs       = {p, q}
    Builders    = {q}
    Unpriced    = {}
    Swallows    = {}
    Unchecked   = {q}
    Costs       = {1}
    Limit       = 2
    Threshold   = 1
    MaxUsd      = 1
    MaxSteps    = 3
    MaxAttempts = 2
    MaxItems    = 3
    MaxRuns     = 1
    MaxMonths   = 2
    MaxFaults   = 1

INVARIANTS
    LedgerIsHonest
    OneCallPastTheLimit
    CapsHold
    AlertedOnce

PROPERTIES
    RunsEnd

CHECK_DEADLOCK FALSE
