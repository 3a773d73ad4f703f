SPECIFICATION Spec

CONSTANTS
    console = console
    m1 = m1
    m2 = m2

    Managers   = {m1, m2}
    Direct     = {m2}
    Forcible   = {m2}
    Gated      = {m1}
    Consoles   = {console}
    MaxPauses  = 1
    MaxMishaps = 1

INVARIANTS
    PausedMeansSpecialistsDone
    BusyCoversWork
    CompletedMeansRan

PROPERTIES
    PauseReached
