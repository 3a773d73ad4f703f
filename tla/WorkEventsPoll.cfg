SPECIFICATION Spec

CONSTANTS
    i1 = i1
    alice = alice
    bob = bob

    Kinds     <- LinearOnly
    Items     = {i1}
    Members   = {alice, bob}
    MaxEvents = 2
    MaxFaults = 1

INVARIANTS
    LoggedOnce
    MarkedMeansLogged

PROPERTIES
    ReachesWorkLog
