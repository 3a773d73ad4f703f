SPECIFICATION Spec

CONSTANTS
    c1 = c1
    k1 = k1
    k2 = k2
    v1 = v1
    v2 = v2

    Keys       = {k1, k2}
    Values     = {v1, v2}
    None       = None
    Callers    = {c1}

INVARIANTS
    LiveIsWhole
    ReturnedIsKept

PROPERTIES
    ImplementsAtomicStore
