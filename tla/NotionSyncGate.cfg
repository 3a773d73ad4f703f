SPECIFICATION Spec

CONSTANTS
    a = a
    b = b
    manager = manager
    r1 = r1
    r2 = r2
    s1 = s1
    s2 = s2
    w1 = w1

    Lines         = {a, b}
    Directives    = {}
    Signatures    = {s1, s2}
    Manager       = manager
    Writers       = {w1}
    Rows          = {r1, r2}
    Modes         = {"update"}
    SyncFlags     = {TRUE}
    Labels        = {}
    Evidence      = {}
    Choices       = {}
    Editors       = {"notion"}
    Watched       = {"notion"}
    MirrorEnabled = TRUE
    Additive      = FALSE
    Overlap       = FALSE
    MaxEdits      = 5
    MaxFaults     = 0

SYMMETRY Symmetry

INVARIANTS
    NoLineLost
