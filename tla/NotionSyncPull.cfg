SPECIFICATION Spec

CONSTANTS
    a = a
    b = b
    c = c
    manager = manager
    r1 = r1
    r2 = r2
    w1 = w1

    Lines         = {a, b, c}
    Directives    = {}
    Signatures    = {}
    Manager       = manager
    Writers       = {w1}
    Rows          = {r1, r2}
    Modes         = {"append"}
    SyncFlags     = {FALSE}
    Labels        = {}
    Evidence      = {}
    Choices       = {}
    Editors       = {"md", "notion"}
    Watched       = {"md", "notion", "agent"}
    MirrorEnabled = TRUE
    Additive      = TRUE
    Overlap       = FALSE
    MaxEdits      = 6
    MaxFaults     = 0

SYMMETRY Symmetry

INVARIANTS
    NoLineLost
