SPECIFICATION Spec

CONSTANTS
    a = a
    b = b
    manager = manager
    r1 = r1
    r2 = r2
    w1 = w1

    Lines         = {a, b}
    Directives    = {}
    Signatures    = {}
    Manager       = manager
    Writers       = {w1}
    Rows          = {r1, r2}
    Modes         = {"update", "sync_all"}
    SyncFlags     = {TRUE}
    Labels        = {}
    Evidence      = {"md", "notion"}
    Choices       = {"resolved_md", "resolved_notion"}
    Editors       = {"md", "notion"}
    Watched       = {}
    MirrorEnabled = TRUE
    Additive      = FALSE
    Overlap       = TRUE
    MaxEdits      = 2
    MaxFaults     = 1

PROPERTIES
    Converges
