SPECIFICATION Spec

CONSTANTS
    a = a
    b = b
    manager = manager
    r1 = r1
    r2 = r2
    wiki = wiki

    Lines         = {a, b, wiki}
    Directives    = {wiki}
    Signatures    = {}
    Manager       = manager
    Writers       = {}
    Rows          = {r1, r2}
    Modes         = {}
    SyncFlags     = {}
    Labels        = {TRUE, FALSE}
    Evidence      = {}
    Choices       = {"resolved_md", "resolved_notion"}
    Editors       = {"md", "notion"}
    Watched       = {}
    MirrorEnabled = TRUE
    Additive      = FALSE
    Overlap       = FALSE
    MaxEdits      = 4
    MaxFaults     = 0

INVARIANTS
    OneRowAtATime

PROPERTIES
    AppliedMeansMirrored
    LocalPageNotPushed
    ConflictsSettle
    DirectiveHandled
