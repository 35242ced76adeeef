CONSTANTS
    Node = {n1, n2}
    Value = {a, b}
    None = None
    Asked = {2}
    Minute = 1
    SyncDelay = 0
    Window = 2
    CacheSize = 2
    Heartbeat = 2
    MaxTime = 3
    MaxFaults = 1
SYMMETRY Symmetry
SPECIFICATION Spec
INVARIANTS
    TypeOK
    ViewsAgree
    RecentComplete
    ViewsMeet
PROPERTIES
    ReadyIsComplete
\* time is bounded, so the last minute ends the behaviour
CHECK_DEADLOCK FALSE
