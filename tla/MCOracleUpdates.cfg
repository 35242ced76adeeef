CONSTANTS
    Node = {n1, n2}
    Asset = {a1}
    Price = {0, 1000}
    Threshold = 10
    Heartbeat = 2
    Window = 2
    MaxCacheSize = 6
    None = None
    MaxTime = 8
    MaxRestarts = 1
SPECIFICATION Spec
INVARIANTS
    UpdatesAgree
\* time is bounded
CHECK_DEADLOCK FALSE
