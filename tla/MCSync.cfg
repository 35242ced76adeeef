CONSTANTS
    Node = {n1, n2}
    Sub = {s1}
    Seen = {1, 2, None}
    None = None
    Threshold = 1
    Heartbeat = 1
    Retention = 1
    MaxRound = 2
    MaxClock = 2
    MaxFaults = 1
SPECIFICATION FairSpec
INVARIANTS
    SyncAgreement
    DisagreementIsSigned
    NotificationsLanded
PROPERTIES
    SyncSpreads
    SyncMovesForward
\* rounds are bounded, so the last one ends the behaviour
CHECK_DEADLOCK FALSE
