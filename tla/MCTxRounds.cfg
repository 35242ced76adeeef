CONSTANTS
    Node = {n1, n2}
    Payload = {p1}
    None = None
    MaxSubmitAttempts = 1
    FirstAttemptTimeout = 1
    RetryAttemptTimeout = 1
    RoundLength = 1
    SignatureLifetime = 1
    RoundsPerTimeframe = 1
    ReadyChecksTimeout = TRUE
    InitiallyInitialized = FALSE
    StateLag = 1
    MaxRound = 2
    MaxLedger = 2
    MaxForeign = 0
    MaxCrashes = 1
    MaxDrops = 0
VIEW RoundsView
SYMMETRY Symmetry
SPECIFICATION Spec
INVARIANTS
    ApprovedByMajority
    NotGivenUpEarly
    InitializedOnce
    SignaturesMeet
\* rounds are bounded, so the last one ends the behaviour
CHECK_DEADLOCK FALSE
