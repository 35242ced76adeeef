CONSTANTS
    Node = {n1, n2, n3}
    Payload = {p1}
    None = None
    MaxSubmitAttempts = 1
    FirstAttemptTimeout = 1
    RetryAttemptTimeout = 1
    RoundLength = 1
    SignatureLifetime = 1
    RoundsPerTimeframe = 1
    ReadyChecksTimeout = TRUE
    InitiallyInitialized = TRUE
    StateLag = 0
    MaxRound = 1
    MaxLedger = 1
    MaxForeign = 0
    MaxCrashes = 0
    MaxDrops = 1
SYMMETRY Symmetry
SPECIFICATION Spec
INVARIANTS
    SignaturesMeet
    SubmittedOnce
\* rounds are bounded, so the last one ends the behaviour
CHECK_DEADLOCK FALSE
