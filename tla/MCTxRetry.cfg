CONSTANTS
    Node = {n1, n2}
    Payload = {p1}
    None = None
    MaxSubmitAttempts = 2
    FirstAttemptTimeout = 1
    RetryAttemptTimeout = 1
    RoundLength = 2
    SignatureLifetime = 2
    RoundsPerTimeframe = 1
    ReadyChecksTimeout = FALSE
    InitiallyInitialized = TRUE
    StateLag = 0
    MaxRound = 1
    MaxLedger = 2
    MaxForeign = 1
    MaxCrashes = 0
    MaxDrops = 0
SPECIFICATION FairSpec
INVARIANTS
    UpdatesInOrder
    SubmittedByMajority
    SuccessLanded
PROPERTIES
    ImplementsFeed
    RoundsEnd
\* rounds are bounded, so the last one ends the behaviour
CHECK_DEADLOCK FALSE
