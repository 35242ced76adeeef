CONSTANTS
    LastId = 2
    Lag = 0
    Kept = {3}
    Window = 1
    MaxLedger = 5
    MaxCalls = 4
    MaxCharge = 2
    MaxFailures = 1
    MaxRestarts = 1
SPECIFICATION LiveSpec
INVARIANTS
    TypeOK
    ReadyIsReplica
PROPERTIES
    Converges
