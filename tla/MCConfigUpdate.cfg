CONSTANTS
    None = None
    Secret <- LastSecret
    Contract = {"a", "b", "d"}
    Oracle = {"a", "d"}
    ContractsOf <- FewContracts
    Hasty = FALSE
    TornWrites = TRUE
    MaxConfig = 2
    MaxNonce = 5
    MaxMessages = 3
    MaxTasks = 3
    MaxCrashes = 2
SPECIFICATION FairSpec
INVARIANTS
    TypeOK
    InForceLanded
    NoRunnerLost
PROPERTIES
    NoRollback
    Converges
\* the bounds, and a node that shut down, end the behaviour
CHECK_DEADLOCK FALSE
