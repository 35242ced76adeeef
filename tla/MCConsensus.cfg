CONSTANTS
    N = 3
    Minutes = 1
    PerMinute = 2
    Value = {0, 1, 2}
    None = None
    Width = 32
    SameOrder = TRUE
    Source <- FourSources
    TypeOf <- MixedSources
    Price = {0, 1000, 1039, 2007}
    Trade <- SomeTrades
    ProviderDecimals = 2
    Decimals = 1
    MaxMinutes = 2
SPECIFICATION Spec
INVARIANTS
    TypeOK
    PricesShared
    MajorityAgrees
    MinorityCannotMove
    SourceWithinMinutes
\* each node computes its prices once
CHECK_DEADLOCK FALSE
