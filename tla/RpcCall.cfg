CONSTANTS
    FailureThreshold = 2
    Cooldown = 1
    Calls = {c1, c2}
    MaxRetries = 1
    TotalTimeouts = {0, 2}
    Delays = {1, 2}
    HasFallback = TRUE
SPECIFICATION FairCallSpec
PROPERTY ImplementsGates
PROPERTY EveryCallReturns
CHECK_DEADLOCK FALSE
