CONSTANTS
    Procs = {p, q}
    Keys = {i, j, k}
    Networks = {test, main}
    Quotas <- MCQuotas
    Deletions <- MCDeletions
    EmptyBytes = 1
    EstimateBytes = 1
    HistoryBytes = 1
    Day = 2
    Second = 1
    MaxListLimit = 2
    Ttl = 0
    MaxClock = 1
    MaxCommands = 3
    None = None
SYMMETRY Symmetry
SPECIFICATION Spec
INVARIANT ReadersAgree
INVARIANT RoundsShrink
PROPERTY SavedUnlessOvertaken
PROPERTY ClearedIsGone
\* Commands come to an end.
CHECK_DEADLOCK FALSE
