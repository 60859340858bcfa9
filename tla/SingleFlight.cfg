CONSTANTS
    Callers = {c1, c2, c3}
    Keys = {k1, k2}
    Capacity = 1
    MaxCalls = 3
    None = None
SPECIFICATION FairSpec
INVARIANT OnePostPerKey
PROPERTY AnswerNeverOlder
PROPERTY EveryCallReturns
CHECK_DEADLOCK FALSE
