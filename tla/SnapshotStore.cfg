CONSTANTS
    Collectors = {c1}
    Pruners = {p1, p2}
    Configs = {a, b}
    MaxTime = 4
    Manual = {9}
    Skips = {TRUE}
    Retains = {None, 0, 2}
    Ages = {0, 1}
    None = None
SPECIFICATION Spec
SYMMETRY Symmetry
INVARIANT NoIdenticalNeighbours
PROPERTY NewestKeptUnlessManual
PROPERTY ReadableLostOnlyBehindTorn
\* The bound on captures lets the system stop.
CHECK_DEADLOCK FALSE
