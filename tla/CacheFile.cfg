CONSTANTS
    Procs = {p, q}
    Keys = {k}
    MaxFiles = 3
    MaxCommands = 3
    None = None
SPECIFICATION Spec
SYMMETRY Symmetry
INVARIANT NothingLost
INVARIANT BackupsAreWhole
INVARIANT EmptyHasMaker
\* The bound on commands lets the system stop.
CHECK_DEADLOCK FALSE
