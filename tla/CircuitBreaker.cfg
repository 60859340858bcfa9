CONSTANTS
    FailureThreshold = 2
    Cooldown = 2
    Callers = {c1, c2, c3}
SPECIFICATION FairSpec
INVARIANT WastedCallsBounded
INVARIANT StrandedOnlyWithoutVerdict
PROPERTY ProbesAreSpaced
PROPERTY OpensOnlyAfterStreak
PROPERTY ProbeResolves
\* A circuit stranded half-open with nobody in flight takes no further step.
CHECK_DEADLOCK FALSE
