CONSTANTS
    Builds = {a, b}
    Partial = Partial
    Missing = Missing
    Locked = Locked
    MaxWrites = 5
    NoHash = NoHash
SPECIFICATION FairBuildSpec
PROPERTY TransientOnlyByRace
PROPERTY LastingBuildEstimated
\* The command stops, and nothing is left to do.
CHECK_DEADLOCK FALSE
