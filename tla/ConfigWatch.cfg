CONSTANTS
    Configs = {a, b}
    MaxLedger = 3
    MaxInbox = 2
    MaxAttempts = 2
    DiskFails = TRUE
    NoConfig = NoConfig
SPECIFICATION FairSpec
INVARIANT HiddenOnlyByMishap
INVARIANT ResumesFromLastSeen
PROPERTY LastingChangeStored
