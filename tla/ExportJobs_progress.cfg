SPECIFICATION FairSpec
CONSTANTS
    Jobs = {j1}
    NoJob = NoJob
    Keys = {k1, k2}
    NoKey = NoKey
    Workers = {w1, w2}
    Cleaners = {c1}
    ResultTTL = 1
    PresignTTL = 1
    Retention = 1
    CleanupBatchSize = 1
    MaxDeliver = 3
    PromptRetry = TRUE
    MaxCheckpoints = 1
    MaxRetryVersion = 4
    MaxClock = 2
    MaxFaults = 0
INVARIANTS
    NoOrphans
PROPERTIES
    QueuedIsTaken
    RunningSettles
CHECK_DEADLOCK FALSE
