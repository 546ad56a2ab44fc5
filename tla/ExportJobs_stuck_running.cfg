SPECIFICATION FairSpec
CONSTANTS
    Jobs = {j1}
    NoJob = NoJob
    Keys = {k1, k2}
    NoKey = NoKey
    Workers = {w1}
    Cleaners = {}
    ResultTTL = 1
    PresignTTL = 1
    Retention = 1
    CleanupBatchSize = 1
    MaxDeliver = 3
    PromptRetry = FALSE
    MaxCheckpoints = 0
    MaxRetryVersion = 0
    MaxClock = 0
    MaxFaults = 1
PROPERTIES
    RunningSettles
CHECK_DEADLOCK FALSE
