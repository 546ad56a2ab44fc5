SPECIFICATION FairSpec
CONSTANTS
    Jobs = {j1, j2}
    NoJob = NoJob
    Keys = {k1, k2}
    NoKey = NoKey
    Workers = {w1}
    Cleaners = {c1, c2}
    ResultTTL = 1
    PresignTTL = 1
    Retention = 1
    CleanupBatchSize = 1
    MaxDeliver = 1
    PromptRetry = FALSE
    MaxCheckpoints = 0
    MaxRetryVersion = 0
    MaxClock = 2
    MaxFaults = 1
INVARIANTS
    ExpiredOnce
PROPERTIES
    DueIsExpired
CHECK_DEADLOCK FALSE
