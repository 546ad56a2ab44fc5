SPECIFICATION Spec
CONSTANTS
    Jobs = {j1, j2}
    NoJob = NoJob
    Keys = {k1, k2}
    NoKey = NoKey
    Workers = {w1}
    Cleaners = {}
    ResultTTL = 1
    PresignTTL = 1
    Retention = 1
    CleanupBatchSize = 1
    MaxDeliver = 3
    PromptRetry = FALSE
    MaxCheckpoints = 0
    MaxRetryVersion = 3
    MaxClock = 0
    MaxFaults = 0
INVARIANTS
    CreateIsIdempotent
CHECK_DEADLOCK FALSE
