SPECIFICATION Spec
CONSTANTS
    Jobs = {j1}
    NoJob = NoJob
    Keys = {k1, k2}
    NoKey = NoKey
    Workers = {w1, w2}
    Cleaners = {c1}
    ResultTTL = 1
    PresignTTL = 2
    Retention = 1
    CleanupBatchSize = 1
    MaxDeliver = 3
    PromptRetry = FALSE
    MaxCheckpoints = 1
    MaxRetryVersion = 4
    MaxClock = 3
    MaxFaults = 1
SYMMETRY InterchangeableWorkers
INVARIANTS
    TypeOK
    EventsMatchRows
    ResultAvailable
    SingleExecutor
    CanceledRunNeverPublishes
    RequestPending
    UrlHonoured
PROPERTIES
    ImplementsLifecycle
CHECK_DEADLOCK FALSE
