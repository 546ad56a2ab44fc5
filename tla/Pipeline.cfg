SPECIFICATION FairSpec
CONSTANTS
    Formats = {"csv", "jsonl", "xlsx"}
    BatchSizes = {0, 1, 2}
    MaxRows = 4
    MaxBytes = 4
    ProgressEvery = 2
    MaxBatches = 3
INVARIANTS
    NoPartialObject
    ResultDescribesObject
    LimitsHold
    FinalCheckpoint
PROPERTIES
    RunReturns
CHECK_DEADLOCK FALSE
