SPECIFICATION FairSpec
CONSTANTS
    BatchCount = 3
    MaxAttempts = 3
    MaxEpoch = 2
INVARIANTS
    RowsInOrder
    SuccessIsComplete
    OneSnapshot
PROPERTIES
    BlameIsFair
    StreamReturns
CHECK_DEADLOCK FALSE
