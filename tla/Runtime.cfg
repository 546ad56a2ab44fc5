SPECIFICATION FairSpec
CONSTANT MaxTasks = 2
INVARIANTS
    NothingUsesClosed
    CleanExit
PROPERTY StopEnds
CHECK_DEADLOCK FALSE
