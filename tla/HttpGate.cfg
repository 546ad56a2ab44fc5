SPECIFICATION Spec
CONSTANTS
    Slots = {s1, s2}
    None = None
    Keys = {k1}
    Subjects = {u1, u2}
    Ops = {cancel}
    Gated = {cancel}
    Repeatable = {}
    RequestTimeout = 1
    PersistTimeout = 1
    ProcessingTTL = 3
    ResultTTL = 2
    FailureTTL = 1
    MaxRequests = 3
    MaxClock = 4
    MaxFaults = 1
SYMMETRY Interchangeable
INVARIANTS
    OneExecution
    ReplayIsGenuine
    PermittedOnly
    SuccessSticks
CHECK_DEADLOCK FALSE
