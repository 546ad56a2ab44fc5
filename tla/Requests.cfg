SPECIFICATION FairSpec
CONSTANTS
    Callers = {c1, c2}
    Upstreams = {application, provider, partner}
    HttpUpstreams = {partner}
    NoUpstream = NoUpstream
    Application = application
    Provider = provider
    MaxAttempts = 2
    FailureThreshold = 2
    MaxFaults = 2
    IntLimit = 8
    DefaultSize = 2
    ListLimit = 4
    CatalogLimit = 3
    Inputs <- AllInputs
    Descriptors <- AllDescriptors
    Pages = {0, 1, 2, 3, 5}
    Sizes = {0, 1, 7}
    WalkSize = 1
    MaxRequests = 3
    MaxRows = 3
    Existing = {1, 3}
INVARIANTS
    BodiesOwned
    OnlyTheEntitled
    WalkMissesOnlyForLeft
PROPERTIES
    TripsOnDistinctCalls
    RequestAnswered
CHECK_DEADLOCK FALSE
