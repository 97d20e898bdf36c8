SPECIFICATION FairSpec
CONSTANTS
    MaxConcurrency = 2
    IDs = {s1, s2}
    Malformed = Malformed
    MaxIDs = 3
INVARIANTS
    TypeOK
    Accounted
    ReportMatchesStore
    NoSendOnClosedChannel
    StoreOutlivesPool
PROPERTIES
    Termination
    RefinesRemoveEach
