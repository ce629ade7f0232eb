\* Both builds, three requests.
SPECIFICATION Spec
CONSTANTS
    Ids = {id1, id2}
    NoId = noid
    NoKey = nokey
    SessionKey = session
    Size <- MCSize
    Builds = {TRUE, FALSE}
    MaxRequests = 3
CHECK_DEADLOCK FALSE
INVARIANTS
    TypeOK
    StructMatchesFlags
    
    PeerDecrypts
    Contiguous
    NeverWritesAfterShutdown
PROPERTIES
    ImplementsService
