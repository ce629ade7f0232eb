\* Segments end where fields do.
SPECIFICATION SessionSpec
CONSTANTS
    Scripts <- MCSessions
    SplitInsideField = FALSE
    SizeT = 256
    kMaxBufCount = 3
    WordSize = 2
    SpareWords = 1
    Size <- MCSize
    NoKey = NoKey
    Ids = {"t1", "t2"}
    NoId = "none"
    SessionKey = SessionKey
    Builds = {TRUE, FALSE}
    MaxRequests = 3
CHECK_DEADLOCK FALSE
INVARIANTS
    TypeOK
    DeliveredIntact
    CopyFits
    CursorMatchesStream
    ReadsOnlyCurrent
    AsksUnlessCut
    DecryptsInStep
PROPERTIES
    ImplementsStream
    ImplementsRead
    AllAnswered
