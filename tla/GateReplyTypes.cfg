\* The standard build, one request.
SPECIFICATION Spec
CONSTANTS
    Ids = {id1, id2}
    NoId = noid
    NoKey = nokey
    SessionKey = session
    Size <- MCSize
    Builds = {FALSE}
    MaxRequests = 1
CHECK_DEADLOCK FALSE
INVARIANTS
    ReplyTypes
