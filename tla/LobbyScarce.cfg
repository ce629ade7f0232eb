\* Two remote programs share one descriptor: accept() can fail.
SPECIFICATION FairSpec
CONSTANTS
    Conns = {c1, c2}
    Fds = {f1}
    NoFd = NoFd
    Listener = Listener
    Nobody = Nobody
    MaxEvents = 1
    MaxSend = 2
    TxCap = 1
    SplitFields = TRUE
CHECK_DEADLOCK FALSE
INVARIANTS
    NoLostAccept
PROPERTIES
    WritesFlushed
    RequestsRead
