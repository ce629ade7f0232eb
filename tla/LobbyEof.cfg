SPECIFICATION FairSpec
CONSTANTS
    Conns = {c1}
    Fds = {f1}
    NoFd = NoFd
    Listener = Listener
    Nobody = Nobody
    MaxEvents = 1
    MaxSend = 1
    TxCap = 1
    SplitFields = FALSE
CHECK_DEADLOCK FALSE
PROPERTIES
    ReturnsToOthers
