\* Two remote programs, two descriptors, one event per epoll_wait.
SPECIFICATION FairSpec
CONSTANTS
    Conns = {c1, c2}
    Fds = {f1, f2}
    NoFd = NoFd
    Listener = Listener
    Nobody = Nobody
    MaxEvents = 1
    MaxSend = 1
    TxCap = 1
    SplitFields = TRUE
CHECK_DEADLOCK FALSE
PROPERTIES
    HupReaped
    BacklogAccepted
