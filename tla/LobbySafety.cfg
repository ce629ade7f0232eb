\* Two remote programs and two descriptors; three segments per connection fill a
\* send buffer of one message and queue two more.
SPECIFICATION Spec
CONSTANTS
    Conns = {c1, c2}
    Fds = {f1, f2}
    NoFd = NoFd
    Listener = Listener
    Nobody = Nobody
    MaxEvents = 2
    MaxSend = 3
    TxCap = 1
    SplitFields = TRUE
SYMMETRY Symmetry
CHECK_DEADLOCK FALSE
INVARIANTS
    TypeOK
    RegistriesAgree
    BatchEventsLive
    NoLostRead
    NoLostHup
    NoLostWrite
    KilledOnlyByPeer
