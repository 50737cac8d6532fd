CONSTANTS
    c1 = c1
    c2 = c2
    c3 = c3
    c4 = c4
    base = base
    io1 = io1
    Base = base
    Listener = listener
    None = none
    Conns = {c1}
    IoLoops <- OneIo
    ReadSize = 2
    Sizes = {1, 2}
    MaxSends = 1
    SndCap = 1
    ResponseLen = 2
    OnConnect = {"nothing"}
    OnMessage = {"write"}
    OnComplete = {"nothing"}
    WritePolls = FALSE
    Resets = FALSE
    Fds = {1, 2}
    DefaultHighWater = 1
    MaxConnections = 1
    Headroom = 1
SPECIFICATION Safety
INVARIANTS
    ReadZeroMeansClosed
CHECK_DEADLOCK FALSE
