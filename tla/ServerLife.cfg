CONSTANTS
    c1 = c1
    c2 = c2
    c3 = c3
    c4 = c4
    base = base
    io1 = io1
    Base = base
    Listener = listener
    None = none
    Conns = {c1, c2, c3}
    IoLoops <- OneIo
    ReadSize = 2
    Sizes = {1, 2}
    MaxSends = 0
    SndCap = 1
    ResponseLen = 2
    OnConnect = {"nothing", "write", "shutdown"}
    OnMessage = {"nothing", "write", "shutdown"}
    OnComplete = {"nothing", "shutdown"}
    WritePolls = FALSE
    Resets = FALSE
    Fds = {1, 2, 3}
    DefaultHighWater = 0
    MaxConnections = 1
    Headroom = 1
SPECIFICATION Spec
INVARIANTS
    TypeOK
    NoDangling
PROPERTIES
    LetGo
    Served
CHECK_DEADLOCK FALSE
