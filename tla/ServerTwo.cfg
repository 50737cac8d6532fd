CONSTANTS
    c1 = c1
    c2 = c2
    c3 = c3
    c4 = c4
    base = base
    io1 = io1
    Base = base
    Listener = listener
    None = none
    Conns = {c1, c2}
    IoLoops <- OneIo
    ReadSize = 2
    Sizes = {1, 2}
    MaxSends = 1
    SndCap = 1
    ResponseLen = 2
    OnConnect = {"nothing"}
    OnMessage = {"nothing", "write", "shutdown"}
    OnComplete = {"nothing", "shutdown"}
    WritePolls = TRUE
    Resets = TRUE
    Fds = {1, 2}
    DefaultHighWater = 1
    MaxConnections = 1
    Headroom = 1
SPECIFICATION Safety
INVARIANTS
    NoDangling
    ClosesOnce
    FdsDistinct
PROPERTIES
    NeverDisplaced
SYMMETRY ClientSymmetry
CHECK_DEADLOCK FALSE
