CONSTANTS
    h1 = h1
    h2 = h2
    h3 = h3
    h4 = h4
    Handlers = {h1, h2, h3, h4}
    handle <- HandleOf
    Fds = {1, 2, 3}
    Events = {"read"}
    None = none
SPECIFICATION Spec
INVARIANTS
    TypeOK
    Consistent
    DisabledIsQuiet
PROPERTY ImplementsPoller
