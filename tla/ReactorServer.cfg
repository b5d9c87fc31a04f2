\* A listener and three connections that close their descriptors: each descriptor
\* can be used again while two other connections are alive.  A call of c1 may end
\* the round, and select() may fail.
CONSTANTS
    Listeners = {l1}
    Connections = {c1, c2, c3}
    Connectors = {}
    Fds = {f1, f2, f3}
    NoFd = NoFd
    NoEntry = NoEntry
    DrainSize = 2
    Closing = TRUE
    Refusing = {c1}
    Interrupts = TRUE
SPECIFICATION Spec
SYMMETRY Symmetry
INVARIANTS
    TypeOK
    WakeupPending
    EntryIsOwner
    CalledWhileRegistered
CHECK_DEADLOCK FALSE
