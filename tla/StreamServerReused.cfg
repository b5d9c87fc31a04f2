\* One descriptor, for one connection after the other.
CONSTANTS
    h1 = h1
    h2 = h2
    Handlers = {h1, h2}
    Fds = {1}
    None = None
    MaxPackets = 1
    MaxRequests <- OneEach
SPECIFICATION Spec
INVARIANT NoDanglingEntry
CHECK_DEADLOCK FALSE
