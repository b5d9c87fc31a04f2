\* A connection whose descriptor is given out again, and requests of up to two
\* packets, one after the other.
CONSTANTS
    h1 = h1
    h2 = h2
    Handlers = {h1, h2}
    Fds = {1, 2}
    None = None
    MaxPackets = 2
    MaxRequests <- OneSendsTwo
SPECIFICATION FairSpec
INVARIANTS
    TypeOK
    LivingGetOwn
    Echoed
PROPERTIES
    StreamEnds
    RequestAnswered
CHECK_DEADLOCK FALSE
