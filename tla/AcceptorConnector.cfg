\* Two clients, two descriptors, which are used again, all timeouts, and two calls of
\* connect() for each handler, the second after a timeout.
CONSTANTS
    h1 = h1
    h2 = h2
    Handlers = {h1, h2}
    Fds = {1, 2}
    Invalid = Invalid
    NoEntry = NoEntry
    TimeOuts = {"null", "zero", "positive"}
    MaxCalls = 2
    MaxSends = 2
SPECIFICATION FairSpec
INVARIANTS
    TypeOK
    ActiveIsConnected
    WatchedByOwner
PROPERTIES
    ImplementsFairConnections
CHECK_DEADLOCK FALSE
