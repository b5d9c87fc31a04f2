\* Two connectors, registered by another thread while the loop runs, hand their
\* descriptors over to two connections; select() does not fail.
CONSTANTS
    Listeners = {}
    Connections = {c1, c2}
    Connectors = {n1, n2}
    Fds = {f1, f2}
    NoFd = NoFd
    NoEntry = NoEntry
    DrainSize = 2
    Closing = FALSE
    Refusing = {}
    Interrupts = FALSE
SPECIFICATION FairSpec
INVARIANT ReadyWhenDispatched
PROPERTY ReadyIsServed
CHECK_DEADLOCK FALSE
