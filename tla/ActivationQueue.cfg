\* Two clients, three requests each: enqueue() meets the scheduler in every
\* state of its loop, several times over, and before and after exit().
CONSTANTS
    Clients = {c1, c2}
    MaxEnqueue = 3
SPECIFICATION FairSpec
INVARIANTS
    TypeOK
    BacklogIsMissedNotifications
    AtMostOneAfterShutdown
PROPERTIES
    AwakeServesFront
    ShutdownEndsSleeper
CHECK_DEADLOCK FALSE
