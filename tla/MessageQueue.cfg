\* Two producers, three consumers, two stoppers: several consumers can sleep
\* while another one is awake, and a second stop overtakes the first.
CONSTANTS
    Producers = {p1, p2}
    Consumers = {c1, c2, c3}
    Stoppers = {s1, s2}
    MaxPut = 2
SPECIFICATION FairSpec
INVARIANTS
    TypeOK
    NoLostWakeup
    StopReachesWaiters
PROPERTIES
    ImplementsFairChannel
CHECK_DEADLOCK FALSE
