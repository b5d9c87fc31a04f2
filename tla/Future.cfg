\* Two setters, who can both pass the unlocked test, with two getters and two
\* observers on either side of them.
CONSTANTS
    Setters = {s1, s2}
    Getters = {g1, g2}
    Observers = {o1, o2}
    NoValue = NoValue
SPECIFICATION FairSpec
INVARIANTS
    TypeOK
    NotifiedOncePerStore
    ZeroHasValue
    NoLostWakeup
PROPERTY GetReturns
CHECK_DEADLOCK FALSE
