\* Expected to fail: exit() while the scheduler is not asleep.
CONSTANTS
    Clients = {c1}
    MaxEnqueue = 1
SPECIFICATION FairSpec
PROPERTY ShutdownExits
CHECK_DEADLOCK FALSE
