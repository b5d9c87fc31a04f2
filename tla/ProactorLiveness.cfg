\* The system takes every operation and the table is large enough.
CONSTANTS
    Opened = {o1, o2}
    Chained = {k1}
    Posted = {}
    Notify = Notify
    NoResult = NoResult
    MaxSize = 4
    BufferSize = 2
    Outcomes = {"ok"}
    EndFlags = {0}
SPECIFICATION FairSpec
PROPERTY
    ImplementsFairOperations
CHECK_DEADLOCK FALSE
