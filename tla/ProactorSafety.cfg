\* Four operations for two slots, three of them at once, and a posted result:
\* operations are deferred, refused, lost, and put past the end of the table.
CONSTANTS
    Opened = {o1, o2, o3}
    Chained = {k1}
    Posted = {q1}
    Notify = Notify
    NoResult = NoResult
    MaxSize = 3
    BufferSize = 2
    Outcomes = {"ok", "again", "fail"}
    EndFlags = {0, 1}
SPECIFICATION Spec
SYMMETRY Symmetry
INVARIANTS
    TypeOK
    TablesAgree
    CountersExact
    SuspendedOnLive
    WakeupPending
PROPERTY
    ImplementsOperations
CHECK_DEADLOCK FALSE
