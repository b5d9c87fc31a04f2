\* Three modules, in any order, three threads and two messages.
CONSTANTS
    m1 = m1
    m2 = m2
    m3 = m3
    Modules = {m1, m2, m3}
    StreamHead = StreamHead
    StreamTail = StreamTail
    None = None
    Owner = Owner
    Active <- ThreeThreads
    Repliers <- OneReplies
    MaxPuts = 2
SPECIFICATION FairSpec
INVARIANTS
    TypeOK
    LinksMirror
    QuietIsSafe
PROPERTIES
    ImplementsFairStack
CHECK_DEADLOCK FALSE
