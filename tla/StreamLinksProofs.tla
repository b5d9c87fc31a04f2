--------------------------- MODULE StreamLinksProofs ---------------------------
(***************************************************************************)
(* For any number of modules and threads: the links of a stream mirror     *)
(* each other between operations (LinksMirror), and a stream that is only  *)
(* changed while nothing is on its way neither drops a message nor breaks  *)
(* (QuietIsSafe).  The first is an induction over the owner's steps alone, *)
(* since no other thread writes a link; the second rests on it.  Both      *)
(* together show that the stream is a stack (ImplementsStack).             *)
(***************************************************************************)
EXTENDS StreamLinks, FiniteSetTheorems, SequenceTheorems, WellFoundedInduction, TLAPS

Pushing == step \in {"pushReader", "pushWriter", "link"}

Popping == step \in {"stopReader", "unlinkReader", "joinReader", "stopWriter",
                     "unlinkWriter", "joinWriter", "relinkWriter", "relinkReader"}

\* The modules that are on the owner's list.
Listed == {m \in Present : Pushing \/ Popping => m # module}

\* The steps at which the head's writer, and the reader that leads to the head's,
\* are still linked as before.
WriterStale == Popping /\ step # "relinkReader"
ReaderStale == Popping \/ step \in {"pushWriter", "link", "linkReader"}

OwnerTypes ==
    /\ next \in [Modules \cup {StreamHead, StreamTail} -> Modules \cup {StreamTail, None}]
    /\ nextTask \in [Tasks -> Tasks \cup {None}]
    /\ life \in [Modules -> {"unused", "pushed", "deleted"}]
    /\ deleted \subseteq Tasks
    /\ stopped \subseteq Active
    /\ step \in Steps
    /\ closing \in BOOLEAN
    /\ module \in Modules \cup {None}

\* The module that is pushed or popped.
ModuleInv ==
    /\ Pushing \/ Popping \/ step = "linkReader" => module \in Present
    /\ step = "linkReader" => next[StreamHead] = module
    /\ step = "pop" => next[StreamHead] # StreamTail

\* Module::mNext is a bijection from the head and the listed modules to these and
\* the tail.
ListInv ==
    /\ \A m \in Listed \cup {StreamHead} : next[m] \in Listed \cup {StreamTail}
    /\ \A m, n \in Listed \cup {StreamHead} : next[m] = next[n] => m = n
    /\ \A n \in Listed \cup {StreamTail} : \E m \in Listed \cup {StreamHead} : next[m] = n

\* Task::mNext follows it down and up, but for the links that are to be set.
TaskInv ==
    /\ \A m \in Listed \cup {StreamHead} :
           /\ ~(m = StreamHead /\ WriterStale) => nextTask[Writer(m)] = Writer(next[m])
           /\ ~(m = StreamHead /\ ReaderStale) => nextTask[Reader(next[m])] = Reader(m)
    /\ step \in {"pushWriter", "link"} => nextTask[Reader(next[StreamHead])] = Reader(module)
    /\ step = "link" => nextTask[Writer(module)] = Writer(next[StreamHead])
    /\ nextTask[Reader(StreamHead)] = None /\ nextTask[Writer(StreamTail)] = None

\* Only tasks of modules that are, or are being, popped are stopped and deleted.
GoneInv ==
    \A t \in deleted \cup stopped :
        /\ t[1] \in Modules
        /\ life[t[1]] = "deleted" \/ (Popping /\ t[1] = module)

LinksInv == OwnerTypes /\ (step # "closed" => ModuleInv /\ ListInv /\ TaskInv /\ GoneInv)

\* Where a thread may be if nothing was changed with a message on its way: in tasks
\* of listed modules, and only between two operations.
HopInv ==
    \A p \in Threads : hop[p] # None =>
        /\ step = "rest" /\ ~closing
        /\ hop[p].in = Writer(StreamHead) \/ hop[p].in[1] \in Listed
        /\ p # Owner => p[1] \in Listed
        /\ p = Owner => hop[p].left = 0 /\ hop[p].at # "reply"

\* And where messages are queued.
QueueInv ==
    \A t \in Tasks : queue[t] > 0 =>
        /\ Queues(t)
        /\ t \in Active => t[1] \in Listed /\ step = "rest" /\ ~closing

QuietInv == ~disturbed => ~lost /\ ~crashed /\ HopInv /\ QueueInv
-------------------------------------------------------------------------------
LEMMA TaskFacts ==
    /\ \A m, n : Reader(m) # Writer(n)
    /\ \A m, n : Reader(m) = Reader(n) => m = n
    /\ \A m, n : Writer(m) = Writer(n) => m = n
    /\ \A m \in Modules \cup {StreamHead, StreamTail} : Reader(m) \in Tasks /\ Writer(m) \in Tasks
    /\ \A m : Reader(m)[1] = m /\ Writer(m)[1] = m
    /\ \A t \in Tasks : /\ t[1] \in Modules \cup {StreamHead, StreamTail}
                       /\ (t = Reader(t[1]) \/ t = Writer(t[1]))
    /\ Active \subseteq Tasks /\ \A t \in Active : t[1] \in Modules
BY StreamLinksAssumption DEF Reader, Writer, Tasks, Sides

\* The tasks at the two ends, which have no neighbour to hand on to.
LEMMA EndFacts ==
    /\ Reader(StreamHead) \in Tasks /\ Writer(StreamTail) \in Tasks
    /\ Reader(StreamHead)[1] = StreamHead /\ Writer(StreamTail)[1] = StreamTail
    /\ \A m : Reader(StreamHead) # Writer(m) /\ Writer(StreamTail) # Reader(m)
    /\ \A m : m # StreamHead => Reader(StreamHead) # Reader(m)
    /\ \A m : m # StreamTail => Writer(StreamTail) # Writer(m)
    /\ \A m \in Modules : m # StreamHead /\ m # StreamTail
    /\ StreamHead # StreamTail
BY StreamLinksAssumption DEF Reader, Writer, Tasks, Sides

\* The traffic of messages leaves the links alone.
LEMMA LinksStutter ==
    ASSUME LinksInv, UNCHANGED owner
    PROVE  LinksInv'
BY DEF LinksInv, OwnerTypes, ModuleInv, ListInv, TaskInv, GoneInv, Listed, Present,
       Pushing, Popping, WriterStale, ReaderStale, owner, links

LEMMA InitLinks == Init => LinksInv
<1> SUFFICES ASSUME Init PROVE LinksInv
  OBVIOUS
<1> USE StreamLinksAssumption, TaskFacts
<1>1. Listed = {} /\ step = "rest" /\ next[StreamHead] = StreamTail
  BY DEF Init, Listed, Present
<1>2. /\ nextTask[Writer(StreamHead)] = Writer(StreamTail)
      /\ nextTask[Reader(StreamTail)] = Reader(StreamHead)
      /\ nextTask[Reader(StreamHead)] = None
      /\ nextTask[Writer(StreamTail)] = None
  BY DEF Init
<1>3. OwnerTypes
  BY DEF Init, OwnerTypes, Steps
<1>4. ModuleInv /\ ListInv /\ TaskInv /\ GoneInv
  BY <1>1, <1>2 DEF Init, ModuleInv, ListInv, TaskInv, GoneInv, Pushing, Popping,
     WriterStale, ReaderStale
<1> QED
  BY <1>3, <1>4 DEF LinksInv

LEMMA BeginPushLinks ==
    ASSUME LinksInv, NEW m \in Modules, BeginPush(m)
    PROVE  LinksInv'
<1> USE StreamLinksAssumption, TaskFacts
<1>1. step = "rest" /\ step' = "pushReader" /\ life[m] = "unused" /\ module' = m
      /\ life' = [life EXCEPT ![m] = "pushed"]
      /\ UNCHANGED <<next, nextTask, deleted, stopped, closing>>
  BY DEF BeginPush, Begin, AtRest
<1>2. OwnerTypes /\ ModuleInv /\ ListInv /\ TaskInv /\ GoneInv
  BY <1>1 DEF LinksInv
<1>3. OwnerTypes'
  BY <1>1, <1>2 DEF OwnerTypes, Steps
<1>4. Listed' = Listed /\ m \notin Listed /\ Pushing' /\ ~Popping' /\ ~Popping
  BY <1>1, <1>2 DEF OwnerTypes, Listed, Present, Pushing, Popping
<1>5. ModuleInv'
  BY <1>1, <1>2 DEF ModuleInv, OwnerTypes, Present, Popping
<1>6. ListInv'
  BY <1>1, <1>2, <1>4 DEF ListInv
<1>7. TaskInv'
  BY <1>1, <1>2, <1>4 DEF TaskInv, WriterStale, ReaderStale
<1>8. GoneInv'
  BY <1>1, <1>2, <1>4 DEF GoneInv, OwnerTypes
<1> QED
  BY <1>3, <1>5, <1>6, <1>7, <1>8 DEF LinksInv

LEMMA PushReaderLinks ==
    ASSUME LinksInv, PushReader
    PROVE  LinksInv'
<1> USE StreamLinksAssumption, TaskFacts
<1>1. step = "pushReader" /\ step' = "pushWriter"
      /\ nextTask' = [nextTask EXCEPT ![Reader(next[StreamHead])] = Reader(module)]
      /\ UNCHANGED <<next, life, module, deleted, stopped, closing>>
  BY DEF PushReader, SetNext
<1>2. OwnerTypes /\ ModuleInv /\ ListInv /\ TaskInv /\ GoneInv
  BY <1>1 DEF LinksInv
<1>3. module \in Present /\ Pushing /\ Pushing' /\ ~Popping /\ ~Popping'
  BY <1>1, <1>2 DEF ModuleInv, Pushing, Popping
<1>4. Listed' = Listed /\ Listed \subseteq Modules /\ module \in Modules
  BY <1>1, <1>3 DEF Listed, Present
<1>5. next[StreamHead] \in Listed \cup {StreamTail}
  BY <1>2 DEF ListInv
<1>6. OwnerTypes'
  BY <1>1, <1>2, <1>4 DEF OwnerTypes, Steps
<1>7. ModuleInv'
  BY <1>1, <1>3 DEF ModuleInv, Present
<1>8. ListInv'
  BY <1>1, <1>2, <1>4 DEF ListInv
<1>9. TaskInv'
  <2>1. nextTask'[Reader(next[StreamHead])] = Reader(module)
    BY <1>1, <1>2, <1>4, <1>5 DEF OwnerTypes
  <2>2. \A t \in Tasks : t # Reader(next[StreamHead]) => nextTask'[t] = nextTask[t]
    BY <1>1, <1>2 DEF OwnerTypes
  <2>3. ASSUME NEW n \in Listed \cup {StreamHead}
        PROVE  /\ nextTask'[Writer(n)] = Writer(next[n])
               /\ n # StreamHead => nextTask'[Reader(next[n])] = Reader(n)
    <3>1. nextTask[Writer(n)] = Writer(next[n]) /\ nextTask[Reader(next[n])] = Reader(n)
      BY <1>1, <1>2, <1>3 DEF TaskInv, WriterStale, ReaderStale
    <3>2. next[n] \in Listed \cup {StreamTail} /\ (n # StreamHead => next[n] # next[StreamHead])
      BY <1>2 DEF ListInv
    <3> QED
      BY <1>4, <2>2, <3>1, <3>2
  <2>4. nextTask'[Reader(StreamHead)] = None /\ nextTask'[Writer(StreamTail)] = None
    <3>1. nextTask[Reader(StreamHead)] = None /\ nextTask[Writer(StreamTail)] = None
      BY <1>2 DEF TaskInv
    <3> HIDE TaskFacts, StreamLinksAssumption
    <3>2. next[StreamHead] # StreamHead
      BY <1>4, <1>5, EndFacts
    <3> QED
      BY <2>2, <3>1, <3>2, EndFacts
  <2>5. ~WriterStale' /\ ReaderStale'
    BY <1>1, <1>3 DEF WriterStale, ReaderStale
  <2> QED
    BY <1>1, <1>4, <2>1, <2>3, <2>4, <2>5 DEF TaskInv
<1>10. GoneInv'
  BY <1>1, <1>2, <1>3 DEF GoneInv
<1> QED
  BY <1>6, <1>7, <1>8, <1>9, <1>10 DEF LinksInv

LEMMA PushWriterLinks ==
    ASSUME LinksInv, PushWriter
    PROVE  LinksInv'
<1> USE StreamLinksAssumption, TaskFacts
<1>1. step = "pushWriter" /\ step' = "link"
      /\ nextTask' = [nextTask EXCEPT ![Writer(module)] = Writer(next[StreamHead])]
      /\ UNCHANGED <<next, life, module, deleted, stopped, closing>>
  BY DEF PushWriter, SetNext
<1>2. OwnerTypes /\ ModuleInv /\ ListInv /\ TaskInv /\ GoneInv
  BY <1>1 DEF LinksInv
<1>3. module \in Present /\ Pushing /\ Pushing' /\ ~Popping /\ ~Popping'
  BY <1>1, <1>2 DEF ModuleInv, Pushing, Popping
<1>4. Listed' = Listed /\ Listed \subseteq Modules /\ module \in Modules /\ module \notin Listed
  BY <1>1, <1>3 DEF Listed, Present
<1>5. next[StreamHead] \in Listed \cup {StreamTail}
  BY <1>2 DEF ListInv
<1>6. OwnerTypes'
  BY <1>1, <1>2, <1>4, <1>5 DEF OwnerTypes, Steps
<1>7. ModuleInv'
  BY <1>1, <1>3 DEF ModuleInv, Present
<1>8. ListInv'
  BY <1>1, <1>2, <1>4 DEF ListInv
<1>9. TaskInv'
  <2>1. nextTask'[Writer(module)] = Writer(next[StreamHead])
    BY <1>1, <1>2, <1>4 DEF OwnerTypes
  <2>2. \A t \in Tasks : t # Writer(module) => nextTask'[t] = nextTask[t]
    BY <1>1, <1>2 DEF OwnerTypes
  <2>3. ASSUME NEW n \in Listed \cup {StreamHead}
        PROVE  /\ nextTask'[Writer(n)] = Writer(next[n])
               /\ n # StreamHead => nextTask'[Reader(next[n])] = Reader(n)
    <3>1. /\ nextTask[Writer(n)] = Writer(next[n])
          /\ n # StreamHead => nextTask[Reader(next[n])] = Reader(n)
      BY <1>1, <1>2, <1>3 DEF TaskInv, WriterStale, ReaderStale
    <3>2. next[n] \in Listed \cup {StreamTail} /\ n # module
      BY <1>2, <1>4 DEF ListInv
    <3> QED
      BY <1>4, <2>2, <3>1, <3>2
  <2>4. /\ nextTask'[Reader(StreamHead)] = None /\ nextTask'[Writer(StreamTail)] = None
        /\ nextTask'[Reader(next[StreamHead])] = Reader(module)
    <3>1. /\ nextTask[Reader(StreamHead)] = None /\ nextTask[Writer(StreamTail)] = None
          /\ nextTask[Reader(next[StreamHead])] = Reader(module)
      BY <1>1, <1>2 DEF TaskInv
    <3> QED
      BY <1>4, <1>5, <2>2, <3>1
  <2>5. ~WriterStale' /\ ReaderStale'
    BY <1>1, <1>3 DEF WriterStale, ReaderStale
  <2> QED
    BY <1>1, <1>4, <2>1, <2>3, <2>4, <2>5 DEF TaskInv
<1>10. GoneInv'
  BY <1>1, <1>2, <1>3 DEF GoneInv
<1> QED
  BY <1>6, <1>7, <1>8, <1>9, <1>10 DEF LinksInv

\* With this the module is on the list, between the head and what was the top.
LEMMA LinkLinks ==
    ASSUME LinksInv, Link
    PROVE  LinksInv'
<1> USE StreamLinksAssumption, TaskFacts
<1> DEFINE top == next[StreamHead]
<1>1. step = "link" /\ step' = "linkReader"
      /\ nextTask' = [nextTask EXCEPT ![Writer(StreamHead)] = Writer(module)]
      /\ next' = [next EXCEPT ![StreamHead] = module, ![module] = top]
      /\ UNCHANGED <<life, module, deleted, stopped, closing>>
  BY DEF Link, SetNext
<1>2. OwnerTypes /\ ModuleInv /\ ListInv /\ TaskInv /\ GoneInv
  BY <1>1 DEF LinksInv
<1>3. module \in Present /\ Pushing /\ ~Pushing' /\ ~Popping /\ ~Popping'
  BY <1>1, <1>2 DEF ModuleInv, Pushing, Popping
<1>4. /\ Listed' = Listed \cup {module} /\ Listed \subseteq Modules
      /\ module \in Modules /\ module \notin Listed
  BY <1>1, <1>3 DEF Listed, Present
<1>5. top \in Listed \cup {StreamTail}
  BY <1>2 DEF ListInv
<1>6. OwnerTypes'
  BY <1>1, <1>2, <1>4, <1>5 DEF OwnerTypes, Steps
<1>7. next'[StreamHead] = module /\ next'[module] = top
      /\ \A n \in Listed : next'[n] = next[n]
  BY <1>1, <1>2, <1>4 DEF OwnerTypes
<1>8. ModuleInv'
  BY <1>1, <1>3, <1>7 DEF ModuleInv, Present, Pushing, Popping
<1>9. ListInv'
  <2>1. ASSUME NEW n \in Listed
        PROVE  next[n] \in Listed \cup {StreamTail} /\ next[n] # top
    <3>1. n \in Listed \cup {StreamHead} /\ StreamHead \in Listed \cup {StreamHead}
      OBVIOUS
    <3>2. n # StreamHead
      BY <1>4
    <3> QED
      BY <1>2, <3>1, <3>2 DEF ListInv
  <2>2. \A n \in Listed' \cup {StreamHead} : next'[n] \in Listed' \cup {StreamTail}
    BY <1>4, <1>5, <1>7, <2>1
  <2>3. ASSUME NEW n \in Listed' \cup {StreamHead}, NEW k \in Listed' \cup {StreamHead},
               next'[n] = next'[k]
        PROVE  n = k
    <3>1. \A i, j \in Listed : next[i] = next[j] => i = j
      BY <1>2 DEF ListInv
    <3> QED
      BY <1>4, <1>5, <1>7, <2>1, <2>3, <3>1
  <2>4. ASSUME NEW n \in Listed' \cup {StreamTail}
        PROVE  \E k \in Listed' \cup {StreamHead} : next'[k] = n
    <3>1. CASE n = module
      BY <1>7, <3>1
    <3>2. CASE n = top
      BY <1>4, <1>7, <3>2
    <3>3. CASE n # module /\ n # top
      <4>1. PICK k \in Listed \cup {StreamHead} : next[k] = n
        BY <1>2, <1>4, <3>3 DEF ListInv
      <4> QED
        BY <1>4, <1>7, <3>3, <4>1
    <3> QED
      BY <3>1, <3>2, <3>3
  <2> QED
    BY <2>2, <2>3, <2>4 DEF ListInv
<1>10. TaskInv'
  <2>1. nextTask'[Writer(StreamHead)] = Writer(module)
    BY <1>1, <1>2 DEF OwnerTypes
  <2>2. \A t \in Tasks : t # Writer(StreamHead) => nextTask'[t] = nextTask[t]
    BY <1>1, <1>2 DEF OwnerTypes
  <2>3. /\ nextTask[Reader(StreamHead)] = None /\ nextTask[Writer(StreamTail)] = None
        /\ nextTask[Reader(top)] = Reader(module)
        /\ nextTask[Writer(module)] = Writer(top)
    BY <1>1, <1>2 DEF TaskInv
  <2>4. ASSUME NEW n \in Listed
        PROVE  /\ nextTask'[Writer(n)] = Writer(next'[n])
               /\ nextTask'[Reader(next'[n])] = Reader(n)
    <3>1. nextTask[Writer(n)] = Writer(next[n]) /\ nextTask[Reader(next[n])] = Reader(n)
      BY <1>2, <1>4 DEF TaskInv
    <3>2. next[n] \in Listed \cup {StreamTail} /\ n # StreamHead
      BY <1>2, <1>4 DEF ListInv
    <3> QED
      BY <1>4, <1>7, <2>2, <3>1, <3>2
  <2>5. /\ nextTask'[Writer(module)] = Writer(next'[module])
        /\ nextTask'[Reader(next'[module])] = Reader(module)
        /\ nextTask'[Writer(StreamHead)] = Writer(next'[StreamHead])
        /\ nextTask'[Reader(StreamHead)] = None /\ nextTask'[Writer(StreamTail)] = None
    BY <1>4, <1>5, <1>7, <2>1, <2>2, <2>3
  <2>6. ~WriterStale' /\ ReaderStale'
    BY <1>1, <1>3 DEF WriterStale, ReaderStale
  <2> QED
    BY <1>1, <1>4, <2>4, <2>5, <2>6 DEF TaskInv
<1>11. GoneInv'
  BY <1>1, <1>2, <1>3 DEF GoneInv
<1> QED
  BY <1>6, <1>8, <1>9, <1>10, <1>11 DEF LinksInv

LEMMA LinkReaderLinks ==
    ASSUME LinksInv, LinkReader
    PROVE  LinksInv'
<1> USE StreamLinksAssumption, TaskFacts
<1>1. step = "linkReader" /\ step' = "rest"
      /\ nextTask' = [nextTask EXCEPT ![Reader(module)] = Reader(StreamHead)]
      /\ UNCHANGED <<next, life, module, deleted, stopped, closing>>
  BY DEF LinkReader, SetNext
<1>2. OwnerTypes /\ ModuleInv /\ ListInv /\ TaskInv /\ GoneInv
  BY <1>1 DEF LinksInv
<1>3. ~Pushing /\ ~Pushing' /\ ~Popping /\ ~Popping'
  BY <1>1 DEF Pushing, Popping
<1>4. /\ Listed' = Listed /\ Listed \subseteq Modules
      /\ module \in Listed /\ next[StreamHead] = module
  BY <1>1, <1>2, <1>3 DEF Listed, Present, ModuleInv
<1>5. OwnerTypes'
  BY <1>1, <1>2, <1>4 DEF OwnerTypes, Steps
<1>6. ModuleInv'
  BY <1>1, <1>3 DEF ModuleInv
<1>7. ListInv'
  BY <1>1, <1>2, <1>4 DEF ListInv
<1>8. TaskInv'
  <2>1. nextTask'[Reader(module)] = Reader(StreamHead)
    BY <1>1, <1>2, <1>4 DEF OwnerTypes
  <2>2. \A t \in Tasks : t # Reader(module) => nextTask'[t] = nextTask[t]
    BY <1>1, <1>2 DEF OwnerTypes
  <2>3. ASSUME NEW n \in Listed \cup {StreamHead}
        PROVE  nextTask'[Writer(n)] = Writer(next[n]) /\ nextTask'[Reader(next[n])] = Reader(n)
    <3>1. /\ nextTask[Writer(n)] = Writer(next[n])
          /\ n # StreamHead => nextTask[Reader(next[n])] = Reader(n)
      BY <1>1, <1>2, <1>3 DEF TaskInv, WriterStale
    <3>2. next[n] \in Listed \cup {StreamTail} /\ (n # StreamHead => next[n] # module)
      BY <1>2, <1>4 DEF ListInv
    <3>3. nextTask'[Writer(n)] = Writer(next[n])
      BY <1>4, <2>2, <3>1
    <3>4. CASE n = StreamHead
      BY <1>4, <2>1, <3>3, <3>4
    <3>5. CASE n # StreamHead
      <4>1. Reader(next[n]) \in Tasks /\ Reader(next[n]) # Reader(module)
        BY <1>4, <3>2, <3>5
      <4> QED
        BY <2>2, <3>1, <3>3, <3>5, <4>1
    <3> QED
      BY <3>4, <3>5
  <2>4. nextTask'[Reader(StreamHead)] = None /\ nextTask'[Writer(StreamTail)] = None
    <3>1. nextTask[Reader(StreamHead)] = None /\ nextTask[Writer(StreamTail)] = None
      BY <1>2 DEF TaskInv
    <3> HIDE TaskFacts, StreamLinksAssumption
    <3>2. module # StreamHead
      BY <1>4, EndFacts
    <3> QED
      BY <2>2, <3>1, <3>2, EndFacts
  <2> QED
    BY <1>1, <1>4, <2>3, <2>4 DEF TaskInv
<1>9. GoneInv'
  BY <1>1, <1>2, <1>3 DEF GoneInv
<1> QED
  BY <1>5, <1>6, <1>7, <1>8, <1>9 DEF LinksInv

\* An operation that begins, but for a push, changes no link.
LEMMA BeginLinks ==
    ASSUME LinksInv, BeginPop \/ BeginClose
    PROVE  LinksInv'
<1>1. /\ step = "rest" /\ step' \in {"rest", "pop"} /\ module' = None
      /\ step' = "pop" => next[StreamHead] # StreamTail
      /\ closing' \in {closing, TRUE}
      /\ UNCHANGED <<next, nextTask, life, deleted, stopped>>
  BY DEF BeginPop, BeginClose, Begin, AtRest
<1>2. OwnerTypes /\ ModuleInv /\ ListInv /\ TaskInv /\ GoneInv
  BY <1>1 DEF LinksInv
<1>3. ~Pushing /\ ~Pushing' /\ ~Popping /\ ~Popping'
  BY <1>1 DEF Pushing, Popping
<1>4. Listed' = Listed
  BY <1>1, <1>3 DEF Listed, Present
<1>5. OwnerTypes'
  BY <1>1, <1>2 DEF OwnerTypes, Steps
<1>6. ModuleInv'
  BY <1>1, <1>3 DEF ModuleInv
<1>7. ListInv'
  BY <1>1, <1>2, <1>4 DEF ListInv
<1>8. TaskInv'
  BY <1>1, <1>2, <1>3, <1>4 DEF TaskInv, WriterStale, ReaderStale
<1>9. GoneInv'
  BY <1>1, <1>2, <1>3 DEF GoneInv
<1> QED
  BY <1>5, <1>6, <1>7, <1>8, <1>9 DEF LinksInv

\* With this the top module is off the list, though still linked to.
LEMMA PopLinks ==
    ASSUME LinksInv, Pop
    PROVE  LinksInv'
<1> USE StreamLinksAssumption, TaskFacts
<1> DEFINE top == next[StreamHead]
<1>1. /\ step \in {"rest", "pop"} /\ step' = "stopReader" /\ module' = top
      /\ step = "rest" => top # StreamTail
      /\ next' = [next EXCEPT ![StreamHead] = next[top]]
      /\ UNCHANGED <<nextTask, life, deleted, closing, stopped>>
  BY DEF Pop
<1>2. OwnerTypes /\ ModuleInv /\ ListInv /\ TaskInv /\ GoneInv
  BY <1>1 DEF LinksInv
<1>3. ~Pushing /\ ~Pushing' /\ ~Popping /\ Popping'
  BY <1>1 DEF Pushing, Popping
<1>4. top \in Listed /\ Listed = Present /\ Listed \subseteq Modules
  BY <1>1, <1>2, <1>3 DEF ListInv, ModuleInv, Listed, Present
<1>5. Listed' = Listed \ {top}
  BY <1>1, <1>3, <1>4 DEF Listed, Present
<1>6. next'[StreamHead] = next[top] /\ \A n \in Listed : next'[n] = next[n]
  BY <1>1, <1>2, <1>4 DEF OwnerTypes
<1>7. \A n \in Listed : next[n] \in Listed \cup {StreamTail} /\ next[n] # top
  <2> SUFFICES ASSUME NEW n \in Listed
               PROVE  next[n] \in Listed \cup {StreamTail} /\ next[n] # top
    OBVIOUS
  <2>1. n \in Listed \cup {StreamHead} /\ StreamHead \in Listed \cup {StreamHead}
    OBVIOUS
  <2>2. n # StreamHead
    BY <1>4
  <2> QED
    BY <1>2, <2>1, <2>2 DEF ListInv
<1>8. OwnerTypes'
  BY <1>1, <1>2, <1>4, <1>7 DEF OwnerTypes, Steps
<1>9. ModuleInv'
  BY <1>1, <1>3, <1>4 DEF ModuleInv, Present
<1>10. ListInv'
  <2>1. \A n \in Listed' \cup {StreamHead} : next'[n] \in Listed' \cup {StreamTail}
    BY <1>4, <1>5, <1>6, <1>7
  <2>2. ASSUME NEW n \in Listed' \cup {StreamHead}, NEW k \in Listed' \cup {StreamHead},
               next'[n] = next'[k]
        PROVE  n = k
    <3>1. \A i, j \in Listed : next[i] = next[j] => i = j
      BY <1>2 DEF ListInv
    <3>2. /\ n # StreamHead => n \in Listed /\ n # top /\ next'[n] = next[n]
          /\ k # StreamHead => k \in Listed /\ k # top /\ next'[k] = next[k]
      BY <1>4, <1>5, <1>6
    <3>3. CASE n = StreamHead /\ k # StreamHead
      <4>1. next[top] = next[k] /\ k \in Listed /\ k # top
        BY <1>6, <2>2, <3>2, <3>3
      <4> QED
        BY <1>4, <3>1, <4>1
    <3>4. CASE n # StreamHead /\ k = StreamHead
      <4>1. next[n] = next[top] /\ n \in Listed /\ n # top
        BY <1>6, <2>2, <3>2, <3>4
      <4> QED
        BY <1>4, <3>1, <4>1
    <3>5. CASE n # StreamHead /\ k # StreamHead
      BY <2>2, <3>1, <3>2, <3>5
    <3> QED
      BY <3>3, <3>4, <3>5
  <2>3. ASSUME NEW n \in Listed' \cup {StreamTail}
        PROVE  \E k \in Listed' \cup {StreamHead} : next'[k] = n
    <3>1. PICK k \in Listed \cup {StreamHead} : next[k] = n
      BY <1>2, <1>5 DEF ListInv
    <3>2. k # StreamHead
      BY <1>4, <1>5, <3>1
    <3>3. CASE k = top
      BY <1>6, <3>1, <3>3
    <3>4. CASE k # top
      BY <1>5, <1>6, <3>1, <3>2, <3>4
    <3> QED
      BY <3>3, <3>4
  <2> QED
    BY <2>1, <2>2, <2>3 DEF ListInv
<1>11. TaskInv'
  <2>1. ASSUME NEW n \in Listed'
        PROVE  nextTask[Writer(n)] = Writer(next[n]) /\ nextTask[Reader(next[n])] = Reader(n)
    BY <1>2, <1>4, <1>5 DEF TaskInv
  <2>2. WriterStale' /\ ReaderStale'
    BY <1>1, <1>3 DEF WriterStale, ReaderStale
  <2>3. nextTask[Reader(StreamHead)] = None /\ nextTask[Writer(StreamTail)] = None
    BY <1>2 DEF TaskInv
  <2> QED
    BY <1>1, <1>5, <1>6, <2>1, <2>2, <2>3 DEF TaskInv
<1>12. GoneInv'
  BY <1>1, <1>2, <1>3 DEF GoneInv
<1> QED
  BY <1>8, <1>9, <1>10, <1>11, <1>12 DEF LinksInv

\* The tasks of a module that is off the list are taken down, and no other.
LEMMA TakeDownLinks ==
    ASSUME LinksInv, Popping,
           step' \in {"unlinkReader", "joinReader", "stopWriter", "unlinkWriter",
                      "joinWriter", "relinkWriter"},
           nextTask' \in [Tasks -> Tasks \cup {None}],
           \A t \in Tasks : t[1] # module => nextTask'[t] = nextTask[t],
           deleted' \subseteq deleted \cup {Reader(module), Writer(module)},
           stopped' \subseteq stopped \cup {Reader(module), Writer(module)},
           stopped' \subseteq Active,
           step # "relinkReader",
           UNCHANGED <<next, life, module, closing>>
    PROVE  LinksInv'
<1> USE StreamLinksAssumption, TaskFacts
<1>1. ~Pushing /\ ~Pushing' /\ Popping' /\ step # "closed" /\ step # "linkReader"
  BY DEF Pushing, Popping
<1>2. OwnerTypes /\ ModuleInv /\ ListInv /\ TaskInv /\ GoneInv
  BY <1>1 DEF LinksInv
<1>3. /\ Listed' = Listed /\ Listed \subseteq Modules
      /\ module \in Present /\ module \in Modules /\ module \notin Listed
  BY <1>1, <1>2 DEF Listed, Present, ModuleInv
<1>4. OwnerTypes'
  BY <1>2, <1>3 DEF OwnerTypes, Steps
<1>5. ModuleInv'
  BY <1>3 DEF ModuleInv, Present
<1>6. ListInv'
  BY <1>2, <1>3 DEF ListInv
<1>7. TaskInv'
  <2>1. ASSUME NEW n \in Listed
        PROVE  /\ nextTask'[Writer(n)] = Writer(next[n])
               /\ nextTask'[Reader(next[n])] = Reader(n)
    <3>1. nextTask[Writer(n)] = Writer(next[n]) /\ nextTask[Reader(next[n])] = Reader(n)
      BY <1>2, <1>3 DEF TaskInv
    <3>2. next[n] \in Listed \cup {StreamTail} /\ n # module
      BY <1>2, <1>3 DEF ListInv
    <3>3. next[n] # module
      BY <1>3, <3>2
    <3> QED
      BY <1>3, <3>1, <3>2, <3>3
  <2>2. nextTask'[Reader(StreamHead)] = None /\ nextTask'[Writer(StreamTail)] = None
    <3>1. nextTask[Reader(StreamHead)] = None /\ nextTask[Writer(StreamTail)] = None
      BY <1>2 DEF TaskInv
    <3> HIDE TaskFacts, StreamLinksAssumption
    <3>2. /\ Reader(StreamHead) \in Tasks /\ Reader(StreamHead)[1] # module
          /\ Writer(StreamTail) \in Tasks /\ Writer(StreamTail)[1] # module
      BY <1>3, EndFacts
    <3> QED
      BY <3>1, <3>2
  <2>3. WriterStale' /\ ReaderStale'
    BY <1>1 DEF WriterStale, ReaderStale
  <2> QED
    BY <1>1, <1>3, <2>1, <2>2, <2>3 DEF TaskInv
<1>8. GoneInv'
  BY <1>1, <1>2, <1>3 DEF GoneInv
<1> QED
  BY <1>4, <1>5, <1>6, <1>7, <1>8 DEF LinksInv

LEMMA TaskDownLinks ==
    ASSUME LinksInv,
           \/ StopTask("stopReader", "unlinkReader", Reader(module))
           \/ Unlink("unlinkReader", "joinReader", Reader(module))
           \/ Join("joinReader", "stopWriter", Reader(module))
           \/ StopTask("stopWriter", "unlinkWriter", Writer(module))
           \/ Unlink("unlinkWriter", "joinWriter", Writer(module))
           \/ Join("joinWriter", "relinkWriter", Writer(module))
    PROVE  LinksInv'
<1>1. /\ Popping /\ step # "relinkReader"
      /\ step' \in {"unlinkReader", "joinReader", "stopWriter", "unlinkWriter",
                    "joinWriter", "relinkWriter"}
      /\ UNCHANGED <<next, life, module, closing>>
  BY DEF StopTask, Unlink, Join, SetNext, Popping, links
<1>2. nextTask \in [Tasks -> Tasks \cup {None}] /\ stopped \subseteq Active
  BY DEF LinksInv, OwnerTypes
<1>3. \/ nextTask' = nextTask
      \/ nextTask' = [nextTask EXCEPT ![Reader(module)] = None]
      \/ nextTask' = [nextTask EXCEPT ![Writer(module)] = None]
  BY DEF StopTask, Unlink, Join, SetNext, links
<1>4. /\ nextTask' \in [Tasks -> Tasks \cup {None}]
      /\ \A t \in Tasks : t[1] # module => nextTask'[t] = nextTask[t]
  BY <1>2, <1>3, TaskFacts
<1>5. deleted' \subseteq deleted \cup {Reader(module), Writer(module)}
  BY DEF StopTask, Unlink, Join, SetNext, links
<1>6. stopped' \subseteq stopped \cup {Reader(module), Writer(module)} /\ stopped' \subseteq Active
  BY <1>2 DEF StopTask, Unlink, Join, SetNext, links
<1> QED
  BY <1>1, <1>4, <1>5, <1>6, TakeDownLinks

LEMMA RelinkWriterLinks ==
    ASSUME LinksInv, RelinkWriter
    PROVE  LinksInv'
<1> USE StreamLinksAssumption, TaskFacts
<1>1. step = "relinkWriter" /\ step' = "relinkReader"
      /\ nextTask' = [nextTask EXCEPT ![Writer(StreamHead)] = Writer(next[StreamHead])]
      /\ UNCHANGED <<next, life, module, deleted, stopped, closing>>
  BY DEF RelinkWriter, SetNext
<1>2. OwnerTypes /\ ModuleInv /\ ListInv /\ TaskInv /\ GoneInv
  BY <1>1 DEF LinksInv
<1>3. ~Pushing /\ ~Pushing' /\ Popping /\ Popping'
  BY <1>1 DEF Pushing, Popping
<1>4. Listed' = Listed /\ Listed \subseteq Modules
  BY <1>1, <1>3 DEF Listed, Present
<1>5. next[StreamHead] \in Listed \cup {StreamTail}
  BY <1>2 DEF ListInv
<1>6. OwnerTypes'
  BY <1>1, <1>2, <1>4, <1>5 DEF OwnerTypes, Steps
<1>7. ModuleInv'
  BY <1>1, <1>2, <1>3 DEF ModuleInv, Present
<1>8. ListInv'
  BY <1>1, <1>2, <1>4 DEF ListInv
<1>9. TaskInv'
  <2>1. nextTask'[Writer(StreamHead)] = Writer(next[StreamHead])
    BY <1>1, <1>2 DEF OwnerTypes
  <2>2. \A t \in Tasks : t # Writer(StreamHead) => nextTask'[t] = nextTask[t]
    BY <1>1, <1>2 DEF OwnerTypes
  <2>3. ASSUME NEW n \in Listed
        PROVE  /\ nextTask'[Writer(n)] = Writer(next[n])
               /\ nextTask'[Reader(next[n])] = Reader(n)
    <3>1. nextTask[Writer(n)] = Writer(next[n]) /\ nextTask[Reader(next[n])] = Reader(n)
      BY <1>2, <1>4 DEF TaskInv
    <3>2. next[n] \in Listed \cup {StreamTail} /\ n # StreamHead
      BY <1>2, <1>4 DEF ListInv
    <3> QED
      BY <1>4, <2>2, <3>1, <3>2
  <2>4. nextTask'[Reader(StreamHead)] = None /\ nextTask'[Writer(StreamTail)] = None
    <3>1. nextTask[Reader(StreamHead)] = None /\ nextTask[Writer(StreamTail)] = None
      BY <1>2 DEF TaskInv
    <3> HIDE TaskFacts, StreamLinksAssumption
    <3> QED
      BY <2>2, <3>1, EndFacts
  <2>5. ReaderStale'
    BY <1>3 DEF ReaderStale
  <2> QED
    BY <1>1, <1>4, <2>1, <2>3, <2>4, <2>5 DEF TaskInv
<1>10. GoneInv'
  BY <1>1, <1>2, <1>3 DEF GoneInv
<1> QED
  BY <1>6, <1>7, <1>8, <1>9, <1>10 DEF LinksInv

LEMMA RelinkReaderLinks ==
    ASSUME LinksInv, RelinkReader
    PROVE  LinksInv'
<1> USE StreamLinksAssumption, TaskFacts
<1>1. step = "relinkReader" /\ step' = "rest"
      /\ nextTask' = [nextTask EXCEPT ![Reader(next[StreamHead])] = Reader(StreamHead)]
      /\ life' = [life EXCEPT ![module] = "deleted"]
      /\ UNCHANGED <<next, module, deleted, stopped, closing>>
  BY DEF RelinkReader, SetNext
<1>2. OwnerTypes /\ ModuleInv /\ ListInv /\ TaskInv /\ GoneInv
  BY <1>1 DEF LinksInv
<1>3. ~Pushing /\ ~Pushing' /\ Popping /\ ~Popping'
  BY <1>1 DEF Pushing, Popping
<1>4. module \in Present /\ module \in Modules
  BY <1>2, <1>3 DEF ModuleInv, Present
<1>5. Listed' = Listed /\ Listed \subseteq Modules
  BY <1>1, <1>2, <1>3, <1>4 DEF Listed, Present, OwnerTypes
<1>6. next[StreamHead] \in Listed \cup {StreamTail}
  BY <1>2 DEF ListInv
<1>7. OwnerTypes'
  BY <1>1, <1>2, <1>4, <1>5, <1>6 DEF OwnerTypes, Steps
<1>8. ModuleInv'
  BY <1>1, <1>3 DEF ModuleInv
<1>9. ListInv'
  BY <1>1, <1>2, <1>5 DEF ListInv
<1>10. TaskInv'
  <2>1. nextTask'[Reader(next[StreamHead])] = Reader(StreamHead)
    BY <1>1, <1>2, <1>5, <1>6 DEF OwnerTypes
  <2>2. \A t \in Tasks : t # Reader(next[StreamHead]) => nextTask'[t] = nextTask[t]
    BY <1>1, <1>2 DEF OwnerTypes
  <2>3. ASSUME NEW n \in Listed \cup {StreamHead}
        PROVE  nextTask'[Writer(n)] = Writer(next[n]) /\ nextTask'[Reader(next[n])] = Reader(n)
    <3>1. /\ nextTask[Writer(n)] = Writer(next[n])
          /\ n # StreamHead => nextTask[Reader(next[n])] = Reader(n)
      BY <1>1, <1>2 DEF TaskInv, WriterStale
    <3>2. next[n] \in Listed \cup {StreamTail} /\ (n # StreamHead => next[n] # next[StreamHead])
      BY <1>2 DEF ListInv
    <3>3. nextTask'[Writer(n)] = Writer(next[n])
      BY <1>5, <2>2, <3>1
    <3>4. CASE n = StreamHead
      BY <2>1, <3>3, <3>4
    <3>5. CASE n # StreamHead
      <4>1. Reader(next[n]) \in Tasks /\ Reader(next[n]) # Reader(next[StreamHead])
        BY <1>5, <3>2, <3>5
      <4> QED
        BY <2>2, <3>1, <3>3, <3>5, <4>1
    <3> QED
      BY <3>4, <3>5
  <2>4. nextTask'[Reader(StreamHead)] = None /\ nextTask'[Writer(StreamTail)] = None
    <3>1. nextTask[Reader(StreamHead)] = None /\ nextTask[Writer(StreamTail)] = None
      BY <1>2 DEF TaskInv
    <3>2. /\ Reader(StreamHead) \in Tasks /\ Writer(StreamTail) \in Tasks
          /\ Reader(StreamHead) # Reader(next[StreamHead])
          /\ Writer(StreamTail) # Reader(next[StreamHead])
      BY <1>5, <1>6
    <3> QED
      BY <2>2, <3>1, <3>2
  <2> QED
    BY <1>1, <1>5, <2>3, <2>4 DEF TaskInv
<1>11. GoneInv'
  BY <1>1, <1>2, <1>4 DEF GoneInv, OwnerTypes
<1> QED
  BY <1>7, <1>8, <1>9, <1>10, <1>11 DEF LinksInv

LEMMA CloseEndsLinks ==
    ASSUME LinksInv, CloseEnds
    PROVE  LinksInv'
<1>1. /\ step' = "closed"
      /\ nextTask' = [t \in Tasks |-> IF t[1] \in Modules THEN nextTask[t] ELSE None]
      /\ deleted' = deleted \cup ({StreamHead, StreamTail} \X Sides)
      /\ UNCHANGED <<next, life, module, closing, stopped>>
  BY DEF CloseEnds
<1>2. OwnerTypes
  BY DEF LinksInv
<1> QED
  BY <1>1, <1>2 DEF LinksInv, OwnerTypes, Steps, Tasks

LEMMA LinksStep == LinksInv /\ [Next]_vars => LinksInv'
<1> SUFFICES ASSUME LinksInv, [Next]_vars PROVE LinksInv'
  OBVIOUS
<1>1. CASE UNCHANGED vars
  BY <1>1, LinksStutter DEF vars
<1>2. CASE OwnerStep
  BY <1>2, PushReaderLinks, PushWriterLinks, LinkLinks, LinkReaderLinks, PopLinks,
     TaskDownLinks, RelinkWriterLinks, RelinkReaderLinks, CloseEndsLinks DEF OwnerStep
<1>3. CASE OwnerPuts \/ OwnerGets \/ \E p \in Threads : ThreadStep(p)
  BY <1>3, LinksStutter DEF OwnerPuts, OwnerGets, ThreadStep, TestNext, CallNext, Reply
<1>4. ASSUME NEW t \in Active, Work(t)
      PROVE  LinksInv'
  BY <1>4, LinksStutter DEF Work, TestStop, GetQ, ThreadStep, TestNext, CallNext, Reply
<1>5. ASSUME NEW m \in Modules, BeginPush(m)
      PROVE  LinksInv'
  BY <1>5, BeginPushLinks
<1>6. CASE BeginPop \/ BeginClose
  BY <1>6, BeginLinks
<1> QED
  BY <1>1, <1>2, <1>3, <1>4, <1>5, <1>6 DEF Next, Threads

LEMMA LinksHold == Spec => []LinksInv
BY InitLinks, LinksStep, PTL DEF Spec

\* The links of the modules mirror each other between operations, and lead to no task
\* that was deleted, for every set of modules and threads (Stream.cpp:133-172).
THEOREM LinksMirrorHolds == Spec => []LinksMirror
<1>1. LinksInv => LinksMirror
  <2> SUFFICES ASSUME LinksInv, step = "rest" PROVE LinksMirror
    BY DEF LinksMirror
  <2>1. OwnerTypes /\ ListInv /\ TaskInv /\ GoneInv /\ ~Popping /\ ~Pushing
    BY DEF LinksInv, Popping, Pushing
  <2>2. Listed = Present
    BY <2>1 DEF Listed, Present
  <2>3. \A m \in Present \cup {StreamHead} : next[m] \in Present \cup {StreamTail}
    BY <2>1, <2>2 DEF ListInv
  <2>4. \A m \in Present \cup {StreamHead} :
           nextTask[Writer(m)] = Writer(next[m]) /\ nextTask[Reader(next[m])] = Reader(m)
    BY <2>1, <2>2 DEF TaskInv, WriterStale, ReaderStale
  <2>5. \A m \in Present \cup {StreamHead, StreamTail} :
           Reader(m) \notin deleted /\ Writer(m) \notin deleted
    BY <2>1, TaskFacts, StreamLinksAssumption DEF GoneInv, Present
  <2> QED
    BY <2>1, <2>3, <2>4, <2>5 DEF LinksMirror, TaskInv
<1> QED
  BY <1>1, LinksHold, PTL
-------------------------------------------------------------------------------
(* The types of what the threads write, and what they rest on.             *)

TrafficTypes ==
    /\ worker \in [Active -> {"none", "test", "getQ", "done"}]
    /\ queue \in [Tasks -> Nat]
    /\ hop \in [Threads -> Hops \cup {None}]
    /\ puts \in 0 .. MaxPuts
    /\ lost \in BOOLEAN /\ disturbed \in BOOLEAN /\ crashed \in BOOLEAN

\* A thread is in a put() only in the body of its loop, and is done when its task is
\* deleted; the owner answers nobody.
ThreadInv ==
    /\ \A t \in Active : worker[t] # "test" => hop[t] = None
    /\ \A t \in Active \cap deleted : worker[t] = "done"
    /\ hop[Owner] # None => hop[Owner].at # "reply" /\ hop[Owner].left = 0

TypeInv == LinksInv /\ TrafficTypes /\ ThreadInv

\* The module at the bottom is listed.
LEMMA BottomListed ==
    ASSUME LinksInv, step = "rest", next[StreamHead] # StreamTail
    PROVE  Bottom \in Modules /\ Bottom \in Listed
<1>1. OwnerTypes /\ ListInv /\ Listed = Present
  BY DEF LinksInv, Listed, Pushing, Popping, Present
<1>2. PICK m \in Listed \cup {StreamHead} : next[m] = StreamTail
  BY <1>1 DEF ListInv
<1>3. m \in Modules /\ life[m] = "pushed" /\ next[m] = StreamTail
  BY <1>1, <1>2 DEF Present
<1> QED
  BY <1>1, <1>3 DEF Bottom, Present

LEMMA PutTypes ==
    ASSUME TrafficTypes, ThreadInv, NEW p \in Threads, NEW t \in Tasks, NEW left \in {0, 1},
           p = Owner => left = 0, p \in Active => worker[p] = "test",
           Put(p, t, left), UNCHANGED <<worker, deleted>>
    PROVE  /\ hop' \in [Threads -> Hops \cup {None}] /\ queue' \in [Tasks -> Nat]
           /\ lost' \in BOOLEAN /\ crashed' \in BOOLEAN
           /\ ThreadInv'
<1> USE StreamLinksAssumption, TaskFacts
<1>1. p # Owner => p \in Tasks
  BY DEF Threads
<1>2. \/ hop' = hop
      \/ \E h \in Hops \cup {None} :
             /\ hop' = [hop EXCEPT ![p] = h]
             /\ p = Owner /\ h # None => h.at # "reply" /\ h.left = 0
  BY <1>1 DEF Put, Return, Hops
<1>3. hop' \in [Threads -> Hops \cup {None}]
  BY <1>2 DEF TrafficTypes
<1>4. queue' = queue \/ queue' = [queue EXCEPT ![t] = @ + 1]
  BY DEF Put
<1>5. queue' \in [Tasks -> Nat]
  BY <1>4 DEF TrafficTypes
<1>6. lost' \in BOOLEAN /\ crashed' \in BOOLEAN
  <2>1. (lost' = TRUE \/ lost' = lost) /\ (crashed' = TRUE \/ crashed' = crashed)
    BY DEF Put
  <2> QED
    BY <2>1 DEF TrafficTypes
<1>7. ThreadInv'
  <2>1. ASSUME NEW s \in Active, worker'[s] # "test" PROVE hop'[s] = None
    <3>1. s # p /\ hop[s] = None
      BY <2>1 DEF ThreadInv
    <3> QED
      BY <1>2, <3>1 DEF TrafficTypes, Threads
  <2>2. ASSUME hop'[Owner] # None PROVE hop'[Owner].at # "reply" /\ hop'[Owner].left = 0
    BY <1>2, <2>2 DEF ThreadInv, TrafficTypes, Threads
  <2> QED
    BY <2>1, <2>2 DEF ThreadInv
<1> QED
  BY <1>3, <1>5, <1>6, <1>7

LEMMA InitTypes == Init => TypeInv
<1> SUFFICES ASSUME Init PROVE TypeInv
  OBVIOUS
<1>1. queue \in [Tasks -> Nat]
  BY DEF Init
<1>2. puts \in 0 .. MaxPuts
  BY StreamLinksAssumption DEF Init
<1>3. worker \in [Active -> {"none", "test", "getQ", "done"}]
  BY DEF Init
<1>4. hop \in [Threads -> Hops \cup {None}]
  BY DEF Init
<1>5. lost \in BOOLEAN /\ disturbed \in BOOLEAN /\ crashed \in BOOLEAN
  BY DEF Init
<1>6. ThreadInv
  BY DEF Init, ThreadInv, Threads
<1> QED
  BY <1>1, <1>2, <1>3, <1>4, <1>5, <1>6, InitLinks DEF TypeInv, TrafficTypes

\* The owner's steps do not touch the traffic, but for the threads of a new module and
\* the wait for one that is deleted.
LEMMA OwnerTypesStep ==
    ASSUME TypeInv, OwnerStep \/ BeginPop \/ BeginClose \/ \E m \in Modules : BeginPush(m)
    PROVE  TrafficTypes' /\ ThreadInv'
<1> USE StreamLinksAssumption, TaskFacts
<1>1. LinksInv /\ TrafficTypes /\ ThreadInv
  BY DEF TypeInv
<1>2. UNCHANGED <<queue, hop, puts, crashed>> /\ lost' \in BOOLEAN /\ disturbed' \in BOOLEAN
  BY <1>1 DEF OwnerStep, BeginPop, BeginClose, BeginPush, Begin, PushReader, PushWriter,
     Link, LinkReader, Pop, StopTask, Unlink, Join, RelinkWriter, RelinkReader, CloseEnds,
     SetNext, traffic, TrafficTypes
<1>3. CASE OwnerStep
  <2>1. UNCHANGED worker
    BY <1>3 DEF OwnerStep, PushReader, PushWriter, Link, LinkReader, Pop, StopTask, Unlink,
       Join, RelinkWriter, RelinkReader, CloseEnds, SetNext, traffic
  <2>2. \A t \in Active \cap deleted' : worker[t] = "done"
    <3>1. CASE UNCHANGED deleted
      BY <1>1, <3>1 DEF ThreadInv
    <3>2. CASE \E t \in Tasks : deleted' = deleted \cup {t} /\ (t \in Active => worker[t] = "done")
      BY <1>1, <3>2 DEF ThreadInv
    <3>3. CASE deleted' = deleted \cup ({StreamHead, StreamTail} \X Sides)
      BY <1>1, <3>3 DEF ThreadInv
    <3>4. module \in Modules \/ ~(step = "joinReader" \/ step = "joinWriter")
      BY <1>1 DEF LinksInv, OwnerTypes, ModuleInv, Popping, Present
    <3> QED
      BY <1>3, <3>1, <3>2, <3>3, <3>4 DEF OwnerStep, PushReader, PushWriter, Link, LinkReader,
         Pop, StopTask, Unlink, Join, RelinkWriter, RelinkReader, CloseEnds, SetNext, links
  <2> QED
    BY <1>1, <1>2, <2>1, <2>2 DEF TrafficTypes, ThreadInv
<1>4. CASE BeginPop \/ BeginClose
  BY <1>1, <1>2, <1>4 DEF TrafficTypes, ThreadInv, BeginPop, BeginClose, Begin
<1>5. ASSUME NEW m \in Modules, BeginPush(m)
      PROVE  TrafficTypes' /\ ThreadInv'
  <2>1. /\ step = "rest" /\ life[m] = "unused" /\ UNCHANGED deleted
        /\ worker' = [t \in Active |-> IF t[1] = m THEN "test" ELSE worker[t]]
    BY <1>5 DEF BeginPush, Begin, AtRest
  <2>2. \A t \in deleted : t[1] # m
    BY <1>1, <2>1 DEF LinksInv, GoneInv, Popping
  <2>3. \A t \in Active : worker'[t] = worker[t] \/ (worker'[t] = "test" /\ t[1] = m)
    BY <2>1
  <2>4. worker' \in [Active -> {"none", "test", "getQ", "done"}]
    BY <1>1, <2>1 DEF TrafficTypes
  <2> QED
    BY <1>1, <1>2, <2>1, <2>2, <2>3, <2>4 DEF TrafficTypes, ThreadInv
<1> QED
  BY <1>3, <1>4, <1>5

\* The steps of a put().
LEMMA PutTypesStep ==
    ASSUME TypeInv, OwnerPuts \/ \E p \in Threads : ThreadStep(p)
    PROVE  TrafficTypes' /\ ThreadInv'
<1> USE StreamLinksAssumption, TaskFacts
<1>1. LinksInv /\ TrafficTypes /\ ThreadInv /\ OwnerTypes
  BY DEF TypeInv, LinksInv
<1>2. UNCHANGED <<worker, deleted, disturbed>> /\ puts' \in 0 .. MaxPuts
  BY <1>1 DEF OwnerPuts, ThreadStep, TestNext, CallNext, Reply, owner, links, TrafficTypes
<1>3. CASE OwnerPuts
  <2>1. Owner \in Threads
    BY DEF Threads
  <2>2. PICK t \in Tasks : Put(Owner, t, 0)
    BY <1>1, <1>3, BottomListed DEF OwnerPuts, AtRest
  <2> QED
    BY <1>1, <1>2, <2>1, <2>2, PutTypes DEF TrafficTypes
<1>4. ASSUME NEW p \in Threads, ThreadStep(p)
      PROVE  TrafficTypes' /\ ThreadInv'
  <2>1. /\ hop[p] \in Hops /\ hop[p] # None
        /\ p \in Active => worker[p] = "test"
        /\ p = Owner => hop[p].at # "reply" /\ hop[p].left = 0
    BY <1>1, <1>4 DEF ThreadStep, TestNext, CallNext, Reply, TrafficTypes, ThreadInv
  <2>2. CASE CallNext(p)
    <3>1. CASE crashed' = TRUE /\ UNCHANGED <<hop, queue, lost>>
      BY <1>1, <1>2, <3>1 DEF TrafficTypes, ThreadInv
    <3>2. CASE nextTask[hop[p].in] # None /\ Put(p, nextTask[hop[p].in], hop[p].left)
      <4>1. nextTask[hop[p].in] \in Tasks /\ hop[p].left \in {0, 1}
        BY <1>1, <2>1, <3>2 DEF OwnerTypes, Hops
      <4> QED
        BY <1>1, <1>2, <2>1, <3>2, <4>1, PutTypes DEF TrafficTypes
    <3> QED
      BY <2>2, <3>1, <3>2 DEF CallNext
  <2>3. CASE Reply(p)
    <3>1. p \in Active /\ Sibling(p) \in Tasks
      BY <2>1, <2>3 DEF Reply, Threads, Sibling
    <3> QED
      BY <1>1, <1>2, <2>1, <2>3, <3>1, PutTypes DEF TrafficTypes, Reply
  <2>4. CASE TestNext(p)
    <3>1. UNCHANGED queue /\ lost' \in BOOLEAN /\ crashed' \in BOOLEAN
      BY <1>1, <2>4 DEF TestNext, TrafficTypes
    <3>2. \/ hop' = hop
          \/ \E h \in Hops \cup {None} :
                 /\ hop' = [hop EXCEPT ![p] = h]
                 /\ p = Owner /\ h # None => h.at # "reply" /\ h.left = 0
      <4>1. CASE hop' = hop
        BY <4>1
      <4>2. CASE Return(p, hop[p].left)
        <5>1. CASE hop[p].left = 1
          <6>1. p \in Tasks /\ p # Owner
            BY <2>1, <5>1 DEF Threads
          <6>2. [in |-> p, at |-> "test", left |-> 0] \in Hops
            BY <6>1 DEF Hops
          <6> QED
            BY <4>2, <5>1, <6>1, <6>2 DEF Return
        <5>2. CASE hop[p].left # 1
          BY <4>2, <5>2 DEF Return
        <5> QED
          BY <5>1, <5>2
      <4>3. CASE hop' = [hop EXCEPT ![p].at = "call"]
        <5> DEFINE h == [hop[p] EXCEPT !.at = "call"]
        <5>1. h \in Hops /\ h.at = "call" /\ h.left = hop[p].left
          BY <2>1 DEF Hops
        <5>2. hop' = [hop EXCEPT ![p] = h]
          BY <4>3
        <5> QED
          BY <2>1, <5>1, <5>2
      <4> QED
        BY <2>4, <4>1, <4>2, <4>3 DEF TestNext
    <3>3. hop' \in [Threads -> Hops \cup {None}]
      BY <1>1, <3>2 DEF TrafficTypes
    <3>4. ThreadInv'
      <4>1. ASSUME NEW s \in Active, worker'[s] # "test" PROVE hop'[s] = None
        <5>1. s # p /\ hop[s] = None
          BY <1>1, <1>2, <2>1, <4>1 DEF ThreadInv
        <5> QED
          BY <1>1, <3>2, <5>1 DEF TrafficTypes, Threads
      <4>2. ASSUME hop'[Owner] # None PROVE hop'[Owner].at # "reply" /\ hop'[Owner].left = 0
        BY <1>1, <3>2, <4>2 DEF ThreadInv, TrafficTypes, Threads
      <4> QED
        BY <1>1, <1>2, <4>1, <4>2 DEF ThreadInv
    <3> QED
      BY <1>1, <1>2, <3>1, <3>3, <3>4 DEF TrafficTypes
  <2> QED
    BY <1>4, <2>2, <2>3, <2>4 DEF ThreadStep
<1> QED
  BY <1>3, <1>4

LEMMA OneFewer ==
    ASSUME NEW f \in [Tasks -> Nat], NEW t, f[t] # 0
    PROVE  [f EXCEPT ![t] = @ - 1] \in [Tasks -> Nat]
<1>1. CASE t \in Tasks
  <2>1. f[t] \in Nat /\ f[t] - 1 \in Nat
    BY <1>1
  <2> QED
    BY <2>1
<1>2. CASE t \notin Tasks
  BY <1>2
<1> QED
  BY <1>1, <1>2

LEMMA TypeStep == TypeInv /\ [Next]_vars => TypeInv'
<1> SUFFICES ASSUME TypeInv, [Next]_vars PROVE TypeInv'
  OBVIOUS
<1> USE StreamLinksAssumption, TaskFacts
<1>1. LinksInv /\ TrafficTypes /\ ThreadInv
  BY DEF TypeInv
<1>2. LinksInv'
  BY <1>1, LinksStep
<1> SUFFICES TrafficTypes' /\ ThreadInv'
  BY <1>2 DEF TypeInv
<1>3. CASE UNCHANGED vars
  BY <1>1, <1>3 DEF vars, owner, links, traffic, TrafficTypes, ThreadInv
<1>4. CASE OwnerStep \/ BeginPop \/ BeginClose \/ \E m \in Modules : BeginPush(m)
  BY <1>4, OwnerTypesStep
<1>5. CASE OwnerPuts \/ \E p \in Threads : ThreadStep(p)
  BY <1>5, PutTypesStep
<1>6. CASE OwnerGets
  <2>1. /\ queue' = [queue EXCEPT ![Reader(StreamHead)] = @ - 1]
        /\ queue[Reader(StreamHead)] > 0
        /\ UNCHANGED <<deleted, worker, hop, puts, lost, disturbed, crashed>>
    BY <1>6 DEF OwnerGets, owner, links
  <2>2. queue' \in [Tasks -> Nat]
    BY <1>1, <2>1, OneFewer DEF TrafficTypes
  <2> QED
    BY <1>1, <2>1, <2>2 DEF TrafficTypes, ThreadInv
<1>7. ASSUME NEW t \in Active, TestStop(t) \/ GetQ(t)
      PROVE  TrafficTypes' /\ ThreadInv'
  <2>1. /\ t \notin deleted /\ hop[t] = None /\ t # Owner /\ t \in Threads
        /\ UNCHANGED <<deleted, puts, lost, disturbed, crashed>>
    BY <1>1, <1>7 DEF TestStop, GetQ, owner, links, ThreadInv, Threads
  <2>2. /\ \A s \in Active : s # t => worker'[s] = worker[s]
        /\ worker' \in [Active -> {"none", "test", "getQ", "done"}]
    BY <1>1, <1>7 DEF TestStop, GetQ, TrafficTypes
  <2>3. queue' \in [Tasks -> Nat]
    <3>1. \/ queue' = queue
          \/ queue[t] # 0 /\ queue' = [queue EXCEPT ![t] = @ - 1]
      BY <1>7 DEF TestStop, GetQ
    <3> QED
      BY <1>1, <3>1, OneFewer DEF TrafficTypes
  <2>4. /\ \A p \in Threads : p # t => hop'[p] = hop[p]
        /\ hop' \in [Threads -> Hops \cup {None}]
        /\ worker'[t] # "test" => hop'[t] = None
    <3>1. CASE UNCHANGED hop
      BY <1>1, <2>1, <3>1 DEF TrafficTypes
    <3>2. CASE ~UNCHANGED hop
      <4>1. /\ worker' = [worker EXCEPT ![t] = "test"]
            /\ \E a \in {"reply", "test"} :
                   hop' = [hop EXCEPT ![t] = [in |-> t, at |-> a, left |-> 0]]
        BY <1>7, <3>2 DEF TestStop, GetQ
      <4>2. \A a \in {"reply", "test"} : [in |-> t, at |-> a, left |-> 0] \in Hops
        BY DEF Hops
      <4> QED
        BY <1>1, <2>1, <4>1, <4>2 DEF TrafficTypes
    <3> QED
      BY <3>1, <3>2
  <2>5. Owner \in Threads /\ Active \subseteq Threads
    BY DEF Threads
  <2> QED
    BY <1>1, <2>1, <2>2, <2>3, <2>4, <2>5 DEF TrafficTypes, ThreadInv
<1> QED
  BY <1>3, <1>4, <1>5, <1>6, <1>7 DEF Next, Work, Threads

LEMMA TypesHold == Spec => []TypeInv
BY InitTypes, TypeStep, PTL DEF Spec

\* Every variable keeps its type, and no thread runs on once its task is deleted: the
\* owner waits for it first (Module.cpp:186-188).
THEOREM TypeCorrect == Spec => []TypeOK
<1>1. TypeInv => TypeOK
  BY DEF TypeInv, LinksInv, OwnerTypes, TrafficTypes, ThreadInv, TypeOK
<1> QED
  BY <1>1, TypesHold, PTL
-------------------------------------------------------------------------------
(* Nothing is lost while the stream is only changed without traffic.       *)

\* Between two operations, where nothing is stopped or deleted, a thread in a task of
\* the list finds the next one.
LEMMA NextListed ==
    ASSUME LinksInv, step = "rest", NEW t \in Tasks, t = Writer(StreamHead) \/ t[1] \in Listed
    PROVE  /\ nextTask[t] \in Tasks /\ nextTask[t] # None
           /\ nextTask[t][1] \in Listed \cup {StreamHead, StreamTail}
<1> USE StreamLinksAssumption, TaskFacts
<1>1. ListInv /\ TaskInv /\ ~Popping /\ ~Pushing /\ Listed \subseteq Modules
  BY DEF LinksInv, Popping, Pushing, Listed, Present
<1>2. ~WriterStale /\ ~ReaderStale
  BY <1>1 DEF WriterStale, ReaderStale
<1>3. CASE t = Writer(StreamHead) \/ t = Writer(t[1])
  <2>1. PICK m \in Listed \cup {StreamHead} : t = Writer(m)
    BY <1>1, <1>3
  <2>2. nextTask[t] = Writer(next[m]) /\ next[m] \in Listed \cup {StreamTail}
    BY <1>1, <1>2, <2>1 DEF ListInv, TaskInv
  <2>3. Writer(next[m]) \in Tasks /\ Writer(next[m])[1] = next[m]
    BY <1>1, <2>2
  <2> QED
    BY <2>2, <2>3
<1>4. CASE t # Writer(StreamHead) /\ t = Reader(t[1])
  <2>1. PICK m \in Listed \cup {StreamHead} : next[m] = t[1]
    BY <1>1, <1>4 DEF ListInv
  <2>2. nextTask[t] = Reader(m)
    BY <1>1, <1>2, <1>4, <2>1 DEF TaskInv
  <2>3. Reader(m) \in Tasks /\ Reader(m)[1] = m
    BY <1>1
  <2> QED
    BY <2>1, <2>2, <2>3
<1> QED
  BY <1>3, <1>4

LEMMA NothingGone ==
    ASSUME LinksInv, step = "rest", NEW t \in Tasks,
           t[1] \in Listed \cup {StreamHead, StreamTail}
    PROVE  t \notin deleted /\ t \notin stopped
BY StreamLinksAssumption DEF LinksInv, GoneInv, Listed, Present, Popping, Pushing

\* No message is dropped, and the traffic keeps to the listed modules.
Quiet == ~lost /\ ~crashed /\ HopInv /\ QueueInv

LEMMA InitQuiet == Init => QuietInv
BY DEF Init, QuietInv, HopInv, QueueInv

\* A put() of a task of the list, between two operations.
LEMMA PutQuiet ==
    ASSUME TypeInv, Quiet, step = "rest", ~closing, UNCHANGED owner,
           NEW p \in Threads, NEW t \in Tasks, NEW left \in {0, 1},
           t[1] \in Listed \cup {StreamHead, StreamTail},
           p # Owner => p[1] \in Listed, p = Owner => left = 0,
           Put(p, t, left)
    PROVE  Quiet'
<1> USE StreamLinksAssumption, TaskFacts
<1>1. LinksInv /\ TrafficTypes
  BY DEF TypeInv
<1>2. t \notin deleted /\ t \notin stopped
  BY <1>1, NothingGone
<1>3. UNCHANGED <<step, closing>> /\ Listed' = Listed
  BY DEF owner, links, Listed, Present, Popping, Pushing
<1>4. ~lost' /\ ~crashed'
  BY <1>2 DEF Quiet, Put
<1>5. p # Owner => p \in Tasks
  BY DEF Threads
<1>6. \E h \in Hops \cup {None} :
        /\ hop' = [hop EXCEPT ![p] = h]
        /\ h # None => /\ h.in = Writer(StreamHead) \/ h.in[1] \in Listed
                       /\ p = Owner => h.left = 0 /\ h.at # "reply"
  <2>1. CASE Return(p, left)
    <3>1. CASE left = 1
      <4> DEFINE h == [in |-> p, at |-> "test", left |-> 0]
      <4>1. h \in Hops /\ h.in[1] \in Listed /\ p # Owner
        BY <1>5, <3>1 DEF Hops
      <4>2. hop' = [hop EXCEPT ![p] = h]
        BY <2>1, <3>1 DEF Return
      <4> HIDE DEF h
      <4> QED
        BY <4>1, <4>2
    <3>2. CASE left # 1
      BY <2>1, <3>2 DEF Return
    <3> QED
      BY <3>1, <3>2
  <2>2. CASE HandsOn(t) /\ hop' = [hop EXCEPT ![p] = [in |-> t, at |-> "test", left |-> left]]
    <3> DEFINE h == [in |-> t, at |-> "test", left |-> left]
    <3>1. h \in Hops /\ h.in = t /\ h.at # "reply" /\ h.left = left
      BY DEF Hops
    <3>2. t = Writer(StreamHead) \/ t[1] \in Listed
      BY <2>2 DEF HandsOn
    <3>3. hop' = [hop EXCEPT ![p] = h]
      BY <2>2
    <3> HIDE DEF h
    <3> QED
      BY <3>1, <3>2, <3>3
  <2> QED
    BY <1>2, <2>1, <2>2 DEF Put
<1>7. HopInv'
  <2>1. \A q \in Threads : q # p => hop'[q] = hop[q]
    BY <1>1, <1>6 DEF TrafficTypes
  <2>2. ASSUME NEW q \in Threads, hop'[q] # None
        PROVE  /\ hop'[q].in = Writer(StreamHead) \/ hop'[q].in[1] \in Listed
               /\ q # Owner => q[1] \in Listed
               /\ q = Owner => hop'[q].left = 0 /\ hop'[q].at # "reply"
    <3>1. CASE q = p
      BY <1>1, <1>6, <2>2, <3>1 DEF TrafficTypes
    <3>2. CASE q # p
      BY <2>1, <2>2, <3>2 DEF Quiet, HopInv
    <3> QED
      BY <3>1, <3>2
  <2> QED
    BY <1>3, <2>2 DEF HopInv
<1>8. QueueInv'
  <2>1. queue' = queue \/ (Queues(t) /\ queue' = [queue EXCEPT ![t] = @ + 1])
    BY DEF Put
  <2>2. CASE queue' = queue
    BY <1>3, <2>2 DEF Quiet, QueueInv, Queues
  <2>3. CASE Queues(t) /\ queue' = [queue EXCEPT ![t] = @ + 1]
    <3>1. \A s \in Tasks : s # t => queue'[s] = queue[s]
      BY <1>1, <2>3 DEF TrafficTypes
    <3>2. t \in Active => t[1] \in Listed
      OBVIOUS
    <3> QED
      BY <1>3, <2>3, <3>1, <3>2 DEF Quiet, QueueInv, Queues
  <2> QED
    BY <2>1, <2>2, <2>3
<1> QED
  BY <1>4, <1>7, <1>8 DEF Quiet

\* An operation of the owner's begins without traffic, or the stream is disturbed; while
\* it lasts there is none.
LEMMA OwnerQuietStep ==
    ASSUME TypeInv, Quiet,
           OwnerStep \/ BeginPop \/ BeginClose \/ \E m \in Modules : BeginPush(m)
    PROVE  disturbed' \/ Quiet'
<1> USE StreamLinksAssumption, TaskFacts
<1> SUFFICES ASSUME ~disturbed' PROVE Quiet'
  OBVIOUS
<1>1. LinksInv /\ TrafficTypes
  BY DEF TypeInv
<1>2. UNCHANGED <<queue, hop, crashed>>
  BY DEF OwnerStep, BeginPop, BeginClose, BeginPush, Begin, PushReader, PushWriter,
     Link, LinkReader, Pop, StopTask, Unlink, Join, RelinkWriter, RelinkReader, CloseEnds,
     SetNext, traffic
<1>3. /\ \A p \in Threads : hop[p] = None
      /\ \A t \in Active : ~(queue[t] > 0)
  <2>1. CASE OwnerStep
    <3>1. step # "rest" \/ closing
      BY <2>1 DEF OwnerStep, PushReader, PushWriter, Link, LinkReader, Pop, StopTask, Unlink,
         Join, RelinkWriter, RelinkReader, CloseEnds, SetNext
    <3> QED
      BY <3>1 DEF Quiet, HopInv, QueueInv
  <2>2. CASE ~OwnerStep
    BY <2>2 DEF BeginPop, BeginClose, BeginPush, Begin, Traffic
  <2> QED
    BY <2>1, <2>2
<1>4. ~lost'
  <2>1. CASE UNCHANGED lost
    BY <2>1 DEF Quiet
  <2>2. CASE \E m \in Modules : lost' = (lost \/ queue[Reader(m)] > 0)
                               \/ lost' = (lost \/ queue[Writer(m)] > 0)
    <3>1. \A m \in Modules : ~(queue[Reader(m)] > 0) /\ ~(queue[Writer(m)] > 0)
      BY <1>3 DEF Quiet, QueueInv, Queues
    <3> QED
      BY <2>2, <3>1 DEF Quiet
  <2>3. module \in Modules \/ ~(step = "joinReader" \/ step = "joinWriter")
    BY <1>1 DEF LinksInv, OwnerTypes, ModuleInv, Popping, Present
  <2> QED
    BY <2>1, <2>2, <2>3 DEF OwnerStep, BeginPop, BeginClose, BeginPush, Begin, PushReader,
       PushWriter, Link, LinkReader, Pop, StopTask, Unlink, Join, RelinkWriter, RelinkReader,
       CloseEnds, SetNext, traffic
<1>5. HopInv'
  BY <1>2, <1>3 DEF HopInv
<1>6. QueueInv'
  BY <1>2, <1>3 DEF Quiet, QueueInv, Queues
<1> QED
  BY <1>2, <1>4, <1>5, <1>6 DEF Quiet

\* A message on its way meets only tasks of the list.
LEMMA ThreadQuietStep ==
    ASSUME TypeInv, Quiet, NEW p \in Threads, ThreadStep(p)
    PROVE  Quiet'
<1> USE StreamLinksAssumption, TaskFacts
<1>1. LinksInv /\ TrafficTypes /\ ThreadInv
  BY DEF TypeInv
<1>2. /\ hop[p] \in Hops /\ hop[p] # None /\ step = "rest" /\ ~closing
      /\ hop[p].in = Writer(StreamHead) \/ hop[p].in[1] \in Listed
      /\ p # Owner => p[1] \in Listed
      /\ p = Owner => hop[p].left = 0 /\ hop[p].at # "reply"
  BY <1>1 DEF ThreadStep, TestNext, CallNext, Reply, TrafficTypes, Quiet, HopInv
<1>3. hop[p].in \in Tasks /\ hop[p].left \in {0, 1}
  BY <1>2 DEF Hops
<1>4. hop[p].in \notin deleted
  BY <1>1, <1>2, <1>3, NothingGone
<1>5. /\ nextTask[hop[p].in] \in Tasks /\ nextTask[hop[p].in] # None
      /\ nextTask[hop[p].in][1] \in Listed \cup {StreamHead, StreamTail}
  BY <1>1, <1>2, <1>3, NextListed
<1>6. UNCHANGED owner
  BY DEF ThreadStep, TestNext, CallNext, Reply
<1>7. CASE CallNext(p)
  <2>1. Put(p, nextTask[hop[p].in], hop[p].left)
    BY <1>4, <1>5, <1>7 DEF CallNext
  <2> QED
    BY <1>2, <1>3, <1>5, <1>6, <2>1, PutQuiet
<1>8. CASE Reply(p)
  <2>1. p \in Active /\ p[1] \in Listed /\ p # Owner
    BY <1>2, <1>8 DEF Reply, Threads
  <2>2. Sibling(p) \in Tasks /\ Sibling(p)[1] \in Listed
    BY <2>1 DEF Sibling
  <2> QED
    BY <1>2, <1>6, <1>8, <2>1, <2>2, PutQuiet DEF Reply
<1>9. CASE TestNext(p)
  <2> DEFINE h == [hop[p] EXCEPT !.at = "call"]
  <2>1. /\ hop' = [hop EXCEPT ![p] = h]
        /\ UNCHANGED <<queue, lost, crashed>>
    BY <1>4, <1>5, <1>9 DEF TestNext
  <2>2. h.in = hop[p].in /\ h.left = hop[p].left /\ h.at = "call"
    BY <1>2 DEF Hops
  <2>3. /\ hop'[p] = h
        /\ \A q \in Threads : q # p => hop'[q] = hop[q]
    BY <1>1, <2>1 DEF TrafficTypes
  <2>4. UNCHANGED <<step, closing>> /\ Listed' = Listed
    BY <1>6 DEF owner, links, Listed, Present, Popping, Pushing
  <2> HIDE DEF h
  <2>5. ASSUME NEW q \in Threads, hop'[q] # None
        PROVE  /\ hop'[q].in = Writer(StreamHead) \/ hop'[q].in[1] \in Listed
               /\ q # Owner => q[1] \in Listed
               /\ q = Owner => hop'[q].left = 0 /\ hop'[q].at # "reply"
    <3>1. CASE q = p
      BY <1>2, <2>2, <2>3, <3>1
    <3>2. CASE q # p
      BY <2>3, <2>5, <3>2 DEF Quiet, HopInv
    <3> QED
      BY <3>1, <3>2
  <2>6. HopInv'
    BY <1>2, <2>4, <2>5 DEF HopInv
  <2>7. QueueInv'
    BY <2>1, <2>4 DEF Quiet, QueueInv, Queues
  <2> QED
    BY <2>1, <2>6, <2>7 DEF Quiet
<1> QED
  BY <1>7, <1>8, <1>9 DEF ThreadStep

LEMMA OwnerPutsQuiet ==
    ASSUME TypeInv, Quiet, OwnerPuts
    PROVE  Quiet'
<1> USE StreamLinksAssumption, TaskFacts
<1>1. LinksInv
  BY DEF TypeInv
<1>2. step = "rest" /\ ~closing /\ UNCHANGED owner
  BY DEF OwnerPuts, AtRest
<1>3. Owner \in Threads
  BY DEF Threads
<1>4. PICK t \in Tasks : /\ Put(Owner, t, 0)
                        /\ t[1] \in Listed \cup {StreamHead}
  <2>1. CASE next[StreamHead] # StreamTail /\ Put(Owner, Reader(Bottom), 0)
    <3>1. Reader(Bottom) \in Tasks /\ Reader(Bottom)[1] \in Listed
      BY <1>1, <1>2, <2>1, BottomListed
    <3> QED
      BY <2>1, <3>1
  <2>2. CASE Put(Owner, Writer(StreamHead), 0)
    <3>1. Writer(StreamHead) \in Tasks /\ Writer(StreamHead)[1] = StreamHead
      OBVIOUS
    <3> QED
      BY <2>2, <3>1
  <2> QED
    BY <2>1, <2>2 DEF OwnerPuts
<1> QED
  BY <1>2, <1>3, <1>4, PutQuiet

\* A thread takes a message of its own queue, the owner one of the head's.
LEMMA GetQuiet ==
    ASSUME TypeInv, Quiet, OwnerGets \/ \E t \in Active : TestStop(t) \/ GetQ(t)
    PROVE  Quiet'
<1> USE StreamLinksAssumption, TaskFacts
<1>1. TrafficTypes
  BY DEF TypeInv
<1>2. UNCHANGED <<step, closing, lost, crashed>> /\ Listed' = Listed
  BY DEF OwnerGets, TestStop, GetQ, owner, links, Listed, Present, Popping, Pushing
<1>3. \/ queue' = queue
      \/ \E t \in Tasks : queue[t] > 0 /\ queue' = [queue EXCEPT ![t] = @ - 1]
  BY <1>1 DEF OwnerGets, TestStop, GetQ, TrafficTypes
<1>4. \A s \in Tasks : queue'[s] > 0 => queue[s] > 0
  BY <1>1, <1>3 DEF TrafficTypes
<1>5. QueueInv'
  BY <1>2, <1>4 DEF Quiet, QueueInv, Queues
<1>6. CASE hop' = hop
  BY <1>2, <1>5, <1>6 DEF Quiet, HopInv
<1>7. ASSUME NEW t \in Active, GetQ(t), queue[t] > 0
      PROVE  Quiet'
  <2>1. t \in Threads /\ t # Owner /\ t \in Tasks
    BY DEF Threads
  <2>2. t[1] \in Listed /\ step = "rest" /\ ~closing
    BY <1>7, <2>1 DEF Quiet, QueueInv
  <2>3. PICK a \in {"reply", "test"} :
           hop' = [hop EXCEPT ![t] = [in |-> t, at |-> a, left |-> 0]]
    BY <1>7 DEF GetQ
  <2>4. /\ hop'[t].in = t
        /\ \A q \in Threads : q # t => hop'[q] = hop[q]
    BY <1>1, <2>1, <2>3 DEF TrafficTypes
  <2>5. HopInv'
    BY <1>2, <2>1, <2>2, <2>4 DEF Quiet, HopInv
  <2> QED
    BY <1>2, <1>5, <2>5 DEF Quiet
<1>8. \A t \in Active : GetQ(t) /\ ~(queue[t] > 0) => hop' = hop
  BY <1>1 DEF GetQ, TrafficTypes
<1> QED
  BY <1>6, <1>7, <1>8 DEF OwnerGets, TestStop

LEMMA QuietStep == TypeInv /\ QuietInv /\ [Next]_vars => QuietInv'
<1> SUFFICES ASSUME TypeInv, QuietInv, [Next]_vars, ~disturbed' PROVE Quiet'
  BY DEF QuietInv, Quiet
<1>1. ~disturbed
  BY DEF Next, OwnerStep, OwnerPuts, OwnerGets, Work, ThreadStep, TestNext, CallNext, Reply,
     TestStop, GetQ, BeginPop, BeginClose, BeginPush, Begin, PushReader, PushWriter, Link,
     LinkReader, Pop, StopTask, Unlink, Join, RelinkWriter, RelinkReader, CloseEnds, SetNext,
     owner, vars
<1>2. Quiet
  BY <1>1 DEF QuietInv, Quiet
<1>3. CASE UNCHANGED vars
  BY <1>2, <1>3 DEF vars, owner, links, traffic, Quiet, HopInv, QueueInv, Queues, Listed,
     Present, Popping, Pushing
<1>4. CASE OwnerStep \/ BeginPop \/ BeginClose \/ \E m \in Modules : BeginPush(m)
  BY <1>2, <1>4, OwnerQuietStep
<1>5. CASE OwnerPuts
  BY <1>2, <1>5, OwnerPutsQuiet
<1>6. CASE OwnerGets \/ \E t \in Active : TestStop(t) \/ GetQ(t)
  BY <1>2, <1>6, GetQuiet
<1>7. CASE \E p \in Threads : ThreadStep(p)
  BY <1>2, <1>7, ThreadQuietStep
<1> QED
  BY <1>3, <1>4, <1>5, <1>6, <1>7 DEF Next, Work, Threads

\* A message is dropped, and a null pointer or a deleted task used, only after a module
\* was pushed or popped with a message on its way, for every set of modules, threads
\* and messages (Stream.cpp:133-139, Task.cpp:169-174).
THEOREM QuietIsSafeHolds == Spec => []QuietIsSafe
<1>1. Init => TypeInv /\ QuietInv
  BY InitTypes, InitQuiet
<1>2. TypeInv /\ QuietInv /\ [Next]_vars => (TypeInv /\ QuietInv)'
  BY TypeStep, QuietStep
<1>3. TypeInv /\ QuietInv => QuietIsSafe
  BY DEF QuietInv, QuietIsSafe
<1> QED
  BY <1>1, <1>2, <1>3, PTL DEF Spec
-------------------------------------------------------------------------------
(* The stack of modules.  Induction along it goes by the least index at    *)
(* which a claim fails.                                                    *)

LEMMA LeastNatural ==
    ASSUME NEW D \in SUBSET Nat, D # {}
    PROVE  \E n \in D : \A k \in D : n <= k
<1> DEFINE R == OpToRel(<, Nat)
<1>1. PICK n \in D : \A k \in D : <<k, n>> \notin R
  BY NatLessThanWellFounded, WFMin
<1>2. \A k \in D : ~(k < n)
  BY <1>1 DEF OpToRel
<1>3. D \subseteq Nat /\ n \in D
  OBVIOUS
<1>4. \A k \in D : n <= k
  <2> SUFFICES ASSUME NEW k \in D PROVE n <= k
    OBVIOUS
  <2>1. n \in Nat /\ k \in Nat /\ ~(k < n)
    BY <1>2, <1>3
  <2> QED
    BY <2>1
<1> QED
  BY <1>4

\* A function lists one sequence of modules at most.
LEMMA OneList ==
    ASSUME NEW f, NEW s \in Seq(Modules), NEW t \in Seq(Modules), Leads(f, s), Leads(f, t)
    PROVE  s = t
<1> USE StreamLinksAssumption
<1> DEFINE D == {n \in 1 .. Len(s) : n > Len(t) \/ s[n] # t[n]}
<1>1. /\ Len(s) \in Nat /\ \A n \in 1 .. Len(s) : s[n] \in Modules
      /\ Len(t) \in Nat /\ \A n \in 1 .. Len(t) : t[n] \in Modules
      /\ s = <<>> <=> Len(s) = 0
      /\ t = <<>> <=> Len(t) = 0
  BY EmptySeq
<1>2. D = {}
  <2> SUFFICES ASSUME D # {} PROVE FALSE
    OBVIOUS
  <2>1. PICK n \in D : \A k \in D : n <= k
    <3>1. D \subseteq Nat
      BY <1>1
    <3> HIDE DEF D
    <3> QED
      BY <3>1, LeastNatural
  <2>2. n \in 1 .. Len(s) /\ (n > Len(t) \/ s[n] # t[n])
    BY <2>1
  <2>3. CASE n = 1
    BY <1>1, <2>2, <2>3 DEF Leads
  <2>4. CASE n # 1
    <3>1. n - 1 \in 1 .. Len(s) /\ n - 1 # Len(s) /\ n - 1 \notin D
      BY <1>1, <2>1, <2>2, <2>4
    <3>2. n - 1 \in 1 .. Len(t) /\ s[n - 1] = t[n - 1]
      BY <1>1, <3>1
    <3>3. f[s[n - 1]] = s[n]
      BY <1>1, <2>2, <3>1 DEF Leads
    <3>4. f[t[n - 1]] = IF n - 1 = Len(t) THEN StreamTail ELSE t[n]
      <4>1. f[t[n - 1]] = IF n - 1 = Len(t) THEN StreamTail ELSE t[(n - 1) + 1]
        BY <3>2 DEF Leads
      <4>2. (n - 1) + 1 = n
        BY <1>1, <2>2
      <4> QED
        BY <4>1, <4>2
    <3> QED
      BY <1>1, <2>2, <3>2, <3>3, <3>4
  <2> QED
    BY <2>3, <2>4
<1>3. Len(s) <= Len(t) /\ \A n \in 1 .. Len(s) : s[n] = t[n]
  <2>1. \A n \in 1 .. Len(s) : n <= Len(t) /\ s[n] = t[n]
    BY <1>1, <1>2
  <2>2. CASE Len(s) = 0
    BY <1>1, <2>1, <2>2
  <2>3. CASE Len(s) # 0
    <3>1. Len(s) \in 1 .. Len(s)
      BY <1>1, <2>3
    <3> QED
      BY <2>1, <3>1
  <2> QED
    BY <2>1, <2>2, <2>3
<1>4. Len(s) = Len(t)
  <2> SUFFICES ASSUME Len(s) < Len(t) PROVE FALSE
    BY <1>1, <1>3
  <2>1. Len(s) + 1 \in 1 .. Len(t)
    BY <1>1
  <2>2. CASE Len(s) = 0
    BY <1>1, <2>1, <2>2 DEF Leads
  <2>3. CASE Len(s) # 0
    <3>1. Len(s) \in 1 .. Len(s) /\ Len(s) \in 1 .. Len(t) /\ Len(s) # Len(t)
      BY <1>1, <2>3
    <3>2. f[s[Len(s)]] = StreamTail
      BY <3>1 DEF Leads
    <3>3. f[t[Len(s)]] = t[Len(s) + 1]
      BY <3>1 DEF Leads
    <3> QED
      BY <1>1, <1>3, <2>1, <3>1, <3>2, <3>3
  <2> QED
    BY <2>2, <2>3
<1> QED
  BY <1>3, <1>4, SeqEqual

NoDuplicate(s) == \A i, j \in 1 .. Len(s) : s[i] = s[j] => i = j

\* The owner's list is the sequence it leads along.
LEMMA AlongIs ==
    ASSUME NEW f, NEW s \in Seq(Modules), NoDuplicate(s), Leads(f, s)
    PROVE  Along(f) = s
<1> USE StreamLinksAssumption
<1> DEFINE Bounded == UNION {[1 .. n -> Modules] : n \in 0 .. Cardinality(Modules)}
<1>1. Len(s) \in Nat /\ s \in [1 .. Len(s) -> Modules]
  OBVIOUS
<1>2. s \in Injection(1 .. Len(s), Modules)
  BY <1>1 DEF NoDuplicate, Injection, IsInjective
<1>3. Len(s) <= Cardinality(Modules) /\ Cardinality(Modules) \in Nat
  <2>1. Cardinality(1 .. Len(s)) = Len(s)
    BY <1>1, FS_Interval
  <2> QED
    BY <1>2, <2>1, FS_Injection, FS_CardinalityType
<1>4. s \in Bounded
  BY <1>1, <1>3
<1>5. Bounded \subseteq Seq(Modules)
  OBVIOUS
<1>6. \A t \in Bounded : Leads(f, t) => t = s
  BY <1>5, OneList
<1>7. Along(f) = CHOOSE t \in Bounded : Leads(f, t)
  BY DEF Along
<1> HIDE DEF Bounded
<1> QED
  BY <1>4, <1>6, <1>7

\* The owner's list is finite, and leads through the listed modules alone; close() is
\* not called while a module is pushed.
StackInv ==
    /\ \E s \in Seq(Listed) : Leads(next, s) /\ NoDuplicate(s)
    /\ closing => ~Pushing /\ step \notin {"linkReader", "pop"}
    /\ step = "closed" => closing

LEMMA ListedAlong ==
    ASSUME NEW s \in Seq(Listed), Leads(next, s), NoDuplicate(s)
    PROVE  s \in Seq(Modules) /\ Along(next) = s
<1>1. Listed \subseteq Modules
  BY DEF Listed, Present
<1>2. s \in Seq(Modules)
  BY <1>1
<1> QED
  BY <1>2, AlongIs

LEMMA InitStack == Init => StackInv
<1> SUFFICES ASSUME Init PROVE StackInv
  OBVIOUS
<1> USE StreamLinksAssumption
<1>1. step = "rest" /\ ~closing /\ next[StreamHead] = StreamTail
  BY DEF Init
<1>2. <<>> \in Seq(Listed) /\ Len(<<>>) = 0
  BY EmptySeq
<1>3. Leads(next, <<>>) /\ NoDuplicate(<<>>)
  BY <1>1, <1>2 DEF Leads, NoDuplicate
<1> QED
  BY <1>1, <1>2, <1>3 DEF StackInv, Pushing

\* Module::link() puts the module that is pushed at the top of the list ...
LEMMA LinkStack ==
    ASSUME LinksInv, StackInv, Link
    PROVE  /\ \E s \in Seq(Listed') : Leads(next', s) /\ NoDuplicate(s)
           /\ Along(next') = <<module>> \o Along(next)
<1> USE StreamLinksAssumption
<1>1. step = "link" /\ step' = "linkReader"
      /\ next' = [next EXCEPT ![StreamHead] = module, ![module] = next[StreamHead]]
      /\ UNCHANGED <<life, module>>
  BY DEF Link, SetNext
<1>2. OwnerTypes /\ ModuleInv
  BY <1>1 DEF LinksInv
<1>3. module \in Present /\ Pushing /\ ~Pushing' /\ ~Popping /\ ~Popping'
  BY <1>1, <1>2 DEF ModuleInv, Pushing, Popping
<1>4. /\ Listed' = Listed \cup {module} /\ Listed \subseteq Modules
      /\ module \in Modules /\ module \notin Listed
  BY <1>1, <1>3 DEF Listed, Present
<1>5. next'[StreamHead] = module /\ next'[module] = next[StreamHead]
      /\ \A m \in Listed : next'[m] = next[m]
  BY <1>1, <1>2, <1>4 DEF OwnerTypes
<1>6. PICK s \in Seq(Listed) : Leads(next, s) /\ NoDuplicate(s)
  BY DEF StackInv
<1>7. Along(next) = s
  BY <1>6, ListedAlong
<1> DEFINE t == <<module>> \o s
<1>8. /\ t \in Seq(Listed \cup {module}) /\ Len(t) = Len(s) + 1 /\ Len(s) \in Nat
      /\ t[1] = module /\ \A n \in 1 .. Len(s) : t[n + 1] = s[n] /\ s[n] \in Listed
  <2>1. <<module>> \in Seq(Listed \cup {module}) /\ s \in Seq(Listed \cup {module})
        /\ Len(<<module>>) = 1 /\ <<module>>[1] = module
    OBVIOUS
  <2>2. /\ t \in Seq(Listed \cup {module}) /\ Len(t) = Len(<<module>>) + Len(s)
        /\ \A n \in 1 .. Len(<<module>>) + Len(s) :
               t[n] = IF n <= Len(<<module>>) THEN <<module>>[n] ELSE s[n - Len(<<module>>)]
    BY <2>1, ConcatProperties
  <2>3. Len(s) \in Nat /\ \A n \in 1 .. Len(s) : s[n] \in Listed
    OBVIOUS
  <2> HIDE DEF t
  <2> QED
    BY <2>1, <2>2, <2>3
<1>9. \A n \in 1 .. Len(t) : n = 1 \/ (n - 1 \in 1 .. Len(s) /\ t[n] = s[n - 1])
  <2> SUFFICES ASSUME NEW n \in 1 .. Len(t), n # 1
               PROVE  n - 1 \in 1 .. Len(s) /\ t[n] = s[n - 1]
    OBVIOUS
  <2>1. n - 1 \in 1 .. Len(s) /\ (n - 1) + 1 = n
    BY <1>8
  <2> QED
    BY <1>8, <2>1
<1>10. NoDuplicate(t)
  <2> SUFFICES ASSUME NEW i \in 1 .. Len(t), NEW j \in 1 .. Len(t), t[i] = t[j]
               PROVE  i = j
    BY DEF NoDuplicate
  <2> HIDE DEF t
  <2>1. i = 1 <=> j = 1
    BY <1>4, <1>8, <1>9
  <2>2. CASE i # 1 /\ j # 1
    <3>1. s[i - 1] = s[j - 1] /\ i - 1 \in 1 .. Len(s) /\ j - 1 \in 1 .. Len(s)
      BY <1>9, <2>2
    <3>2. i - 1 = j - 1
      BY <1>6, <3>1 DEF NoDuplicate
    <3> QED
      BY <1>8, <3>2
  <2> QED
    BY <2>1, <2>2
<1>11. Leads(next', t)
  <2>1. t # <<>> /\ next'[StreamHead] = t[1]
    BY <1>5, <1>8
  <2> HIDE DEF t
  <2>2. ASSUME NEW n \in 1 .. Len(t)
        PROVE  next'[t[n]] = IF n = Len(t) THEN StreamTail ELSE t[n + 1]
    <3>1. CASE n = 1
      <4>1. next'[t[n]] = IF s = <<>> THEN StreamTail ELSE s[1]
        BY <1>5, <1>6, <1>8, <3>1 DEF Leads
      <4>2. s = <<>> <=> Len(s) = 0
        BY EmptySeq
      <4>3. Len(s) # 0 => t[n + 1] = s[1]
        BY <1>8, <3>1
      <4> QED
        BY <1>8, <3>1, <4>1, <4>2, <4>3
    <3>2. CASE n # 1
      <4>1. n - 1 \in 1 .. Len(s) /\ t[n] = s[n - 1] /\ s[n - 1] \in Listed
        BY <1>8, <1>9, <3>2
      <4>2. next'[t[n]] = IF n - 1 = Len(s) THEN StreamTail ELSE s[(n - 1) + 1]
        BY <1>5, <1>6, <4>1 DEF Leads
      <4>3. CASE n = Len(t)
        BY <1>8, <4>2, <4>3
      <4>4. CASE n # Len(t)
        <5>1. n \in 1 .. Len(s) /\ (n - 1) + 1 = n /\ n - 1 # Len(s)
          BY <1>8, <4>1, <4>4
        <5> QED
          BY <1>8, <4>2, <4>4, <5>1
      <4> QED
        BY <4>3, <4>4
    <3> QED
      BY <3>1, <3>2
  <2> QED
    BY <2>1, <2>2 DEF Leads
<1>12. t \in Seq(Modules)
  <2>1. Listed \cup {module} \subseteq Modules
    BY <1>4
  <2> HIDE DEF t
  <2> QED
    BY <1>8, <2>1
<1>13. Along(next') = t
  <2> HIDE DEF t
  <2> QED
    BY <1>10, <1>11, <1>12, AlongIs
<1>14. \E u \in Seq(Listed') : Leads(next', u) /\ NoDuplicate(u)
  <2> HIDE DEF t
  <2> QED
    BY <1>4, <1>8, <1>10, <1>11
<1> QED
  BY <1>7, <1>13, <1>14

\* ... and Stream::pop() takes the top one off.
LEMMA PopStack ==
    ASSUME LinksInv, StackInv, Pop
    PROVE  /\ \E s \in Seq(Listed') : Leads(next', s) /\ NoDuplicate(s)
           /\ Along(next) # <<>> /\ Along(next') = Tail(Along(next))
<1> USE StreamLinksAssumption
<1> DEFINE top == next[StreamHead]
<1>1. /\ step \in {"rest", "pop"} /\ step' = "stopReader" /\ module' = top
      /\ step = "rest" => top # StreamTail
      /\ next' = [next EXCEPT ![StreamHead] = next[top]]
      /\ UNCHANGED life
  BY DEF Pop
<1>2. OwnerTypes /\ ModuleInv /\ ListInv
  BY <1>1 DEF LinksInv
<1>3. top # StreamTail /\ ~Pushing /\ ~Pushing' /\ ~Popping /\ Popping'
  BY <1>1, <1>2 DEF ModuleInv, Pushing, Popping
<1>4. Listed' = Listed \ {top} /\ Listed \subseteq Modules
  BY <1>1, <1>3 DEF Listed, Present
<1>5. next'[StreamHead] = next[top] /\ \A m \in Listed : next'[m] = next[m]
  BY <1>1, <1>2, <1>4 DEF OwnerTypes
<1>6. PICK s \in Seq(Listed) : Leads(next, s) /\ NoDuplicate(s)
  BY DEF StackInv
<1>7. Along(next) = s
  BY <1>6, ListedAlong
<1>8. s # <<>> /\ s[1] = top
  BY <1>3, <1>6 DEF Leads
<1> DEFINE t == Tail(s)
<1>9. /\ t \in Seq(Listed) /\ Len(s) \in Nat \ {0} /\ Len(t) = Len(s) - 1
      /\ \A n \in 1 .. Len(t) : t[n] = s[n + 1] /\ n + 1 \in 1 .. Len(s)
      /\ \A n \in 1 .. Len(s) : s[n] \in Listed
      /\ t = <<>> <=> Len(t) = 0
  <2>1. Len(s) \in Nat \ {0}
    BY <1>8, EmptySeq
  <2>2. t \in Seq(Listed) /\ Len(t) = Len(s) - 1 /\ \A n \in 1 .. Len(t) : t[n] = s[n + 1]
    BY <1>8, <2>1, HeadTailProperties
  <2>3. \A n \in 1 .. Len(s) : s[n] \in Listed
    OBVIOUS
  <2>4. t = <<>> <=> Len(t) = 0
    BY <2>2, EmptySeq
  <2> HIDE DEF t
  <2> QED
    BY <2>1, <2>2, <2>3, <2>4
<1> HIDE DEF t
<1>10. \A n \in 1 .. Len(t) : t[n] \in Listed \ {top}
  <2> SUFFICES ASSUME NEW n \in 1 .. Len(t) PROVE t[n] # top
    BY <1>9
  <2>1. n + 1 \in 1 .. Len(s) /\ 1 \in 1 .. Len(s) /\ n + 1 # 1 /\ t[n] = s[n + 1]
    BY <1>9
  <2> QED
    BY <1>6, <1>8, <2>1 DEF NoDuplicate
<1>11. t \in Seq(Listed \ {top}) /\ t \in Seq(Modules)
  <2>1. Len(t) \in Nat
    BY <1>9
  <2>2. t \in [1 .. Len(t) -> Listed \ {top}]
    BY <1>9, <1>10
  <2>3. Listed \ {top} \subseteq Modules
    BY <1>4
  <2>4. t \in [1 .. Len(t) -> Modules]
    BY <2>2, <2>3
  <2> QED
    BY <2>1, <2>2, <2>4
<1>12. NoDuplicate(t)
  <2> SUFFICES ASSUME NEW i \in 1 .. Len(t), NEW j \in 1 .. Len(t), t[i] = t[j]
               PROVE  i = j
    BY DEF NoDuplicate
  <2>1. s[i + 1] = s[j + 1] /\ i + 1 \in 1 .. Len(s) /\ j + 1 \in 1 .. Len(s)
    BY <1>9
  <2>2. i + 1 = j + 1
    BY <1>6, <2>1 DEF NoDuplicate
  <2> QED
    BY <2>2
<1>13. Leads(next', t)
  <2>1. next'[StreamHead] = IF t = <<>> THEN StreamTail ELSE t[1]
    <3>1. 1 \in 1 .. Len(s)
      BY <1>9
    <3>2. next[s[1]] = IF 1 = Len(s) THEN StreamTail ELSE s[1 + 1]
      BY <1>6, <3>1 DEF Leads
    <3>3. 1 # Len(s) => 1 \in 1 .. Len(t)
      BY <1>9
    <3> QED
      BY <1>5, <1>8, <1>9, <3>2, <3>3
  <2>2. ASSUME NEW n \in 1 .. Len(t)
        PROVE  next'[t[n]] = IF n = Len(t) THEN StreamTail ELSE t[n + 1]
    <3>1. n + 1 \in 1 .. Len(s) /\ t[n] = s[n + 1] /\ s[n + 1] \in Listed
      BY <1>9
    <3>2. next'[t[n]] = IF n + 1 = Len(s) THEN StreamTail ELSE s[(n + 1) + 1]
      BY <1>5, <1>6, <3>1 DEF Leads
    <3>3. n + 1 = Len(s) <=> n = Len(t)
      BY <1>9
    <3>4. n # Len(t) => t[n + 1] = s[(n + 1) + 1]
      BY <1>9
    <3> QED
      BY <3>2, <3>3, <3>4
  <2> QED
    BY <2>1, <2>2 DEF Leads
<1>14. Along(next') = t
  BY <1>11, <1>12, <1>13, AlongIs
<1>15. Along(next') = Tail(Along(next))
  BY <1>7, <1>14 DEF t
<1> QED
  BY <1>4, <1>7, <1>8, <1>11, <1>12, <1>13, <1>15

\* Every other step leaves the list alone, and takes nothing off it.
LEMMA ListKept ==
    ASSUME LinksInv, StackInv, [Next]_vars, ~Link, ~Pop
    PROVE  /\ next' = next
           /\ \E s \in Seq(Listed') : Leads(next', s) /\ NoDuplicate(s)
<1>1. next' = next /\ Listed \subseteq Listed'
  <2>1. CASE UNCHANGED owner
    BY <2>1 DEF owner, links, Listed, Present, Pushing, Popping
  <2>2. CASE \E m \in Modules : BeginPush(m)
    <3>1. PICK m \in Modules : BeginPush(m)
      BY <2>2
    <3>2. /\ step = "rest" /\ step' = "pushReader" /\ life[m] = "unused" /\ module' = m
          /\ life' = [life EXCEPT ![m] = "pushed"] /\ next' = next
      BY <3>1 DEF BeginPush, Begin, AtRest
    <3>3. life \in [Modules -> {"unused", "pushed", "deleted"}]
      BY <3>2 DEF LinksInv, OwnerTypes
    <3> QED
      BY <3>2, <3>3 DEF Listed, Present, Pushing, Popping
  <2>3. CASE BeginPop \/ BeginClose \/ CloseEnds
    BY <2>3 DEF BeginPop, BeginClose, CloseEnds, Begin, AtRest, Listed, Present, Pushing, Popping
  <2>4. CASE RelinkReader
    BY <2>4 DEF RelinkReader, SetNext, LinksInv, OwnerTypes, Listed, Present, Pushing, Popping
  <2>5. CASE PushReader \/ PushWriter \/ LinkReader \/ RelinkWriter
    BY <2>5 DEF PushReader, PushWriter, LinkReader, RelinkWriter, SetNext, Listed, Present,
       Pushing, Popping
  <2>6. CASE \/ StopTask("stopReader", "unlinkReader", Reader(module))
             \/ Unlink("unlinkReader", "joinReader", Reader(module))
             \/ Join("joinReader", "stopWriter", Reader(module))
             \/ StopTask("stopWriter", "unlinkWriter", Writer(module))
             \/ Unlink("unlinkWriter", "joinWriter", Writer(module))
             \/ Join("joinWriter", "relinkWriter", Writer(module))
    BY <2>6 DEF StopTask, Unlink, Join, SetNext, links, Listed, Present, Pushing, Popping
  <2> QED
    BY <2>1, <2>2, <2>3, <2>4, <2>5, <2>6 DEF Next, OwnerStep, OwnerPuts, OwnerGets, Work,
       ThreadStep, TestNext, CallNext, Reply, TestStop, GetQ, vars
<1>2. PICK s \in Seq(Listed) : Leads(next, s) /\ NoDuplicate(s)
  BY DEF StackInv
<1>3. s \in Seq(Listed')
  BY <1>1, <1>2
<1> QED
  BY <1>1, <1>2, <1>3

\* The owner's steps by what they do to the stack.
Taking ==
    \/ StopTask("stopReader", "unlinkReader", Reader(module))
    \/ Unlink("unlinkReader", "joinReader", Reader(module))
    \/ Join("joinReader", "stopWriter", Reader(module))
    \/ StopTask("stopWriter", "unlinkWriter", Writer(module))
    \/ Unlink("unlinkWriter", "joinWriter", Writer(module))
    \/ Join("joinWriter", "relinkWriter", Writer(module))
    \/ RelinkWriter \/ RelinkReader

LEMMA StackStep == LinksInv /\ StackInv /\ [Next]_vars => StackInv'
<1> SUFFICES ASSUME LinksInv, StackInv, [Next]_vars PROVE StackInv'
  OBVIOUS
<1>1. \E s \in Seq(Listed') : Leads(next', s) /\ NoDuplicate(s)
  BY LinkStack, PopStack, ListKept
<1>2. (closing => ~Pushing /\ step \notin {"linkReader", "pop"})' /\ (step = "closed" => closing)'
  <2>1. /\ closing => ~Pushing /\ step \notin {"linkReader", "pop"}
        /\ step = "closed" => closing
    BY DEF StackInv
  <2>2. CASE UNCHANGED owner
    BY <2>1, <2>2 DEF owner, links, Pushing
  <2>3. CASE BeginPop \/ BeginClose \/ CloseEnds \/ Pop \/ \E m \in Modules : BeginPush(m)
    BY <2>1, <2>3 DEF BeginPop, BeginClose, BeginPush, CloseEnds, Pop, Begin, AtRest, Pushing
  <2>4. CASE PushReader \/ PushWriter \/ Link \/ LinkReader
    BY <2>1, <2>4 DEF PushReader, PushWriter, Link, LinkReader, SetNext, Pushing
  <2>5. CASE Taking
    BY <2>1, <2>5 DEF Taking, StopTask, Unlink, Join, RelinkWriter, RelinkReader, SetNext, Pushing
  <2> QED
    BY <2>2, <2>3, <2>4, <2>5 DEF Next, OwnerStep, OwnerPuts, OwnerGets, Work,
       ThreadStep, TestNext, CallNext, Reply, TestStop, GetQ, vars, Taking
<1> QED
  BY <1>1, <1>2 DEF StackInv

LEMMA StackSteps ==
    ASSUME TypeInv, QuietInv, StackInv, QuietInv', TypeInv', [Next]_vars
    PROVE  [Stack!Next]_(Stack!vars)
<1> USE StreamLinksAssumption
<1>1. /\ LinksInv /\ disturbed \in BOOLEAN /\ crashed \in BOOLEAN /\ closing \in BOOLEAN
      /\ disturbed' \in BOOLEAN /\ crashed' \in BOOLEAN
  BY DEF TypeInv, LinksInv, OwnerTypes, TrafficTypes
<1>2. CASE Link /\ ~crashed
  <2>1. /\ step = "link" /\ step' = "linkReader" /\ UNCHANGED <<closing, disturbed, crashed>>
    BY <1>2 DEF Link, SetNext
  <2>2. ~closing
    BY <2>1 DEF StackInv, Pushing
  <2>3. module \in Modules
    BY <1>1, <2>1 DEF LinksInv, ModuleInv, Pushing, Present
  <2>4. Phase = "open" /\ Phase' = "open"
    BY <1>2, <2>1, <2>2 DEF Phase
  <2>5. Along(next') = <<module>> \o Along(next)
    BY <1>1, <1>2, LinkStack
  <2>6. Stack!Push(module)
    BY <2>1, <2>4, <2>5 DEF Stack!Push
  <2> QED
    BY <2>3, <2>6 DEF Stack!Next
<1>3. CASE Pop /\ ~crashed
  <2>1. step # "closed" /\ step' # "closed" /\ UNCHANGED <<closing, disturbed, crashed>>
    BY <1>3 DEF Pop, traffic
  <2>2. Phase \in {"open", "closing"} /\ Phase' = Phase
    BY <1>3, <2>1 DEF Phase
  <2>3. Along(next) # <<>> /\ Along(next') = Tail(Along(next))
    BY <1>1, <1>3, PopStack
  <2> QED
    BY <2>1, <2>2, <2>3 DEF Stack!Next, Stack!Pop
<1>4. CASE CloseEnds /\ ~crashed
  <2>1. /\ closing /\ step = "rest" /\ next[StreamHead] = StreamTail /\ step' = "closed"
        /\ UNCHANGED <<next, closing, disturbed, crashed>>
    BY <1>4 DEF CloseEnds
  <2>2. Phase = "closing" /\ Phase' = "closed"
    BY <1>4, <2>1 DEF Phase
  <2>3. Along(next) = <<>>
    <3>1. PICK s \in Seq(Listed) : Leads(next, s) /\ NoDuplicate(s)
      BY DEF StackInv
    <3>2. s \in Seq(Modules) /\ Along(next) = s
      BY <3>1, ListedAlong
    <3>3. s # <<>> => s[1] \in Modules
      BY <3>2, EmptySeq
    <3>4. s = <<>>
      BY <2>1, <3>1, <3>3 DEF Leads
    <3> QED
      BY <3>2, <3>4
  <2> QED
    BY <2>1, <2>2, <2>3 DEF Stack!Next, Stack!Close
<1>5. CASE BeginClose /\ ~crashed
  <2>1. /\ step = "rest" /\ step' = "rest" /\ ~closing /\ closing' = TRUE
        /\ disturbed' = (disturbed \/ Traffic) /\ UNCHANGED <<next, crashed>>
    BY <1>5 DEF BeginClose, Begin, AtRest
  <2>2. Phase = "open" /\ Phase' = "closing"
    BY <1>5, <2>1 DEF Phase
  <2>3. disturbed' \in {disturbed, TRUE}
    BY <1>1, <2>1
  <2> QED
    BY <2>1, <2>2, <2>3 DEF Stack!Next, Stack!BeginClose
<1>6. CASE (BeginPop \/ \E m \in Modules : BeginPush(m)) /\ ~crashed
  <2>1. /\ step = "rest" /\ step' # "closed" /\ ~closing /\ ~closing'
        /\ disturbed' = (disturbed \/ Traffic) /\ UNCHANGED <<next, crashed>>
    BY <1>6 DEF BeginPop, BeginPush, Begin, AtRest
  <2>2. Phase = "open" /\ Phase' = "open"
    BY <1>6, <2>1 DEF Phase
  <2>3. disturbed' = disturbed \/ disturbed' = TRUE
    BY <1>1, <2>1
  <2> QED
    BY <2>1, <2>2, <2>3 DEF Stack!Next, Stack!Expose, Stack!vars
<1>7. CASE (PushReader \/ PushWriter \/ LinkReader \/ Taking) /\ ~crashed
  <2>1. step # "closed" /\ step' # "closed" /\ UNCHANGED <<next, closing, disturbed, crashed>>
    BY <1>7 DEF PushReader, PushWriter, LinkReader, Taking, StopTask, Unlink, Join,
       RelinkWriter, RelinkReader, SetNext, links
  <2>2. Phase' = Phase
    BY <2>1 DEF Phase
  <2> QED
    BY <2>1, <2>2 DEF Stack!vars
<1>8. CASE UNCHANGED owner /\ ~crashed
  <2>1. UNCHANGED <<next, step, closing, disturbed>>
    BY <1>8 DEF owner, links
  <2>2. CASE crashed'
    <3>1. disturbed /\ Phase' = "broken"
      BY <1>1, <2>1, <2>2 DEF QuietInv, Phase
    <3> QED
      BY <1>1, <2>1, <3>1 DEF Stack!Next, Stack!Break
  <2>3. CASE ~crashed'
    <3>1. Phase' = Phase
      BY <1>8, <2>1, <2>3 DEF Phase
    <3> QED
      BY <2>1, <3>1 DEF Stack!vars
  <2> QED
    BY <2>2, <2>3
<1>9. CASE UNCHANGED vars
  <2>1. UNCHANGED <<next, disturbed>> /\ Phase' = Phase
    BY <1>9 DEF vars, owner, links, Phase
  <2> QED
    BY <2>1 DEF Stack!vars
<1> QED
  BY <1>2, <1>3, <1>4, <1>5, <1>6, <1>7, <1>8, <1>9 DEF Next, OwnerStep, OwnerPuts, OwnerGets,
     Work, ThreadStep, TestNext, CallNext, Reply, TestStop, GetQ, Taking

\* Every step of the owner and of the threads of the tasks is a step of ModuleStack or
\* leaves its stack as it is, for every set of modules: what is pushed last is popped
\* first, close() pops them all, and a thread breaks only a stream that was changed
\* with messages on their way (Stream.cpp:58-172).
THEOREM ImplementsStackHolds == Spec => ImplementsStack
<1>1. Init => Stack!Init
  <2> SUFFICES ASSUME Init PROVE Stack!Init
    OBVIOUS
  <2>1. next[StreamHead] = StreamTail /\ disturbed = FALSE /\ Phase = "open"
    BY StreamLinksAssumption DEF Init, Phase
  <2>2. <<>> \in Seq(Modules) /\ Len(<<>>) = 0
    BY EmptySeq
  <2>3. Leads(next, <<>>) /\ NoDuplicate(<<>>)
    BY <2>1, <2>2 DEF Leads, NoDuplicate
  <2>4. Along(next) = <<>>
    BY <2>2, <2>3, AlongIs
  <2> QED
    BY <2>1, <2>4 DEF Stack!Init
<1>2. Init => TypeInv /\ QuietInv /\ StackInv
  BY InitTypes, InitQuiet, InitStack
<1>3. TypeInv /\ QuietInv /\ StackInv /\ [Next]_vars => (TypeInv /\ QuietInv /\ StackInv)'
  BY TypeStep, QuietStep, StackStep DEF TypeInv
<1>4. TypeInv /\ QuietInv /\ StackInv /\ (TypeInv /\ QuietInv /\ StackInv)' /\ [Next]_vars
      => [Stack!Next]_(Stack!vars)
  BY StackSteps
<1> QED
  BY <1>1, <1>2, <1>3, <1>4, PTL DEF Spec, ImplementsStack, Stack!Spec
===============================================================================
