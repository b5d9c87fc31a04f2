------------------------------ MODULE StreamLinks ------------------------------
(***************************************************************************)
(* A Stream and its modules (framework/stream/1_0): each module is a pair  *)
(* of tasks, linked to the tasks of its neighbours on the two sides of the *)
(* stream.  One thread, the owner, pushes and pops modules and closes the  *)
(* stream, link by link, while the threads of the tasks follow the same    *)
(* links without any lock: each read and write of a link is a step.        *)
(*                                                                         *)
(* The owner's own list of modules (Module::mNext) is read by no other     *)
(* thread, so that its changes are part of the neighbouring steps.         *)
(***************************************************************************)
EXTENDS Naturals, FiniteSets, Sequences

CONSTANTS
    Modules,        \* the modules a user pushes
    StreamHead,     \* the modules at the two ends
    StreamTail,
    None,           \* nullptr
    Owner,          \* the thread that builds and closes the stream
    Active,         \* tasks with a thread of their own; the others hand on
    Repliers,       \* those that answer through their sibling, as ResponseMessage
    MaxPuts         \* bound: messages the owner puts

Sides == {"reader", "writer"}
Tasks == (Modules \cup {StreamHead, StreamTail}) \X Sides
Threads == Active \cup {Owner}

Reader(m)  == <<m, "reader">>
Writer(m)  == <<m, "writer">>
Sibling(t) == IF t[2] = "reader" THEN Writer(t[1]) ELSE Reader(t[1])

ASSUME StreamLinksAssumption ==
    /\ StreamHead \notin Modules /\ StreamTail \notin Modules /\ StreamHead # StreamTail
    /\ None \notin Modules \cup {StreamHead, StreamTail} \cup Tasks
    /\ Owner \notin Active
    /\ Active \subseteq Modules \X Sides
    /\ Repliers \subseteq {t \in Active : t[2] = "reader"}
    /\ IsFiniteSet(Modules)
    /\ MaxPuts \in Nat

VARIABLES
    next,           \* Module::mNext
    nextTask,       \* Task::mNext
    life,           \* what became of each module
    deleted,        \* tasks whose memory was given back
    step,           \* what the owner does next, see Steps
    closing,        \* is it in Stream::close()?
    module,         \* the module that is pushed or popped
    worker,         \* the thread of each task
    stopped,        \* tasks whose mStopThread and mStopRequested are set
    queue,          \* number of messages in the queue of each task
    hop,            \* the put() each thread is in, or None
    puts,           \* messages the owner has put
    lost,           \* was a message dropped?
    disturbed,      \* was the stream changed with messages on their way?
    crashed         \* did a thread use a null pointer or a deleted task?

links   == <<next, nextTask, life, deleted, module>>
owner   == <<links, step, closing, stopped, disturbed>>
traffic == <<worker, queue, hop, puts>>
vars    == <<owner, traffic, lost, crashed>>

\* Where the owner is: at rest, or about to set a link, or to take a task down.
Steps == {"rest", "pushReader", "pushWriter", "link", "linkReader",
          "pop", "stopReader", "unlinkReader", "joinReader",
          "stopWriter", "unlinkWriter", "joinWriter", "relinkWriter", "relinkReader",
          "closed"}

\* A thread is in a put() or putNext() of a task: about to call put() of its
\* sibling, to test mNext, or to call through it; left are the calls to come.
Hops == [in : Tasks, at : {"reply", "test", "call"}, left : {0, 1}]

\* The type of every variable; a thread never runs on, let alone uses a link of,
\* a task of its own that was deleted: it is joined before (Module.cpp:186-188).
TypeOK ==
    /\ next \in [Modules \cup {StreamHead, StreamTail} -> Modules \cup {StreamTail, None}]
    /\ nextTask \in [Tasks -> Tasks \cup {None}]
    /\ life \in [Modules -> {"unused", "pushed", "deleted"}]
    /\ deleted \subseteq Tasks
    /\ step \in Steps
    /\ closing \in BOOLEAN
    /\ module \in Modules \cup {None}
    /\ worker \in [Active -> {"none", "test", "getQ", "done"}]
    /\ stopped \subseteq Active
    /\ queue \in [Tasks -> Nat]
    /\ hop \in [Threads -> Hops \cup {None}]
    /\ puts \in 0 .. MaxPuts
    /\ lost \in BOOLEAN /\ disturbed \in BOOLEAN /\ crashed \in BOOLEAN
    /\ \A t \in Active \cap deleted : worker[t] = "done" /\ hop[t] = None

\* Stream::Stream() has opened the stream: head and tail are pushed and linked.
Init ==
    /\ next = [m \in Modules \cup {StreamHead, StreamTail} |->
                  IF m = StreamHead THEN StreamTail ELSE None]
    /\ nextTask = [t \in Tasks |->
                      CASE t = Writer(StreamHead) -> Writer(StreamTail)
                        [] t = Reader(StreamTail) -> Reader(StreamHead)
                        [] OTHER -> None]
    /\ life = [m \in Modules |-> "unused"]
    /\ deleted = {}
    /\ step = "rest" /\ closing = FALSE /\ module = None
    /\ worker = [t \in Active |-> "none"]
    /\ stopped = {}
    /\ queue = [t \in Tasks |-> 0]
    /\ hop = [p \in Threads |-> None]
    /\ puts = 0
    /\ lost = FALSE /\ disturbed = FALSE /\ crashed = FALSE
-------------------------------------------------------------------------------
(* Messages.  Bug... are seeded errors, as in MessageQueue.                *)

\* StreamHead's writer and tasks without a thread hand a message on; those with one
\* and StreamHead's reader queue it; StreamTail drops it, as the end of its way.
HandsOn(t) == t \notin Active /\ (t[1] \in Modules \/ t = Writer(StreamHead))
Queues(t)  == t \in Active \/ t = Reader(StreamHead)

\* A call of thread p's has returned: it makes the next one, or is done.
Return(p, left) ==
    hop' = [hop EXCEPT ![p] = IF left = 1 THEN [in |-> p, at |-> "test", left |-> 0]
                              ELSE None]

\* Thread p calls put() of task t, with calls left to make after it.
Put(p, t, left) ==
    \/ /\ t \in deleted
       /\ crashed' = TRUE
       /\ UNCHANGED <<hop, queue, lost>>
    \/ /\ t \notin deleted /\ HandsOn(t)
       /\ hop' = [hop EXCEPT ![p] = [in |-> t, at |-> "test", left |-> left]]
       /\ UNCHANGED <<queue, lost, crashed>>
    \/ /\ t \notin deleted /\ Queues(t)
       /\ IF t \in stopped THEN lost' = TRUE /\ UNCHANGED queue
          ELSE queue' = [queue EXCEPT ![t] = @ + 1] /\ UNCHANGED lost
       /\ Return(p, left)
       /\ UNCHANGED crashed
    \/ /\ t \notin deleted /\ t[1] = StreamTail
       /\ Return(p, left)
       /\ UNCHANGED <<queue, lost, crashed>>

\* putNext() tests mNext, and without one answers -1, which nobody looks at ...
TestNext(p) ==
    /\ hop[p] # None /\ hop[p].at = "test"
    /\ LET t == hop[p].in IN
       IF t \in deleted THEN crashed' = TRUE /\ UNCHANGED <<hop, lost>>
       ELSE /\ IF nextTask[t] = None THEN lost' = TRUE /\ Return(p, hop[p].left)
               ELSE hop' = [hop EXCEPT ![p].at = "call"] /\ UNCHANGED lost
            /\ UNCHANGED crashed
    /\ UNCHANGED <<owner, worker, queue, puts>>

\* ... and reads it once more for the call.
CallNext(p) ==
    /\ hop[p] # None /\ hop[p].at = "call"
    /\ LET t == hop[p].in IN
       IF t \in deleted \/ nextTask[t] = None
       THEN crashed' = TRUE /\ UNCHANGED <<hop, queue, lost>>
       ELSE Put(p, nextTask[t], hop[p].left)
    /\ UNCHANGED <<owner, worker, puts>>

\* getSibling()->put(), by a thread whose own put is to follow.
Reply(p) ==
    /\ hop[p] # None /\ hop[p].at = "reply"
    /\ Put(p, Sibling(p), 1)
    /\ UNCHANGED <<owner, worker, puts>>

\* The loop of svc() tests mStopThread, without a lock ...
TestStop(t) ==
    /\ worker[t] = "test" /\ hop[t] = None
    /\ worker' = [worker EXCEPT ![t] = IF t \in stopped THEN "done" ELSE "getQ"]
    /\ UNCHANGED <<owner, queue, hop, puts, lost, crashed>>

\* ... and getQ() answers a message, or -1 for an empty queue after a stop.
GetQ(t) ==
    /\ worker[t] = "getQ"
    /\ queue[t] > 0 \/ t \in stopped
    /\ worker' = [worker EXCEPT ![t] = "test"]
    /\ IF queue[t] = 0 THEN UNCHANGED <<queue, hop>>
       ELSE /\ queue' = [queue EXCEPT ![t] = @ - 1]
            /\ hop' = [hop EXCEPT ![t] =
                   [in |-> t, at |-> IF t \in Repliers THEN "reply" ELSE "test", left |-> 0]]
    /\ UNCHANGED <<owner, puts, lost, crashed>>

AtRest == step = "rest" /\ ~closing /\ hop[Owner] = None

\* The module at the bottom, to which ServerEventHandler keeps a pointer.
Bottom == CHOOSE m \in Modules : life[m] = "pushed" /\ next[m] = StreamTail

\* The owner puts a message in at the bottom, or by Stream::put() at the top.
OwnerPuts ==
    /\ AtRest
    /\ puts < MaxPuts
    /\ puts' = puts + 1
    /\ \/ next[StreamHead] # StreamTail /\ Put(Owner, Reader(Bottom), 0)
       \/ Put(Owner, Writer(StreamHead), 0)
    /\ UNCHANGED <<owner, worker>>

\* Stream::get(), which would block on an empty queue.
OwnerGets ==
    /\ AtRest
    /\ queue[Reader(StreamHead)] > 0
    /\ queue' = [queue EXCEPT ![Reader(StreamHead)] = @ - 1]
    /\ UNCHANGED <<owner, worker, hop, puts, lost, crashed>>
-------------------------------------------------------------------------------
(* The owner builds the stream and takes it apart.                         *)

\* Is a message on its way?
Traffic == (\E t \in Active : queue[t] > 0) \/ (\E p \in Threads : hop[p] # None)

\* An operation begins.
Begin(first, m) ==
    /\ AtRest
    /\ step' = first
    /\ module' = m
    /\ disturbed' = (disturbed \/ Traffic)
    /\ UNCHANGED <<next, nextTask, deleted, stopped, queue, hop, puts, lost, crashed>>

\* The owner goes from one step to another, and sets a link.
SetNext(from, to, t, n) ==
    /\ step = from
    /\ step' = to
    /\ nextTask' = [nextTask EXCEPT ![t] = n]
    /\ UNCHANGED <<deleted, closing, stopped, disturbed, traffic, lost, crashed>>

\* The threads of a module's tasks run since their construction.
BeginPush(m) ==
    /\ life[m] = "unused"
    /\ Begin("pushReader", m)
    /\ life' = [life EXCEPT ![m] = "pushed"]
    /\ worker' = [t \in Active |-> IF t[1] = m THEN "test" ELSE worker[t]]
    /\ UNCHANGED closing

PushReader ==
    /\ SetNext("pushReader", "pushWriter", Reader(next[StreamHead]), Reader(module))
    /\ UNCHANGED <<next, life, module>>

PushWriter ==
    /\ SetNext("pushWriter", "link", Writer(module), Writer(next[StreamHead]))
    /\ UNCHANGED <<next, life, module>>

\* Module::link() of the head; newTop->setNext() follows it.
Link ==
    /\ SetNext("link", "linkReader", Writer(StreamHead), Writer(module))
    /\ next' = [next EXCEPT ![StreamHead] = module, ![module] = next[StreamHead]]
    /\ UNCHANGED <<life, module>>

\* The reader of a module is left without its link to the head.
BugLinkReader ==
    /\ SetNext("linkReader", "rest", Reader(module), nextTask[Reader(module)])
    /\ UNCHANGED <<next, life, module>>

LinkReader ==
    /\ SetNext("linkReader", "rest", Reader(module), Reader(StreamHead))
    /\ UNCHANGED <<next, life, module>>

BeginPop ==
    /\ next[StreamHead] # StreamTail
    /\ Begin("pop", None)
    /\ UNCHANGED <<life, worker, closing>>

BeginClose ==
    /\ Begin("rest", None)
    /\ closing' = TRUE
    /\ UNCHANGED <<life, worker>>

\* Stream::pop() takes the top module off the owner's list first.
Pop ==
    /\ step = "pop" \/ (closing /\ step = "rest" /\ next[StreamHead] # StreamTail)
    /\ module' = next[StreamHead]
    /\ next' = [next EXCEPT ![StreamHead] = next[next[StreamHead]]]
    /\ step' = "stopReader"
    /\ UNCHANGED <<nextTask, life, deleted, closing, stopped, disturbed, traffic, lost, crashed>>

\* The thread is not told to stop.
BugStopTask(from, to, t) ==
    /\ step = from
    /\ step' = to
    /\ UNCHANGED <<links, closing, disturbed, stopped, traffic, lost, crashed>>

\* Module::closeImpl(): close() of a task with a thread sets mStopThread and calls
\* requestStop() ...
StopTask(from, to, t) ==
    /\ step = from
    /\ step' = to
    /\ stopped' = stopped \cup ({t} \cap Active)
    /\ UNCHANGED <<links, closing, disturbed, traffic, lost, crashed>>

\* ... then its link is cut ...
Unlink(from, to, t) ==
    /\ SetNext(from, to, t, None)
    /\ UNCHANGED <<next, life, module>>

\* The task is deleted without a wait for its thread.
BugJoin(from, to, t) ==
    /\ step = from
    /\ step' = to
    /\ deleted' = deleted \cup {t}
    /\ lost' = (lost \/ queue[t] > 0)
    /\ UNCHANGED <<next, nextTask, life, module, closing, stopped, disturbed, traffic, crashed>>

\* ... its thread joined, and the task deleted, with what is in its queue.
Join(from, to, t) ==
    /\ step = from
    /\ t \in Active => worker[t] = "done"
    /\ step' = to
    /\ deleted' = deleted \cup {t}
    /\ lost' = (lost \/ queue[t] > 0)
    /\ UNCHANGED <<next, nextTask, life, module, closing, stopped, disturbed, traffic, crashed>>

\* The head's writer is left with its link to the module that was deleted.
BugRelinkWriter ==
    /\ SetNext("relinkWriter", "relinkReader", Writer(StreamHead), Writer(module))
    /\ UNCHANGED <<next, life, module>>

\* The modules that have become neighbours are linked only now.
RelinkWriter ==
    /\ SetNext("relinkWriter", "relinkReader", Writer(StreamHead), Writer(next[StreamHead]))
    /\ UNCHANGED <<next, life, module>>

\* With this the module, which was deleted before, is forgotten.
RelinkReader ==
    /\ SetNext("relinkReader", "rest", Reader(next[StreamHead]), Reader(StreamHead))
    /\ life' = [life EXCEPT ![module] = "deleted"]
    /\ UNCHANGED <<next, module>>

\* Only head and tail are left: they have no threads.
CloseEnds ==
    /\ closing /\ step = "rest" /\ next[StreamHead] = StreamTail
    /\ step' = "closed"
    /\ nextTask' = [t \in Tasks |-> IF t[1] \in Modules THEN nextTask[t] ELSE None]
    /\ deleted' = deleted \cup ({StreamHead, StreamTail} \X Sides)
    /\ UNCHANGED <<next, life, module, closing, stopped, disturbed, traffic, lost, crashed>>

OwnerStep ==
    \/ PushReader \/ PushWriter \/ Link \/ LinkReader
    \/ Pop
    \/ StopTask("stopReader", "unlinkReader", Reader(module))
    \/ Unlink("unlinkReader", "joinReader", Reader(module))
    \/ Join("joinReader", "stopWriter", Reader(module))
    \/ StopTask("stopWriter", "unlinkWriter", Writer(module))
    \/ Unlink("unlinkWriter", "joinWriter", Writer(module))
    \/ Join("joinWriter", "relinkWriter", Writer(module))
    \/ RelinkWriter \/ RelinkReader
    \/ CloseEnds

ThreadStep(p) == TestNext(p) \/ CallNext(p) \/ Reply(p)

Work(t) == TestStop(t) \/ GetQ(t) \/ ThreadStep(t)

Next ==
    /\ ~crashed
    /\ \/ OwnerStep
       \/ OwnerPuts \/ OwnerGets \/ ThreadStep(Owner)
       \/ \E m \in Modules : BeginPush(m)
       \/ BeginPop \/ BeginClose
       \/ \E t \in Active : Work(t)

Spec == Init /\ [][Next]_vars

\* The owner and the threads run when they can.
FairSpec ==
    /\ Spec
    /\ WF_vars(~crashed /\ OwnerStep)
    /\ \A t \in Active : WF_vars(~crashed /\ Work(t))
-------------------------------------------------------------------------------
(* Properties.                                                             *)

Present == {m \in Modules : life[m] = "pushed"}

\* Between two operations the readers' links run back along the writers', and both
\* along the owner's list, through tasks that were not deleted, however modules were
\* pushed and popped and whatever messages met them (Stream.cpp:133-172).
LinksMirror ==
    step = "rest" =>
        /\ \A m \in Present \cup {StreamHead} :
               /\ next[m] \in Present \cup {StreamTail}
               /\ nextTask[Writer(m)] = Writer(next[m])
               /\ nextTask[Reader(next[m])] = Reader(m)
        /\ \A m \in Present \cup {StreamHead, StreamTail} :
               Reader(m) \notin deleted /\ Writer(m) \notin deleted
        /\ nextTask[Reader(StreamHead)] = None /\ nextTask[Writer(StreamTail)] = None

\* No message is dropped and no thread uses a null pointer or a deleted task, unless a
\* module was pushed or popped with a message on its way: putNext() reads mNext twice,
\* and pop() links the neighbours of a module after it was deleted
\* (Stream.cpp:133-139, Task.cpp:169-174).
QuietIsSafe == crashed \/ lost => disturbed

\* Does s list the modules between head and tail, along f?
Leads(f, s) ==
    /\ f[StreamHead] = IF s = <<>> THEN StreamTail ELSE s[1]
    /\ \A n \in 1 .. Len(s) : f[s[n]] = IF n = Len(s) THEN StreamTail ELSE s[n + 1]

Along(f) == CHOOSE s \in UNION {[1 .. n -> Modules] : n \in 0 .. Cardinality(Modules)} : Leads(f, s)

Phase ==
    IF crashed THEN "broken"
    ELSE IF step = "closed" THEN "closed"
    ELSE IF closing THEN "closing" ELSE "open"

\* The stream is a stack of modules.
Stack == INSTANCE ModuleStack WITH stack <- Along(next), phase <- Phase, exposed <- disturbed

\* Every step of the owner and of the threads pushes or pops the module at the top, or
\* begins or ends close(), or leaves the stack as it is; it breaks only if exposed.
ImplementsStack == Stack!Spec

\* Under the fairness of FairSpec also: once close() is called the stream is taken
\* apart to the end, all its threads joined, unless it breaks.
ImplementsFairStack == Stack!FairSpec
===============================================================================
