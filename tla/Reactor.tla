-------------------------------- MODULE Reactor --------------------------------
(***************************************************************************)
(* The Reactor (framework/reactor/1_0/Reactor.cpp): the repository of      *)
(* event handlers, the loop around select(), and the pipe that gets the    *)
(* loop out of select() when the repository changes.                       *)
(*                                                                         *)
(* The loop thread calls the handlers without the mutex; they register     *)
(* and remove handlers themselves, as other threads may.  Three kinds of   *)
(* handler stand for those of the applications: a listener accepts a       *)
(* connection and registers its handler; a connection reads, and at the    *)
(* end of the stream removes itself; a connector, which is the             *)
(* NonBlockingConnectHandler, hands its descriptor over to a connection    *)
(* once it can be written.  Descriptors are reused after close().          *)
(***************************************************************************)
EXTENDS Naturals, FiniteSets

CONSTANTS
    Listeners,      \* Acceptor
    Connections,    \* ServerEventHandler, AsyncService, ActObjMain, InputHandler
    Connectors,     \* NonBlockingConnectHandler
    Fds,            \* file descriptors
    NoFd,           \* INVALID_HANDLE
    NoEntry,        \* end() of the repository
    DrainSize,      \* bytes of the wakeup pipe one read takes
    Closing,        \* does a connection close() its descriptor at the end?
    Refusing,       \* handlers whose call may return -1
    Interrupts      \* may select() fail?

Handlers == Listeners \cup Connections \cup Connectors

ASSUME ReactorAssumption ==
    /\ Listeners \cap Connections = {} /\ Listeners \cap Connectors = {}
    /\ Connections \cap Connectors = {}
    /\ NoFd \notin Fds
    /\ DrainSize \in Nat \ {0}
    /\ Closing \in BOOLEAN /\ Interrupts \in BOOLEAN
    /\ Refusing \subseteq Handlers
    \* Where connections close() their descriptors, no thread but the loop's opens
    \* any once the one listener is there.
    /\ Closing => Connectors = {} /\ \A l, k \in Listeners : l = k

VARIABLES
    repository,     \* mEventHandlerRepository
    fdOf,           \* getHandle() of each handler
    life,           \* what became of each handler, see Life
    open,           \* descriptors in use
    readable,       \* descriptors a read or accept() would not block on
    writable,       \* descriptors whose connection is established
    wakeup,         \* bytes in mWakeupPipe
    loop,           \* where handleEvents() is, see LoopState
    readfds,        \* what select() was given, then what it gave back
    writefds,
    wakefd,         \* is the read end of the wakeup pipe set in readfds?
    readhandles,    \* handlers still to be called in this round
    writehandles

kernel == <<open, readable, writable>>
round  == <<readfds, writefds, wakefd, readhandles, writehandles>>
vars   == <<repository, fdOf, life, kernel, wakeup, loop, round>>

Masks == {"READ_MASK", "ACCEPT_MASK", "CONNECT_MASK"}

\* An entry without a bit in its mask is none: nothing would ever take it away.
Entries == [evHandler : Handlers, mask : (SUBSET Masks) \ {{}}]

\* "closing": between close() and removeHandler() in its last call.
Life == {"unused", "registered", "closing", "removed"}

LoopState == {"build", "select", "drain", "snapshot", "read", "write"}

ASSUME NoEntryAssumption == NoEntry \notin Entries

TypeOK ==
    /\ repository \in [Fds -> Entries \cup {NoEntry}]
    /\ fdOf \in [Handlers -> Fds \cup {NoFd}]
    /\ life \in [Handlers -> Life]
    /\ open \subseteq Fds /\ readable \subseteq Fds /\ writable \subseteq Fds
    /\ wakeup \in Nat
    /\ loop \in LoopState
    /\ readfds \subseteq Fds /\ writefds \subseteq Fds
    /\ wakefd \in BOOLEAN
    /\ readhandles \subseteq Handlers /\ writehandles \subseteq Handlers

Init ==
    /\ repository = [f \in Fds |-> NoEntry]
    /\ fdOf = [h \in Handlers |-> NoFd]
    /\ life = [h \in Handlers |-> "unused"]
    /\ open = {} /\ readable = {} /\ writable = {}
    /\ wakeup = 0
    /\ loop = "build"
    /\ readfds = {} /\ writefds = {} /\ wakefd = FALSE
    /\ readhandles = {} /\ writehandles = {}
-------------------------------------------------------------------------------
(* The repository.  Bug... are seeded errors, as in MessageQueue.          *)

\* The select loop is not notified.
BugNotifySelectLoop(n) == UNCHANGED wakeup

\* n calls of notifySelectLoop(), each of which writes a byte.
NotifySelectLoop(n) == wakeup' = wakeup + n

\* registerHandler(): a new entry; or, for a descriptor that has one, more bits
\* in the mask of the handler it has.
Registered(repo, f, h, mask) ==
    [repo EXCEPT ![f] = IF @ = NoEntry THEN [evHandler |-> h, mask |-> mask]
                        ELSE [@ EXCEPT !.mask = @ \cup mask]]

\* An entry whose mask has become empty is left in the repository.
BugRemoved(repo, f, mask) == [repo EXCEPT ![f].mask = @ \ mask]

\* removeHandler(): the bits are taken out, and the entry with the last of them.
Removed(repo, f, mask) ==
    [repo EXCEPT ![f] = IF @.mask \ mask = {} THEN NoEntry
                        ELSE [@ EXCEPT !.mask = @ \ mask]]

\* A thread that is not the loop's opens a socket and registers a handler for it.
OpenAndRegister(h, mask) ==
    /\ life[h] = "unused"
    /\ \E f \in Fds \ open :
           /\ open' = open \cup {f}
           /\ fdOf' = [fdOf EXCEPT ![h] = f]
           /\ repository' = Registered(repository, f, h, mask)
    /\ life' = [life EXCEPT ![h] = "registered"]
    /\ NotifySelectLoop(1)
    /\ UNCHANGED <<readable, writable, loop, round>>

\* Acceptor::open()
Listen(l) == OpenAndRegister(l, {"ACCEPT_MASK"})

\* Connector::nonblockingConnect()
NonblockingConnect(n) == OpenAndRegister(n, {"CONNECT_MASK"})
-------------------------------------------------------------------------------
(* The network.                                                            *)

\* A connection request, data or an end of file comes in.  A connection
\* is asked for while there are a handler and a descriptor for it: accept() does
\* not fail, which ends the process.
BecomesReadable(f) ==
    /\ f \in open \ readable
    /\ f \in {fdOf[l] : l \in Listeners} =>
           open # Fds /\ \E c \in Connections : life[c] = "unused"
    /\ readable' = readable \cup {f}
    /\ UNCHANGED <<repository, fdOf, life, open, writable, wakeup, loop, round>>

\* A connection is established, or has failed.
BecomesWritable(f) ==
    /\ f \in open \ writable
    /\ writable' = writable \cup {f}
    /\ UNCHANGED <<repository, fdOf, life, open, readable, wakeup, loop, round>>
-------------------------------------------------------------------------------
(* handleEvents().                                                         *)

Present == {f \in Fds : repository[f] # NoEntry}

WantsRead(f) == repository[f].mask \cap {"READ_MASK", "ACCEPT_MASK"} # {}

\* The code asks the handler of an entry for its descriptor, and not the entry.
Handle(f) == fdOf[repository[f].evHandler]

\* What the repository asks select() for: a descriptor is in one set at most.
ReadSet  == {Handle(f) : f \in {g \in Present : WantsRead(g)}}
WriteSet == {Handle(f) : f \in {g \in Present :
                 ~WantsRead(g) /\ "CONNECT_MASK" \in repository[g].mask}}

\* The descriptor sets are built from the repository, under the mutex.
Build ==
    /\ loop = "build"
    /\ readfds' = ReadSet
    /\ writefds' = WriteSet
    /\ wakefd' = TRUE
    /\ loop' = "select"
    /\ UNCHANGED <<repository, fdOf, life, kernel, wakeup, readhandles, writehandles>>

\* What select() leaves in a set.
Ready(asked, ready) == asked \cap ready

\* select() returns once a descriptor of its sets is ready.
Select ==
    /\ loop = "select"
    /\ wakeup > 0 \/ readfds \cap readable # {} \/ writefds \cap writable # {}
    /\ readfds' = Ready(readfds, readable)
    /\ writefds' = Ready(writefds, writable)
    /\ wakefd' = (wakeup > 0)
    /\ loop' = "drain"
    /\ UNCHANGED <<repository, fdOf, life, kernel, wakeup, readhandles, writehandles>>

\* select() fails, for a signal say, and leaves the sets as they were; the code
\* logs that and goes on with them.
SelectFails ==
    /\ Interrupts
    /\ loop = "select"
    /\ loop' = "drain"
    /\ UNCHANGED <<repository, fdOf, life, kernel, wakeup, round>>

\* What one read() leaves in the pipe; it finds it empty, and does not block, where
\* select() failed.
Drained(n) == IF n > DrainSize THEN n - DrainSize ELSE 0

\* The wakeup pipe is read if select() said so.
Drain ==
    /\ loop = "drain"
    /\ wakeup' = IF wakefd THEN Drained(wakeup) ELSE wakeup
    /\ loop' = "snapshot"
    /\ UNCHANGED <<repository, fdOf, life, kernel, round>>

\* Every handler of the repository is called.
BugToCall(fds) == {repository[f].evHandler : f \in Present}

\* The handlers of the repository whose descriptor is in a set.
ToCall(fds) == {repository[f].evHandler : f \in {g \in Present : Handle(g) \in fds}}

\* The handlers to call are copied from the repository, under the mutex.
Snapshot ==
    /\ loop = "snapshot"
    /\ readhandles'  = ToCall(readfds)
    /\ writehandles' = ToCall(writefds)
    /\ loop' = "read"
    /\ UNCHANGED <<repository, fdOf, life, kernel, wakeup, readfds, writefds, wakefd>>

\* Has the loop's last call not returned yet?
InCall == \E c \in Connections : life[c] = "closing"

\* The end of the list of handlers that can read, and of the round.
ReadsOver ==
    /\ loop = "read" /\ readhandles = {}
    /\ ~InCall
    /\ loop' = "write"
    /\ UNCHANGED <<repository, fdOf, life, kernel, wakeup, round>>

WritesOver ==
    /\ loop = "write" /\ writehandles = {}
    /\ loop' = "build"
    /\ UNCHANGED <<repository, fdOf, life, kernel, wakeup, round>>

\* Who is called after h: everyone left; or nobody, as h returned -1.
AfterCall(h, list) ==
    IF h \in Refusing THEN {list \ {h}, {}} ELSE {list \ {h}}

\* handleInput() of h is the next call, in the order of an unordered_map; its
\* read or accept() returns once the descriptor is readable.
CallInput(h) ==
    /\ loop = "read" /\ h \in readhandles
    /\ ~InCall
    /\ life[h] = "registered"
    /\ fdOf[h] \in readable
    /\ readhandles' \in AfterCall(h, readhandles)
    /\ UNCHANGED <<loop, readfds, writefds, wakefd, writehandles>>

\* Acceptor::handleInput(): accept(), and the new handler's open().
AcceptConnection(l) ==
    /\ CallInput(l)
    /\ \E c \in Connections, f \in Fds \ open :
           /\ life[c] = "unused"
           /\ open' = open \cup {f}
           /\ fdOf' = [fdOf EXCEPT ![c] = f]
           /\ life' = [life EXCEPT ![c] = "registered"]
           /\ repository' = Registered(repository, f, c, {"READ_MASK"})
    /\ readable' = readable \ {fdOf[l]}
    /\ NotifySelectLoop(1)
    /\ UNCHANGED writable

\* handleInput() of a connection that gets data.
ReadData(c) ==
    /\ CallInput(c)
    /\ readable' = readable \ {fdOf[c]}
    /\ UNCHANGED <<repository, fdOf, life, open, writable, wakeup>>

\* handleInput() of a connection at its end: first the descriptor is closed ...
ReadEnd(c) ==
    /\ Closing
    /\ CallInput(c)
    /\ open' = open \ {fdOf[c]}
    /\ readable' = readable \ {fdOf[c]} /\ writable' = writable \ {fdOf[c]}
    /\ life' = [life EXCEPT ![c] = "closing"]
    /\ UNCHANGED <<repository, fdOf, wakeup>>

\* ... and then removeHandler() is called, before handleInput() returns.
RemoveClosed(c) ==
    /\ life[c] = "closing"
    /\ repository' = Removed(repository, fdOf[c], Masks)
    /\ life' = [life EXCEPT ![c] = "removed"]
    /\ NotifySelectLoop(1)
    /\ UNCHANGED <<fdOf, kernel, loop, round>>

\* InputHandler and OutputHandler only shut the descriptor down.
RemoveUnclosed(c) ==
    /\ ~Closing
    /\ CallInput(c)
    /\ readable' = readable \ {fdOf[c]}
    /\ repository' = Removed(repository, fdOf[c], Masks)
    /\ life' = [life EXCEPT ![c] = "removed"]
    /\ NotifySelectLoop(1)
    /\ UNCHANGED <<fdOf, open, writable>>

\* handleOutput() of n is the next call.
CallOutput(n) ==
    /\ loop = "write" /\ n \in writehandles
    /\ life[n] = "registered"
    /\ writehandles' \in AfterCall(n, writehandles)
    /\ UNCHANGED <<kernel, loop, readfds, writefds, wakefd, readhandles>>

\* NonBlockingConnectHandler::handleOutput(): the connector is removed, and the
\* handler it made the connection for is opened on the same descriptor ...
Connected(n) ==
    /\ CallOutput(n)
    /\ \E c \in Connections :
           /\ life[c] = "unused"
           /\ fdOf' = [fdOf EXCEPT ![c] = fdOf[n]]
           /\ life' = [life EXCEPT ![n] = "removed", ![c] = "registered"]
           /\ repository' = Registered(Removed(repository, fdOf[n], Masks),
                                       fdOf[n], c, {"READ_MASK"})
    /\ NotifySelectLoop(2)

\* ... unless the connection has failed: close() of that handler does nothing.
NotConnected(n) ==
    /\ CallOutput(n)
    /\ life' = [life EXCEPT ![n] = "removed"]
    /\ repository' = Removed(repository, fdOf[n], Masks)
    /\ NotifySelectLoop(1)
    /\ UNCHANGED fdOf
-------------------------------------------------------------------------------
LoopStep ==
    \/ Build \/ Select \/ SelectFails \/ Drain \/ Snapshot \/ ReadsOver \/ WritesOver
    \/ \E l \in Listeners : AcceptConnection(l)
    \/ \E c \in Connections :
           ReadData(c) \/ ReadEnd(c) \/ RemoveClosed(c) \/ RemoveUnclosed(c)
    \/ \E n \in Connectors : Connected(n) \/ NotConnected(n)

Next ==
    \/ LoopStep
    \/ \E l \in Listeners : Listen(l)
    \/ \E n \in Connectors : NonblockingConnect(n)
    \/ \E f \in Fds : BecomesReadable(f) \/ BecomesWritable(f)

Spec == Init /\ [][Next]_vars

\* The loop's thread runs when it can; select() returns when a descriptor is ready.
FairSpec == Spec /\ WF_vars(LoopStep)
-------------------------------------------------------------------------------
\* While the loop is in select() on sets that are no longer what the repository
\* asks for, there is a byte in the pipe to get it out: no registration and no
\* removal is missed, however the pipe is drained (Reactor.cpp:124, 265).
WakeupPending ==
    loop = "select" /\ (readfds # ReadSet \/ writefds # WriteSet) => wakeup > 0

\* A handler that registered itself is the one its descriptor's events go to,
\* although registerHandler() keeps the handler of an entry that is there already
\* (Reactor.cpp:199) and descriptors are used again: every handler has taken its
\* entry away before its descriptor comes back.
EntryIsOwner ==
    \A h \in Handlers :
        life[h] = "registered" =>
            fdOf[h] \in Fds /\ repository[fdOf[h]] # NoEntry
                           /\ repository[fdOf[h]].evHandler = h

\* A handler that is still to be called in this round has not been removed: the
\* list is made of pointers, which the loop uses after it gave the mutex up, and
\* the calls before may remove and delete handlers (Reactor.cpp:129-165).
CalledWhileRegistered ==
    /\ loop = "read" => \A h \in readhandles : life[h] = "registered"
    /\ loop \in {"read", "write"} => \A n \in writehandles : life[n] = "registered"

\* The descriptor of a handler that is still to be called is ready, so that the
\* call does not block the loop: the calls of the round before it have taken away
\* nothing of what select() saw (Reactor.cpp:102, 151-165).
ReadyWhenDispatched ==
    /\ loop = "read" => \A h \in readhandles : fdOf[h] \in readable
    /\ loop \in {"read", "write"} => \A n \in writehandles : fdOf[n] \in writable

\* A registered handler whose descriptor is ready is called, even if it was
\* registered while the loop was in select() without it (Reactor.cpp:206).
ReadyIsServed ==
    /\ \A h \in Listeners \cup Connections :
           life[h] = "registered" /\ fdOf[h] \in readable
               ~> life[h] # "registered" \/ fdOf[h] \notin readable
    /\ \A n \in Connectors :
           life[n] = "registered" /\ fdOf[n] \in writable ~> life[n] = "removed"
===============================================================================
