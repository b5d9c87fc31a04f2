------------------------------ MODULE StreamServer ------------------------------
(***************************************************************************)
(* The server of example_stream: an Acceptor with its table of             *)
(* connections, and for each connection a Stream of modules with four      *)
(* tasks, each a thread on its own queue.  What a client sends goes up     *)
(* through Receiver, which puts the packets of a request together, to      *)
(* ResponseMessage, and the reply goes down through MetaData to Sender.    *)
(*                                                                         *)
(* The reactor thread accepts, reads, and ends connections; each of these  *)
(* calls is one step, as it meets the other threads only in the queues.    *)
(* A queue is taken for what MessageQueue implements: a FIFO channel.      *)
(* Tasks without a thread (StreamHead, StreamThrough, StreamTail) hand a   *)
(* message on at once, in the step of the thread that put it.              *)
(***************************************************************************)
EXTENDS Naturals, Sequences, FiniteSets, TLC

CONSTANTS
    Handlers,       \* ServerEventHandler, one for each connection
    Fds,            \* file descriptors
    None,           \* end() of a container
    MaxPackets,     \* bound: packets a client cuts a request into
    MaxRequests     \* bound: requests of the client of each handler

ASSUME StreamServerAssumption ==
    /\ Fds \subseteq Nat
    /\ None \notin Handlers \cup Fds
    /\ MaxPackets \in Nat
    /\ MaxRequests \in [Handlers -> Nat]

VARIABLES
    life,           \* what became of each handler, see Life
    fdOf,           \* getHandle() of each handler, and mFd of its Sender
    peer,           \* the connection each descriptor is for, or None
    repository,     \* the handler the Reactor has for each descriptor, or None
    mConnections,   \* the handler the Acceptor keeps for each descriptor, or None
    worker,         \* is the thread of each task running?
    queue,          \* the message queue of each task
    packetBuffer,   \* mPacketBuffer of each Receiver
    unread,         \* messages in the queue of each stream's head
    asked,          \* requests each client has sent
    inbound,        \* packets on their way to the server
    hungUp,         \* has the client closed its end?
    got,            \* replies each client received: whose they are, and the text
    crashed         \* the program went on with a handler that is gone

server == <<life, fdOf, peer, repository, mConnections>>
stream == <<worker, queue, packetBuffer, unread>>
client == <<asked, inbound, hungUp>>
vars   == <<server, stream, client, got, crashed>>

Tasks == {"Receiver", "ResponseMessage", "MetaData", "Sender"}

\* "ended": the client is gone, and handleInput() has said so to the stream.
Life == {"unused", "open", "ended", "deleted"}

\* The packet with an index of a client's n-th request, which is cut into size.
Packet == [request : Nat, index : 1 .. MaxPackets, size : 1 .. MaxPackets]

\* A message is the Stop, or vendor data: a packet, or a text put together of some.
Messages == [type : {"stop", "vendor-data"}, text : Seq(Packet)]

Stop       == [type |-> "stop", text |-> <<>>]
Data(text) == [type |-> "vendor-data", text |-> text]

\* What a Receiver holds back is less than a request.
HeldBack(packets) == \A i \in DOMAIN packets : Len(packets) < packets[i].size

\* The type of every variable; a Receiver never holds all packets of a request
\* back (Receiver.cpp:63-83).
TypeOK ==
    /\ life \in [Handlers -> Life]
    /\ fdOf \in [Handlers -> Fds \cup {None}]
    /\ peer \in [Fds -> Handlers \cup {None}]
    /\ repository \in [Fds -> Handlers \cup {None}]
    /\ mConnections \in [Fds -> Handlers \cup {None}]
    /\ worker \in [Handlers -> [Tasks -> {"none", "running", "done"}]]
    /\ queue \in [Handlers -> [Tasks -> Seq(Messages)]]
    /\ packetBuffer \in [Handlers -> Seq(Packet)]
    /\ \A h \in Handlers : HeldBack(packetBuffer[h])
    /\ unread \in [Handlers -> Nat]
    /\ asked \in [Handlers -> Nat]
    /\ \A h \in Handlers : asked[h] <= MaxRequests[h]
    /\ inbound \in [Handlers -> Seq(Packet)]
    /\ hungUp \in [Handlers -> BOOLEAN]
    /\ got \in [Handlers -> Seq([from : Handlers, text : Seq(Packet)])]
    /\ crashed \in BOOLEAN

Init ==
    /\ life = [h \in Handlers |-> "unused"]
    /\ fdOf = [h \in Handlers |-> None]
    /\ peer = [f \in Fds |-> None]
    /\ repository = [f \in Fds |-> None]
    /\ mConnections = [f \in Fds |-> None]
    /\ worker = [h \in Handlers |-> [t \in Tasks |-> "none"]]
    /\ queue = [h \in Handlers |-> [t \in Tasks |-> <<>>]]
    /\ packetBuffer = [h \in Handlers |-> <<>>]
    /\ unread = [h \in Handlers |-> 0]
    /\ asked = [h \in Handlers |-> 0]
    /\ inbound = [h \in Handlers |-> <<>>]
    /\ hungUp = [h \in Handlers |-> FALSE]
    /\ got = [h \in Handlers |-> <<>>]
    /\ crashed = FALSE
-------------------------------------------------------------------------------
(* The clients.  Bug... are seeded errors, as in MessageQueue.             *)

\* The orders in which the packets of a request of that size may be sent.
Orders(size) == {s \in [1 .. size -> 1 .. size] : \A i \in 1 .. size : \E j \in 1 .. size : s[j] = i}

\* main() of the client: one that has read a reply to its last request sends the
\* next one, its packets in any order.
Ask(h) ==
    /\ ~crashed
    /\ life[h] # "unused" /\ ~hungUp[h]
    /\ asked[h] < MaxRequests[h]
    /\ Len(got[h]) >= asked[h]
    /\ asked' = [asked EXCEPT ![h] = @ + 1]
    /\ \E size \in 1 .. MaxPackets : \E order \in Orders(size) :
           inbound' = [inbound EXCEPT ![h] = @ \o
               [i \in 1 .. size |-> [request |-> asked[h] + 1, index |-> order[i], size |-> size]]]
    /\ UNCHANGED <<server, stream, hungUp, got, crashed>>

\* A client may close its end at any time.
HangUp(h) ==
    /\ ~crashed
    /\ life[h] # "unused"
    /\ ~hungUp[h]
    /\ hungUp' = [hungUp EXCEPT ![h] = TRUE]
    /\ UNCHANGED <<server, stream, asked, inbound, got, crashed>>
-------------------------------------------------------------------------------
(* The reactor thread.                                                     *)

\* A table of plain pointers, written with [].
BugEmplaced(f, h) == [mConnections EXCEPT ![f] = h]

\* mConnections after emplace(), which leaves an entry that is there alone.
Emplaced(f, h) == [mConnections EXCEPT ![f] = IF @ = None THEN h ELSE @]

\* Acceptor::handleInput(): the handler is registered, its stream built and the
\* threads of its tasks started.  If it then does not get into the table, it is
\* deleted, and its stream with it; its entry in the repository stays.  accept()
\* answers the lowest free descriptor; one unused handler is as good as the other.
AcceptConnection(h, f) ==
    /\ ~crashed
    /\ life[h] = "unused" /\ h = CHOOSE g \in Handlers : life[g] = "unused"
    /\ peer[f] = None /\ \A g \in Fds : peer[g] = None => f <= g
    /\ fdOf' = [fdOf EXCEPT ![h] = f]
    /\ peer' = [peer EXCEPT ![f] = h]
    /\ repository' = [repository EXCEPT ![f] = IF @ = None THEN h ELSE @]
    /\ mConnections' = Emplaced(f, h)
    /\ LET kept == mConnections'[f] = h IN
           /\ life' = [life EXCEPT ![h] = IF kept THEN "open" ELSE "deleted"]
           /\ worker' = [worker EXCEPT
                  ![h] = [t \in Tasks |-> IF kept THEN "running" ELSE "done"]]
    /\ UNCHANGED <<queue, packetBuffer, unread, client, got, crashed>>

\* handleEvents() asks every handler it knows for its descriptor, also one that
\* was deleted.
CallDeleted ==
    /\ ~crashed
    /\ \E f \in Fds : repository[f] # None /\ life[repository[f]] = "deleted"
    /\ crashed' = TRUE
    /\ UNCHANGED <<server, stream, client, got>>

\* The Reactor calls h, which is there, as there is something to read.
Called(h) ==
    /\ ~crashed
    /\ life[h] = "open"
    /\ peer[fdOf[h]] = h
    /\ repository[fdOf[h]] = h

\* handleInput() reads, and puts every packet it has got all of.  What it leaves
\* in mRecvBuffer is taken for not read yet.
ReadData(h) ==
    /\ Called(h)
    /\ \E n \in 1 .. Len(inbound[h]) :
           /\ inbound' = [inbound EXCEPT ![h] = SubSeq(@, n + 1, Len(@))]
           /\ queue' = [queue EXCEPT
                  ![h]["Receiver"] = @ \o [i \in 1 .. n |-> Data(<<inbound[h][i]>>)]]
    /\ UNCHANGED <<server, worker, packetBuffer, unread, asked, hungUp, got, crashed>>

\* handleInput() at the end of a connection, what was not read lost if it was
\* reset: the descriptor is closed and the handler removed from the Reactor; a Stop
\* is put to the bottom of the stream, and one to its top.  sleep() gives the
\* threads no guarantee, and close() does nothing.
ReadEnd(h) ==
    /\ Called(h)
    /\ hungUp[h]
    /\ peer' = [peer EXCEPT ![fdOf[h]] = None]
    /\ repository' = [repository EXCEPT ![fdOf[h]] = None]
    /\ queue' = [queue EXCEPT ![h]["Receiver"] = Append(@, Stop),
                              ![h]["MetaData"] = Append(@, Stop)]
    /\ life' = [life EXCEPT ![h] = "ended"]
    /\ UNCHANGED <<fdOf, mConnections, worker, packetBuffer, unread, client, got, crashed>>
-------------------------------------------------------------------------------
(* The threads of a stream: one turn of svc() each.                        *)

\* getQ() of task t of h answers a message of that type.
Gets(h, t, type) ==
    /\ ~crashed
    /\ worker[h][t] = "running"
    /\ queue[h][t] # <<>>
    /\ Head(queue[h][t]).type = type

\* The queues when t has taken its message.
Taken(h, t) == [queue EXCEPT ![h][t] = Tail(@)]

\* ... and u was put m.
Passed(h, t, u, m) == [queue EXCEPT ![h][t] = Tail(@), ![h][u] = Append(@, m)]

\* The packets are left in the order they came in.
BugSorted(packets) == packets

\* The ways to rearrange the packets that put no index behind a greater one.
Sortings(packets) ==
    {p \in [DOMAIN packets -> DOMAIN packets] : \A i, j \in DOMAIN packets : i < j =>
        p[i] # p[j] /\ packets[p[i]].index <= packets[p[j]].index}

\* sort() by index.
Sorted(packets) ==
    LET p == CHOOSE p \in Sortings(packets) : TRUE IN
    [i \in DOMAIN packets |-> packets[p[i]]]

\* mPacketBuffer is not cleared.
BugEmptied(packets) == packets

\* mPacketBuffer once a message was made of it.
Emptied(packets) == <<>>

\* The count of packets is compared the wrong way.
BugComplete(packets) == Len(packets) > packets[Len(packets)].size

\* The packet that came last tells how many there are of the request.
Complete(packets) == Len(packets) = packets[Len(packets)].size

\* Receiver::svc() gets a packet, and puts the message on if it is complete.
ReceivePacket(h) ==
    /\ Gets(h, "Receiver", "vendor-data")
    /\ LET packets == packetBuffer[h] \o Head(queue[h]["Receiver"]).text IN
           IF Complete(packets)
           THEN /\ packetBuffer' = [packetBuffer EXCEPT ![h] = Emptied(packets)]
                /\ queue' = Passed(h, "Receiver", "ResponseMessage", Data(Sorted(packets)))
           ELSE /\ packetBuffer' = [packetBuffer EXCEPT ![h] = packets]
                /\ queue' = Taken(h, "Receiver")
    /\ UNCHANGED <<server, worker, unread, client, got, crashed>>

\* ResponseMessage::svc() gets a request.  Its sibling, a StreamThrough, puts the
\* reply to MetaData; the request goes on to the head, whose queue nobody reads.
Respond(h) ==
    /\ Gets(h, "ResponseMessage", "vendor-data")
    /\ queue' = Passed(h, "ResponseMessage", "MetaData", Head(queue[h]["ResponseMessage"]))
    /\ unread' = [unread EXCEPT ![h] = @ + 1]
    /\ UNCHANGED <<server, worker, packetBuffer, client, got, crashed>>

\* MetaData::svc() adds the time and the server's name to a reply.
AddMetaData(h) ==
    /\ Gets(h, "MetaData", "vendor-data")
    /\ queue' = Passed(h, "MetaData", "Sender", Head(queue[h]["MetaData"]))
    /\ UNCHANGED <<server, worker, packetBuffer, unread, client, got, crashed>>

\* Sender::svc() sends a reply to whoever has the descriptor now.  The tail, which
\* is next, drops it.
Send(h) ==
    /\ Gets(h, "Sender", "vendor-data")
    /\ queue' = Taken(h, "Sender")
    /\ LET g == peer[fdOf[h]] IN
           got' = IF g # None /\ ~hungUp[g]
                  THEN [got EXCEPT ![g] = Append(@, [from |-> h, text |-> Head(queue[h]["Sender"]).text])]
                  ELSE got
    /\ UNCHANGED <<server, worker, packetBuffer, unread, client, crashed>>

\* The Stop is not put on.
BugStopPassed(h, t, u) == Taken(h, t)

\* putNext() of a Stop.
StopPassed(h, t, u) == Passed(h, t, u, Stop)

\* The Stop ends Receiver and MetaData, which put it on first ...
StopAndPass(h, t, u) ==
    /\ Gets(h, t, "stop")
    /\ worker' = [worker EXCEPT ![h][t] = "done"]
    /\ queue' = StopPassed(h, t, u)
    /\ UNCHANGED <<server, packetBuffer, unread, client, got, crashed>>

\* ... and ResponseMessage and Sender, after which only the head and the tail come.
StopAtEnd(h, t) ==
    /\ Gets(h, t, "stop")
    /\ worker' = [worker EXCEPT ![h][t] = "done"]
    /\ queue' = Taken(h, t)
    /\ unread' = [unread EXCEPT ![h] = IF t = "ResponseMessage" THEN @ + 1 ELSE @]
    /\ UNCHANGED <<server, packetBuffer, client, got, crashed>>
-------------------------------------------------------------------------------
(* The specification.                                                      *)

\* What the reactor thread does for a connection that is there.
Serve(h) == ReadData(h) \/ ReadEnd(h)

\* One turn of a thread of h's stream.
Work(h) ==
    \/ ReceivePacket(h)
    \/ Respond(h)
    \/ AddMetaData(h)
    \/ Send(h)
    \/ StopAndPass(h, "Receiver", "ResponseMessage")
    \/ StopAndPass(h, "MetaData", "Sender")
    \/ \E t \in {"ResponseMessage", "Sender"} : StopAtEnd(h, t)

Next ==
    \/ CallDeleted
    \/ \E h \in Handlers :
           \/ Ask(h)
           \/ HangUp(h)
           \/ \E f \in Fds : AcceptConnection(h, f)
           \/ Serve(h)
           \/ Work(h)

Spec == Init /\ [][Next]_vars

\* The reactor thread serves every connection, and every thread runs on.
Fairness ==
    \A h \in Handlers :
        /\ WF_vars(Serve(h))
        /\ WF_vars(ReceivePacket(h))
        /\ WF_vars(Respond(h))
        /\ WF_vars(AddMetaData(h))
        /\ WF_vars(Send(h))
        /\ WF_vars(StopAndPass(h, "Receiver", "ResponseMessage"))
        /\ WF_vars(StopAndPass(h, "MetaData", "Sender"))
        /\ \A t \in {"ResponseMessage", "Sender"} : WF_vars(StopAtEnd(h, t))

FairSpec == Spec /\ Fairness
-------------------------------------------------------------------------------
(* Properties.                                                             *)

\* The handler of h is in the Acceptor's table, in use or after use.
Living(h) == life[h] \in {"open", "ended"}

\* The client of a handler that lives gets the replies of its own stream only: not
\* those of a Sender that goes on with the number of a descriptor that was closed
\* and given out again (Sender.cpp:56).
LivingGetOwn ==
    \A h \in Handlers : Living(h) =>
        \A k \in DOMAIN got[h] : got[h][k].from = h

\* The packets of a request in order of their index, and all of them.
IsRequest(text, k) ==
    /\ text # <<>>
    /\ \A i \in DOMAIN text :
           /\ text[i].request = k
           /\ text[i].index = i
           /\ text[i].size = Len(text)

\* The k-th reply of its own stream that a client gets echoes its k-th request, put
\* together in order whatever way the packets came (Receiver.cpp:66-82).
Echoed ==
    \A h \in Handlers :
        LET own == {k \in DOMAIN got[h] : got[h][k].from = h} IN
        \A k \in own : IsRequest(got[h][k].text, Cardinality({i \in own : i <= k}))

\* A handler is deleted at the end of its connection only, where it was removed from
\* the Reactor: no entry of the Reactor is for one that was deleted (the comment
\* at ServerEventHandler.cpp:94; the code deletes at Acceptor.cpp:91-96).
NoDanglingEntry ==
    \A f \in Fds : repository[f] # None => life[repository[f]] # "deleted"

\* After the end of a connection all four threads of its stream end, Stop having
\* gone through it both ways (ServerEventHandler.cpp:76-92).
StreamEnds ==
    \A h \in Handlers :
        life[h] = "ended" ~> (crashed \/ \A t \in Tasks : worker[h][t] = "done")

\* A request is answered, or its client hangs up, or the connection is one that the
\* Acceptor could not keep.
RequestAnswered ==
    \A h \in Handlers : \A n \in 1 .. MaxRequests[h] :
        asked[h] >= n ~> \/ Len(got[h]) >= n
                        \/ hungUp[h]
                        \/ life[h] = "deleted"
                        \/ crashed
===============================================================================
