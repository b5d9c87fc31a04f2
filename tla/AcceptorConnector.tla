--------------------------- MODULE AcceptorConnector ---------------------------
(***************************************************************************)
(* The two programs of example_acceptor_connector on the frameworks of     *)
(* acceptor_connector/1_0: in the client a thread calls                    *)
(* Connector::connect() and sends, and the thread of the Reactor completes *)
(* connections that were not waited for and reads; the server accepts      *)
(* connections and echoes.  The sockets between them are modelled as far   *)
(* as the programs look at them.                                           *)
(*                                                                         *)
(* The Reactor is taken for what the module Reactor shows of it: a handler *)
(* that is registered is called once its descriptor is ready.  Neither     *)
(* program installs a signal handler, so that no call is interrupted.      *)
(***************************************************************************)
EXTENDS Naturals

CONSTANTS
    Handlers,       \* OutputHandler, one for each Client
    Fds,            \* file descriptors of the client program
    Invalid,        \* INVALID_HANDLE
    NoEntry,        \* end() of the client's repository
    TimeOuts,       \* timeouts a caller may give to connect()
    MaxCalls,       \* bound: calls of connect() for each handler
    MaxSends        \* bound: messages the client sends

ASSUME AcceptorConnectorAssumption ==
    /\ Invalid \notin Fds
    /\ TimeOuts \subseteq {"null", "zero", "positive"}
    /\ Handlers # {} /\ TimeOuts # {}
    /\ MaxCalls \in Nat /\ MaxSends \in Nat

VARIABLES
    handle,         \* mPeer.mHandle of each handler
    outcome,        \* what became of its last call, see Outcomes
    call,           \* the call of connect() the client's main thread is in
    calls,          \* calls made for each handler
    repository,     \* the client's mEventHandlerRepository
    socket,         \* the state of the socket of each descriptor
    nonblocking,    \* descriptors with O_NONBLOCK
    listening,      \* does the server listen?
    backlog,        \* connections the server has not accepted
    registered,     \* descriptors the server has an InputHandler for
    toServer,       \* messages on their way, of each connection
    toClient,       \* and answers, counted by the messages they are for
    sends,          \* messages sent
    killed          \* was the client program killed by a signal?

client  == <<handle, outcome, call, calls, repository>>
network == <<toServer, toClient, sends>>
server  == <<listening, backlog, registered>>
vars    == <<client, socket, nonblocking, server, network, killed>>

Outcomes == {"none", "active", "pending", "timedout", "failed"}

\* The program at the other end is gone: what it had sent is there, then the end of
\* the stream ("hungup"); or there was something it had not read ("reset").
Gone == {"hungup", "reset"}

Sockets == {"closed", "fresh", "connecting", "connected", "refused"} \cup Gone

\* The steps of connect(): ::connect(), which may block, select(), and the rest.
Calls == [handler : Handlers, timeOut : TimeOuts, result : {"ok", "wouldblock", "timedout", "error"},
          at : {"returned", "connect", "blocked", "select", "finish"}]

Entries == [evHandler : {"NonBlockingConnectHandler", "OutputHandler"}, svcHandler : Handlers]

\* The type of every variable; a call of connect() that asked for no timeout is never
\* in select(), nor one that gave a timeout blocked in ::connect().
TypeOK ==
    /\ handle \in [Handlers -> Fds \cup {Invalid}]
    /\ outcome \in [Handlers -> Outcomes]
    /\ call \in Calls
    /\ call.at = "blocked" => call.timeOut = "null" /\ handle[call.handler] \notin nonblocking
    /\ call.at = "select" => call.timeOut = "positive" /\ handle[call.handler] \in nonblocking
    /\ calls \in [Handlers -> 0 .. MaxCalls]
    /\ repository \in [Fds -> Entries \cup {NoEntry}]
    /\ socket \in [Fds -> Sockets]
    /\ nonblocking \subseteq Fds
    /\ listening \in BOOLEAN
    /\ backlog \subseteq Fds /\ registered \subseteq Fds \cup {Invalid}
    /\ toServer \in [Fds -> Nat] /\ toClient \in [Fds -> Nat]
    /\ sends \in 0 .. MaxSends
    /\ killed \in BOOLEAN

Init ==
    /\ handle = [h \in Handlers |-> Invalid]
    /\ outcome = [h \in Handlers |-> "none"]
    /\ call = [handler |-> CHOOSE h \in Handlers : TRUE, timeOut |-> CHOOSE t \in TimeOuts : TRUE,
               result |-> "error", at |-> "returned"]
    /\ calls = [h \in Handlers |-> 0]
    /\ repository = [f \in Fds |-> NoEntry]
    /\ socket = [f \in Fds |-> "closed"]
    /\ nonblocking = {}
    /\ listening = FALSE
    /\ backlog = {} /\ registered = {}
    /\ toServer = [f \in Fds |-> 0] /\ toClient = [f \in Fds |-> 0]
    /\ sends = 0
    /\ killed = FALSE
-------------------------------------------------------------------------------
(* The client's main thread.  Bug... are seeded errors.                    *)

Idle == call.at = "returned"

\* registerHandler(): the handler of an entry that is there stays.
Registered(repo, f, ev, h) ==
    [repo EXCEPT ![f] = IF @ = NoEntry THEN [evHandler |-> ev, svcHandler |-> h] ELSE @]

\* A socket is opened or closed, and O_NONBLOCK set or taken back.  SockStream::close()
\* does not forget the descriptor it closes.
Opened(f)   == [g \in Fds |-> IF g = f THEN "fresh" ELSE socket[g]]
Closed(f)   == [g \in Fds |-> IF g = f THEN "closed" ELSE socket[g]]
Enabled(f)  == nonblocking \cup {f}
Disabled(f) == nonblocking \ {f}

\* Only a call with a timeout of zero is one that must not block.
BugConnectStart(f, timeOut) ==
    IF timeOut = "zero" THEN Enabled(f) ELSE Disabled(f)

\* connectStart(): O_NONBLOCK if there is a timeout, whatever the flags ask for; a
\* descriptor that is new is without.
ConnectStart(f, timeOut) ==
    IF timeOut # "null" THEN Enabled(f)
    ELSE IF socket[f] = "closed" THEN Disabled(f) ELSE nonblocking

\* SockConnector::open() and connectStart(): a new socket, unless the handler has one
\* from a call before.
Connect(h, timeOut) ==
    /\ Idle
    /\ calls[h] < MaxCalls
    /\ outcome[h] \in {"none", "timedout"}
    /\ calls' = [calls EXCEPT ![h] = @ + 1]
    /\ \/ /\ handle[h] # Invalid
          /\ UNCHANGED <<handle, socket>>
       \/ /\ handle[h] = Invalid
          /\ \E f \in {g \in Fds : socket[g] = "closed"} :
                 /\ handle' = [handle EXCEPT ![h] = f]
                 /\ socket' = Opened(f)
    /\ nonblocking' = ConnectStart(handle'[h], timeOut)
    /\ call' = [handler |-> h, timeOut |-> timeOut, result |-> "error", at |-> "connect"]
    /\ UNCHANGED <<outcome, repository, server, network, killed>>

\* socket() fails: connectFinish() closes INVALID_HANDLE.
ConnectWithoutSocket(h, timeOut) ==
    /\ Idle
    /\ calls[h] < MaxCalls
    /\ outcome[h] = "none"
    /\ calls' = [calls EXCEPT ![h] = @ + 1]
    /\ call' = [handler |-> h, timeOut |-> timeOut, result |-> "error", at |-> "finish"]
    /\ UNCHANGED <<handle, outcome, repository, socket, nonblocking, server, network, killed>>

Goes(at, result) == call' = [call EXCEPT !.at = at, !.result = result]

\* ::connect(): in progress, for ever unless there is O_NONBLOCK; an error at once;
\* already under way, which is an error; connected, or EISCONN; refused.
SysConnect ==
    /\ call.at = "connect"
    /\ LET f == handle[call.handler] IN
       \/ /\ socket[f] = "fresh"
          /\ socket' = [socket EXCEPT ![f] = "connecting"]
          /\ \/ f \notin nonblocking /\ Goes("blocked", "error")
             \/ f \in nonblocking /\ call.timeOut = "zero" /\ Goes("finish", "wouldblock")
             \/ f \in nonblocking /\ call.timeOut # "zero" /\ Goes("select", "error")
       \/ /\ socket[f] = "fresh"
          /\ socket' = [socket EXCEPT ![f] = "refused"]
          /\ Goes("finish", "error")
       \/ /\ socket[f] \in {"connected", "hungup"}
          /\ Goes("finish", "ok")
          /\ UNCHANGED socket
       \/ /\ socket[f] \in {"connecting", "refused", "reset"}
          /\ Goes("finish", "error")
          /\ UNCHANGED socket
    /\ UNCHANGED <<handle, outcome, calls, repository, nonblocking, server, network, killed>>

\* The blocking ::connect() returns.
Unblocked ==
    /\ call.at = "blocked"
    /\ LET f == handle[call.handler] IN
       \/ socket[f] \in {"connected", "hungup"} /\ Goes("finish", "ok")
       \/ socket[f] \in {"refused", "reset"} /\ Goes("finish", "error")
    /\ UNCHANGED <<handle, outcome, calls, repository, socket, nonblocking, server, network, killed>>

\* A socket that can be written is taken for a connected one.
BugSelected(f) == IF socket[f] = "connecting" THEN "timedout" ELSE "ok"

\* What timedComplete() makes of a select() that returned: the timeout, or SO_ERROR.
Selected(f) ==
    CASE socket[f] \in {"connected", "hungup"} -> "ok"
      [] socket[f] \in {"refused", "reset"} -> "error"
      [] OTHER -> "timedout"

\* select() returns once the descriptor can be written, or at the timeout; a
\* connection that came between the two is found at the next call.
TimedComplete ==
    /\ call.at = "select"
    /\ Goes("finish", Selected(handle[call.handler]))
    /\ UNCHANGED <<handle, outcome, calls, repository, socket, nonblocking, server, network, killed>>

\* A connect() that could not wait is not left to the Reactor.
BugFinishWouldBlock ==
    /\ outcome' = [outcome EXCEPT ![call.handler] = "pending"]
    /\ UNCHANGED <<repository, socket, nonblocking, toClient>>

\* The handler is wrapped in a NonBlockingConnectHandler, which the Reactor calls.
FinishWouldBlock ==
    /\ outcome' = [outcome EXCEPT ![call.handler] = "pending"]
    /\ repository' = Registered(repository, handle[call.handler],
                                "NonBlockingConnectHandler", call.handler)
    /\ UNCHANGED <<socket, nonblocking, toClient>>

\* O_NONBLOCK is taken back and the handler's open() registers it.
FinishConnected ==
    /\ outcome' = [outcome EXCEPT ![call.handler] = "active"]
    /\ nonblocking' = Disabled(handle[call.handler])
    /\ repository' = Registered(repository, handle[call.handler], "OutputHandler", call.handler)
    /\ UNCHANGED <<socket, toClient>>

\* The server's ends of connections, without that of a descriptor the client closes:
\* InputHandler::handleInput() finds the end of the stream and removes itself.  Nobody
\* sees when, so it is a part of the close.
WithoutEnd(ends, f) == ends \ ({f} \ {Invalid})

\* connectFinish() and the rest of Connector::connect(): the socket is closed except
\* when it is still wanted; one that timed out stays open, and nobody waits for it.
Finish ==
    /\ call.at = "finish"
    /\ call' = [call EXCEPT !.at = "returned"]
    /\ \/ call.result = "ok" /\ FinishConnected /\ UNCHANGED <<backlog, registered>>
       \/ call.result = "wouldblock" /\ FinishWouldBlock /\ UNCHANGED <<backlog, registered>>
       \/ /\ call.result = "timedout"
          /\ outcome' = [outcome EXCEPT ![call.handler] = "timedout"]
          /\ UNCHANGED <<repository, socket, nonblocking, toClient, backlog, registered>>
       \/ /\ call.result = "error"
          /\ outcome' = [outcome EXCEPT ![call.handler] = "failed"]
          /\ socket' = Closed(handle[call.handler])
          /\ backlog' = WithoutEnd(backlog, handle[call.handler])
          /\ registered' = WithoutEnd(registered, handle[call.handler])
          /\ toClient' = [f \in Fds |-> IF f = handle[call.handler] THEN 0 ELSE toClient[f]]
          /\ UNCHANGED <<repository, nonblocking>>
    /\ UNCHANGED <<handle, calls, listening, toServer, sends, killed>>

\* Client::sendMessage(): nobody looks at what send() answers, on a descriptor that
\* may not be connected yet, or be another handler's by now.  On one whose other end
\* is gone it may raise a signal that ends the program.
Send(h) ==
    /\ Idle
    /\ sends < MaxSends
    /\ sends' = sends + 1
    /\ \/ /\ handle[h] \in Fds /\ socket[handle[h]] = "connected"
          /\ toServer' = [toServer EXCEPT ![handle[h]] = @ + 1]
          /\ UNCHANGED killed
       \/ /\ handle[h] \in Fds => socket[handle[h]] # "connected"
          /\ killed' \in {FALSE, handle[h] \in Fds /\ socket[handle[h]] \in Gone \cup {"refused"}}
          /\ UNCHANGED toServer
    /\ UNCHANGED <<client, socket, nonblocking, server, toClient>>
-------------------------------------------------------------------------------
(* The thread of the client's Reactor.                                     *)

\* The handler's open() comes before its wrapper is removed.
BugConnected(f, h) ==
    [Registered(repository, f, "OutputHandler", h) EXCEPT ![f] = NoEntry]

\* The wrapper's close() removes the entry, then open() registers the handler.
Connected(f, h) ==
    Registered([repository EXCEPT ![f] = NoEntry], f, "OutputHandler", h)

\* getRemoteAddr() answers 0.
HasRemoteAddr(f) == socket[f] \in {"connected", "hungup"}

\* NonBlockingConnectHandler::handleOutput(), once the descriptor can be written: with
\* a peer the handler is activated, without one its close() does nothing.
HandleOutput(f) ==
    /\ repository[f] # NoEntry /\ repository[f].evHandler = "NonBlockingConnectHandler"
    /\ LET h == repository[f].svcHandler IN
       \/ /\ HasRemoteAddr(f)
          /\ repository' = Connected(f, h)
          /\ outcome' = [outcome EXCEPT ![h] = "active"]
       \/ /\ socket[f] \in {"refused", "reset"}
          /\ repository' = [repository EXCEPT ![f] = NoEntry]
          /\ outcome' = [outcome EXCEPT ![h] = "failed"]
    /\ UNCHANGED <<handle, call, calls, socket, nonblocking, server, network, killed>>

\* OutputHandler::handleInput(): everything that is there is read; at the end of the
\* stream the handler is removed, and the descriptor stays open.
HandleInput(f) ==
    /\ repository[f] # NoEntry /\ repository[f].evHandler = "OutputHandler"
    /\ \/ /\ toClient[f] > 0
          /\ toClient' = [toClient EXCEPT ![f] = 0]
          /\ UNCHANGED repository
       \/ /\ toClient[f] = 0 /\ socket[f] \in Gone
          /\ repository' = [repository EXCEPT ![f] = NoEntry]
          /\ UNCHANGED toClient
    /\ UNCHANGED <<handle, outcome, call, calls, socket, nonblocking, server, toServer, sends, killed>>
-------------------------------------------------------------------------------
(* The server, and what the system does between the two.                   *)

\* SockAcceptor::open(): the socket is bound and listens; if one of that fails all is
\* as it was.
Listen == listening' = TRUE

\* Acceptor::open(): the listening socket is registered.
Open ==
    /\ ~listening
    /\ Listen
    /\ UNCHANGED <<client, socket, nonblocking, backlog, registered, network, killed>>

\* The connection is made by the server's system, before accept() is called; or
\* refused, where nobody listens.
Arrive(f) ==
    /\ socket[f] = "connecting"
    /\ IF listening
       THEN /\ socket' = [socket EXCEPT ![f] = "connected"]
            /\ backlog' = backlog \cup {f}
       ELSE socket' = [socket EXCEPT ![f] = "refused"] /\ UNCHANGED backlog
    /\ UNCHANGED <<client, nonblocking, listening, registered, network, killed>>

\* Acceptor::handleInput(): a handler is made, given the accepted descriptor and opened.
Accept(f) ==
    /\ f \in backlog
    /\ backlog' = backlog \ {f}
    /\ registered' = registered \cup {f}
    /\ UNCHANGED <<client, socket, nonblocking, listening, network, killed>>

\* The server's program ends, and its connections with it.
Dies ==
    /\ listening' = FALSE
    /\ backlog' = {} /\ registered' = {}
    /\ socket' = [f \in Fds |->
                     IF socket[f] # "connected" THEN socket[f]
                     ELSE IF f \in backlog \/ toServer[f] > 0 THEN "reset" ELSE "hungup"]
    /\ toServer' = [f \in Fds |-> 0]
    /\ UNCHANGED <<client, nonblocking, toClient, sends, killed>>

ServerEnds == listening /\ Dies

\* accept() fails, for want of descriptors say: handleInput() looks at no result and
\* opens the handler all the same, which registers it with INVALID_HANDLE.  FD_SET of
\* that is undefined: it ends the program, or sets a bit that select() clears.
AcceptFails ==
    /\ backlog # {}
    /\ \/ /\ registered' = registered \cup {Invalid}
          /\ UNCHANGED <<client, socket, nonblocking, listening, backlog, network, killed>>
       \/ Dies

\* InputHandler::handleInput(): what is there is read and echoed in one piece.
Echo(f) ==
    /\ f \in registered
    /\ toServer[f] > 0
    /\ toServer' = [toServer EXCEPT ![f] = 0]
    /\ toClient' = [toClient EXCEPT ![f] = @ + toServer[f]]
    /\ UNCHANGED <<client, socket, nonblocking, server, sends, killed>>
-------------------------------------------------------------------------------
MainStep == SysConnect \/ Unblocked \/ TimedComplete \/ Finish

Next ==
    /\ ~killed
    /\ \/ \E h \in Handlers, t \in TimeOuts : Connect(h, t) \/ ConnectWithoutSocket(h, t)
       \/ MainStep
       \/ \E h \in Handlers : Send(h)
       \/ \E f \in Fds :
              HandleOutput(f) \/ HandleInput(f) \/ Arrive(f) \/ Accept(f) \/ Echo(f)
       \/ Open \/ ServerEnds \/ AcceptFails

Spec == Init /\ [][Next]_vars

\* The threads run, the system answers a connection request, and accept() does not
\* fail for ever.
FairSpec ==
    /\ Spec
    /\ WF_vars(~killed /\ MainStep)
    /\ \A f \in Fds :
           /\ WF_vars(~killed /\ HandleOutput(f)) /\ WF_vars(~killed /\ HandleInput(f))
           /\ WF_vars(~killed /\ Arrive(f)) /\ WF_vars(~killed /\ Accept(f))
           /\ WF_vars(~killed /\ Echo(f))
-------------------------------------------------------------------------------
(* Properties.                                                             *)

Calling(h) == ~Idle /\ call.handler = h

Live(h) == handle[h] \in Fds /\ socket[handle[h]] \in Gone \cup {"connected"}

\* A handler that was activated has a connection, and one of its own, whichever of
\* the two threads activated it, and although descriptors that were closed are used
\* again and handlers keep the number of one that was (SockConnector.cpp:66-140).
ActiveIsConnected ==
    \A h \in Handlers : outcome[h] = "active" =>
        /\ Live(h)
        /\ \A k \in Handlers \ {h} : outcome[k] \in {"active", "pending"} => handle[k] # handle[h]

\* The Reactor has the right handler for every descriptor somebody relies on: the
\* wrapper while the connection is pending, then the handler itself until the end of
\* the stream; and none for a descriptor that was closed (Connector.cpp:155-171, 272).
WatchedByOwner ==
    /\ \A h \in Handlers :
           /\ outcome[h] = "pending" =>
                  repository[handle[h]] = [evHandler |-> "NonBlockingConnectHandler", svcHandler |-> h]
           /\ outcome[h] = "active" /\ socket[handle[h]] = "connected" =>
                  repository[handle[h]] = [evHandler |-> "OutputHandler", svcHandler |-> h]
    /\ \A f \in Fds : socket[f] = "closed" => repository[f] = NoEntry

\* A handler for the one who uses it.
EndIsGone(h) == handle[h] \in Fds /\ socket[handle[h]] \in Gone

Status(h) ==
    IF killed \/ (outcome[h] = "active" /\ EndIsGone(h)) THEN "ended"
    ELSE IF Calling(h) THEN "calling"
    ELSE IF outcome[h] = "none" THEN "idle" ELSE outcome[h]

Owed(h) ==
    IF handle[h] \in Fds /\ ~EndIsGone(h) /\ Status(h) \notin {"idle", "failed", "ended"}
    THEN toServer[handle[h]] + toClient[handle[h]] ELSE 0

\* Both programs together implement connections.
Promise == INSTANCE Connections WITH
    status <- [h \in Handlers |-> Status(h)],
    owed   <- [h \in Handlers |-> Owed(h)]

\* Every step of the two programs is one step of one handler's connection, or none of
\* any: a handler says once how its call ended, and only what was sent is answered.
ImplementsConnections == Promise!Spec

\* Under the fairness of FairSpec also: every call of connect() returns, a pending
\* connection is settled, and what is sent on a connection is answered unless an end
\* of it is gone.
ImplementsFairConnections == Promise!FairSpec
===============================================================================
