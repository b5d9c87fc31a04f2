----------------------- MODULE AcceptorConnectorProofs -------------------------
(***************************************************************************)
(* For any number of handlers and descriptors: a handler that was          *)
(* activated has a connection of its own (ActiveIsConnected), and the      *)
(* client's Reactor has the right handler for it (WatchedByOwner).         *)
(* Neither is inductive: both rest on which handlers own their descriptor, *)
(* and on what a call of connect() has found out about it. The same        *)
(* invariant, with what may be on its way over the sockets, shows that     *)
(* every step is a step of Connections or none (ImplementsConnections).    *)
(***************************************************************************)
EXTENDS AcceptorConnector, TLAPS

\* The types of the variables; the rest of TypeOK is a part of CallInv.
Types ==
    /\ handle \in [Handlers -> Fds \cup {Invalid}]
    /\ outcome \in [Handlers -> Outcomes]
    /\ call \in Calls
    /\ calls \in [Handlers -> 0 .. MaxCalls]
    /\ repository \in [Fds -> Entries \cup {NoEntry}]
    /\ socket \in [Fds -> Sockets]
    /\ nonblocking \subseteq Fds
    /\ listening \in BOOLEAN
    /\ backlog \subseteq Fds /\ registered \subseteq Fds \cup {Invalid}
    /\ toServer \in [Fds -> Nat] /\ toClient \in [Fds -> Nat]
    /\ sends \in 0 .. MaxSends
    /\ killed \in BOOLEAN

\* A handler owns its descriptor from socket() until the call fails, or for good; one
\* that failed keeps the number only.
Owns(h) == outcome[h] \in {"active", "pending", "timedout"} \/ (Calling(h) /\ handle[h] # Invalid)

\* What a call has found out about the socket: it holds O_NONBLOCK if it gave a timeout,
\* was started once it is waited for, and is connected if the call says so.
CallInv ==
    LET f == handle[call.handler] IN
    /\ ~Idle => outcome[call.handler] \in {"none", "timedout"}
    /\ call.at \in {"connect", "blocked", "select"} => f \in Fds
    /\ call.at = "finish" /\ call.result # "error" => f \in Fds
    /\ call.at = "connect" /\ call.timeOut # "null" => f \in nonblocking
    /\ call.at = "connect" /\ call.timeOut = "null" /\ socket[f] = "fresh" => f \notin nonblocking
    /\ call.at = "blocked" => call.timeOut = "null" /\ f \notin nonblocking
    /\ call.at = "select" => call.timeOut = "positive" /\ f \in nonblocking
    /\ call.at \in {"blocked", "select"} => socket[f] # "fresh"
    /\ call.at = "finish" /\ call.result = "timedout" => socket[f] # "fresh"
    /\ call.at = "finish" /\ call.result = "ok" => socket[f] \in Gone \cup {"connected"}

\* What became of a call says what the handler has.
HandleInv ==
    \A h \in Handlers :
        /\ outcome[h] \in {"active", "pending", "timedout"} => handle[h] \in Fds
        /\ outcome[h] = "none" /\ ~Calling(h) => handle[h] = Invalid
        /\ Owns(h) => socket[handle[h]] # "closed"
        /\ outcome[h] = "active" => socket[handle[h]] \in Gone \cup {"connected"}
        /\ outcome[h] = "timedout" => socket[handle[h]] # "fresh"

\* No two handlers own a descriptor.
OwnInv ==
    \A h, k \in Handlers : Owns(h) /\ Owns(k) /\ handle[h] = handle[k] => h = k

Wrapper(h) == [evHandler |-> "NonBlockingConnectHandler", svcHandler |-> h]
Handler(h) == [evHandler |-> "OutputHandler", svcHandler |-> h]

\* The Reactor has the entries of pending and active handlers, and no other.
RepositoryInv ==
    /\ \A f \in Fds : repository[f] # NoEntry =>
           \E h \in Handlers :
               /\ handle[h] = f
               /\ \/ outcome[h] = "pending" /\ repository[f] = Wrapper(h)
                  \/ outcome[h] = "active" /\ repository[f] = Handler(h)
    /\ \A h \in Handlers :
           /\ outcome[h] = "pending" => repository[handle[h]] = Wrapper(h)
           /\ outcome[h] = "active" /\ socket[handle[h]] = "connected" =>
                  repository[handle[h]] = Handler(h)

ConnectInv == CallInv /\ HandleInv /\ OwnInv /\ RepositoryInv

IInv == Types /\ ConnectInv
-------------------------------------------------------------------------------
LEMMA CallFacts ==
    ASSUME Types
    PROVE  /\ call.handler \in Handlers /\ call.timeOut \in TimeOuts
           /\ call.timeOut \in {"null", "zero", "positive"}
           /\ call.result \in {"ok", "wouldblock", "timedout", "error"}
           /\ call.at \in {"returned", "connect", "blocked", "select", "finish"}
           /\ \A at \in {"returned", "connect", "blocked", "select", "finish"},
                 result \in {"ok", "wouldblock", "timedout", "error"} :
                  LET c == [call EXCEPT !.at = at, !.result = result] IN
                  /\ c \in Calls
                  /\ c.handler = call.handler /\ c.timeOut = call.timeOut
                  /\ c.at = at /\ c.result = result
BY AcceptorConnectorAssumption DEF Types, Calls

LEMMA EntryFacts ==
    \A h : /\ Wrapper(h).evHandler = "NonBlockingConnectHandler" /\ Wrapper(h).svcHandler = h
          /\ Handler(h).evHandler = "OutputHandler" /\ Handler(h).svcHandler = h
BY DEF Wrapper, Handler

LEMMA InitConnect == Init => IInv
<1> SUFFICES ASSUME Init PROVE IInv
  OBVIOUS
<1>1. (CHOOSE h \in Handlers : TRUE) \in Handlers /\ (CHOOSE t \in TimeOuts : TRUE) \in TimeOuts
  BY AcceptorConnectorAssumption
<1>2. call \in Calls /\ call.at = "returned"
  BY <1>1 DEF Init, Calls
<1>3. /\ calls \in [Handlers -> 0 .. MaxCalls] /\ sends \in 0 .. MaxSends
  BY AcceptorConnectorAssumption DEF Init
<1>4. Types
  BY <1>2, <1>3 DEF Init, Types, Outcomes, Sockets
<1>5. ConnectInv
  BY <1>2 DEF Init, ConnectInv, CallInv, HandleInv, OwnInv, RepositoryInv, Owns, Calling, Idle
<1> QED
  BY <1>4, <1>5 DEF IInv

\* What the system and the server do to a socket: it gets on with being connected, or
\* with being gone.
Moves(f) ==
    /\ socket'[f] = "closed" <=> socket[f] = "closed"
    /\ socket'[f] = "fresh" <=> socket[f] = "fresh"
    /\ socket[f] \in Gone \cup {"connected"} => socket'[f] \in Gone \cup {"connected"}
    /\ socket'[f] = "connected" => socket[f] \in {"connecting", "connected"}

LEMMA MovesConnect ==
    ASSUME IInv, UNCHANGED <<handle, outcome, call, repository, nonblocking>>,
           \A f \in Fds : Moves(f)
    PROVE  ConnectInv'
<1>1. Types /\ CallInv /\ HandleInv /\ OwnInv /\ RepositoryInv
  BY DEF IInv, ConnectInv
<1>2. /\ \A h : Calling(h)' = Calling(h)
      /\ \A h : Owns(h)' = Owns(h)
  BY DEF Owns, Calling, Idle
<1>3. CallInv'
  BY <1>1, CallFacts DEF CallInv, Moves, Idle
<1>4. HandleInv'
  <2>1. ASSUME NEW h \in Handlers
        PROVE  Owns(h) => handle[h] \in Fds
    BY <1>1 DEF Owns, HandleInv, Types
  <2> QED
    BY <1>1, <1>2, <2>1 DEF HandleInv, Moves, Gone, Owns
<1>5. OwnInv'
  BY <1>1, <1>2 DEF OwnInv
<1>6. RepositoryInv'
  <2>1. ASSUME NEW h \in Handlers, outcome[h] = "active", socket'[handle[h]] = "connected"
        PROVE  socket[handle[h]] = "connected"
    BY <1>1, <2>1 DEF HandleInv, Moves, Gone
  <2> QED
    BY <1>1, <2>1 DEF RepositoryInv, Wrapper, Handler
<1> QED
  BY <1>3, <1>4, <1>5, <1>6 DEF ConnectInv
-------------------------------------------------------------------------------
(* A call begins.                                                          *)

\* The handler has a descriptor of its own then: a new one, or that of a call before.
LEMMA ConnectHandle ==
    ASSUME IInv, NEW h \in Handlers, NEW timeOut \in TimeOuts, Connect(h, timeOut)
    PROVE  LET f == handle'[h] IN
           /\ f \in Fds
           /\ handle' = [handle EXCEPT ![h] = f]
           /\ \/ /\ outcome[h] = "timedout" /\ handle[h] = f
                 /\ socket[f] \notin {"closed", "fresh"} /\ UNCHANGED socket
              \/ /\ socket[f] = "closed" /\ socket' = [socket EXCEPT ![f] = "fresh"]
           /\ timeOut # "null" => f \in nonblocking'
           /\ timeOut = "null" /\ socket'[f] = "fresh" => f \notin nonblocking'
           /\ nonblocking' \subseteq nonblocking \cup {f}
<1> USE AcceptorConnectorAssumption
<1>1. Types /\ HandleInv /\ Idle /\ outcome[h] \in {"none", "timedout"}
  BY DEF IInv, ConnectInv, Connect
<1>2. ~Calling(h)
  BY <1>1 DEF Calling
<1>3. nonblocking' = IF timeOut # "null" THEN nonblocking \cup {handle'[h]}
                     ELSE IF socket[handle'[h]] = "closed" THEN nonblocking \ {handle'[h]}
                     ELSE nonblocking
  BY DEF Connect, ConnectStart, Enabled, Disabled
<1>4. CASE outcome[h] = "none"
  <2>1. handle[h] = Invalid
    BY <1>1, <1>2, <1>4 DEF HandleInv
  <2>2. PICK f \in Fds : /\ socket[f] = "closed" /\ handle' = [handle EXCEPT ![h] = f]
                        /\ socket' = Opened(f)
    BY <2>1 DEF Connect
  <2>3. handle'[h] = f /\ socket' = [socket EXCEPT ![f] = "fresh"]
    BY <1>1, <2>2 DEF Types, Opened
  <2>4. /\ timeOut # "null" => f \in nonblocking'
        /\ timeOut = "null" => f \notin nonblocking'
        /\ nonblocking' \subseteq nonblocking \cup {f}
    BY <1>3, <2>2, <2>3
  <2> QED
    BY <2>2, <2>3, <2>4
<1>5. CASE outcome[h] = "timedout"
  <2>1. handle[h] \in Fds /\ socket[handle[h]] \notin {"closed", "fresh"}
    BY <1>1, <1>5 DEF HandleInv, Owns
  <2>2. UNCHANGED <<handle, socket>>
    BY <2>1 DEF Connect
  <2>3. handle' = [handle EXCEPT ![h] = handle'[h]]
    BY <1>1, <2>2 DEF Types
  <2> QED
    BY <1>3, <1>5, <2>1, <2>2, <2>3
<1> QED
  BY <1>1, <1>4, <1>5

LEMMA ConnectConnect ==
    ASSUME IInv, NEW h \in Handlers, NEW timeOut \in TimeOuts, Connect(h, timeOut)
    PROVE  ConnectInv'
<1> DEFINE f == handle'[h]
<1>1. /\ f \in Fds
      /\ handle' = [handle EXCEPT ![h] = f]
      /\ \/ /\ outcome[h] = "timedout" /\ handle[h] = f
            /\ socket[f] \notin {"closed", "fresh"} /\ UNCHANGED socket
         \/ /\ socket[f] = "closed" /\ socket' = [socket EXCEPT ![f] = "fresh"]
      /\ timeOut # "null" => f \in nonblocking'
      /\ timeOut = "null" /\ socket'[f] = "fresh" => f \notin nonblocking'
  BY ConnectHandle
<1>2. Types /\ HandleInv /\ OwnInv /\ RepositoryInv /\ Idle /\ outcome[h] \in {"none", "timedout"}
  BY DEF IInv, ConnectInv, Connect
<1>3. /\ call' = [handler |-> h, timeOut |-> timeOut, result |-> "error", at |-> "connect"]
      /\ UNCHANGED <<outcome, repository>>
  BY DEF Connect
<1>4. \A k \in Handlers \ {h} : handle'[k] = handle[k]
  BY <1>1, <1>2 DEF Types
<1>5. /\ Owns(h)' /\ Calling(h)'
      /\ \A k \in Handlers \ {h} : (Owns(k)' <=> Owns(k)) /\ ~Calling(k) /\ ~Calling(k)'
  BY <1>1, <1>2, <1>3, <1>4, AcceptorConnectorAssumption DEF Owns, Calling, Idle
<1>6. \A k \in Handlers \ {h} : Owns(k) => handle[k] \in Fds /\ handle[k] # f
  <2>1. ASSUME NEW k \in Handlers \ {h}, Owns(k)
        PROVE  handle[k] \in Fds /\ socket[handle[k]] # "closed"
    BY <1>2, <1>5, <2>1 DEF HandleInv, Owns
  <2>2. CASE outcome[h] = "timedout" /\ handle[h] = f
    BY <1>2, <2>1, <2>2 DEF OwnInv, Owns
  <2> QED
    BY <1>1, <2>1, <2>2
<1>7. \A g \in Fds : g # f => socket'[g] = socket[g]
  BY <1>1, <1>2 DEF Types
<1>8. socket'[f] # "closed" /\ (outcome[h] = "timedout" => socket'[f] # "fresh")
  <2>1. outcome[h] = "timedout" => handle[h] \in Fds /\ socket[handle[h]] # "closed"
    BY <1>2 DEF HandleInv, Owns
  <2>2. outcome[h] = "timedout" => handle[h] = f
    BY <1>2, <2>1, AcceptorConnectorAssumption DEF Connect
  <2> QED
    BY <1>1, <1>2, <2>1, <2>2 DEF Types
<1>9. CallInv'
  BY <1>1, <1>2, <1>3 DEF CallInv
<1>10. HandleInv'
  <2> SUFFICES ASSUME NEW k \in Handlers
               PROVE  /\ outcome[k] \in {"active", "pending", "timedout"} => handle'[k] \in Fds
                      /\ outcome[k] = "none" /\ ~Calling(k)' => handle'[k] = Invalid
                      /\ Owns(k)' => socket'[handle'[k]] # "closed"
                      /\ outcome[k] = "active" => socket'[handle'[k]] \in Gone \cup {"connected"}
                      /\ outcome[k] = "timedout" => socket'[handle'[k]] # "fresh"
    BY <1>3 DEF HandleInv
  <2>1. CASE k = h
    BY <1>1, <1>2, <1>5, <1>8, <2>1
  <2>2. CASE k # h
    BY <1>2, <1>4, <1>5, <1>6, <1>7, <2>2 DEF HandleInv, Owns
  <2> QED
    BY <2>1, <2>2
<1>11. OwnInv'
  BY <1>2, <1>4, <1>5, <1>6 DEF OwnInv
<1>12. RepositoryInv'
  <2>1. \A k \in Handlers : outcome[k] \in {"pending", "active"} =>
           k # h /\ handle'[k] = handle[k] /\ socket'[handle[k]] = socket[handle[k]]
    BY <1>2, <1>4, <1>6, <1>7 DEF Owns
  <2>2. UNCHANGED <<repository, outcome>>
    BY <1>3
  <2>3. ASSUME NEW g \in Fds, repository[g] # NoEntry
        PROVE  \E k \in Handlers :
                   /\ handle'[k] = g
                   /\ \/ outcome[k] = "pending" /\ repository[g] = Wrapper(k)
                      \/ outcome[k] = "active" /\ repository[g] = Handler(k)
    BY <1>2, <2>1, <2>3 DEF RepositoryInv
  <2>4. ASSUME NEW k \in Handlers
        PROVE  /\ outcome[k] = "pending" => repository[handle'[k]] = Wrapper(k)
               /\ outcome[k] = "active" /\ socket'[handle'[k]] = "connected" =>
                      repository[handle'[k]] = Handler(k)
    BY <1>2, <2>1 DEF RepositoryInv
  <2> QED
    BY <2>2, <2>3, <2>4 DEF RepositoryInv, Wrapper, Handler
<1> QED
  BY <1>9, <1>10, <1>11, <1>12 DEF ConnectInv

LEMMA WithoutSocketConnect ==
    ASSUME IInv, NEW h \in Handlers, NEW timeOut \in TimeOuts, ConnectWithoutSocket(h, timeOut)
    PROVE  ConnectInv'
<1>1. Types /\ HandleInv /\ OwnInv /\ RepositoryInv /\ Idle /\ outcome[h] = "none"
  BY DEF IInv, ConnectInv, ConnectWithoutSocket
<1>2. /\ call' = [handler |-> h, timeOut |-> timeOut, result |-> "error", at |-> "finish"]
      /\ UNCHANGED <<handle, outcome, repository, socket, nonblocking>>
  BY DEF ConnectWithoutSocket
<1>3. \A k \in Handlers : (Owns(k)' <=> Owns(k)) /\ ~Calling(k) /\ (Calling(k)' <=> k = h)
  BY <1>1, <1>2 DEF Owns, Calling, Idle, HandleInv
<1>4. CallInv'
  BY <1>1, <1>2 DEF CallInv
<1>5. HandleInv' /\ OwnInv'
  BY <1>1, <1>2, <1>3 DEF HandleInv, OwnInv
<1>6. RepositoryInv'
  BY <1>1, <1>2 DEF RepositoryInv, Wrapper, Handler
<1> QED
  BY <1>4, <1>5, <1>6 DEF ConnectInv
-------------------------------------------------------------------------------
(* It goes on.                                                             *)

LEMMA GoesConnect ==
    ASSUME IInv, ~Idle, UNCHANGED <<handle, outcome, repository, nonblocking>>, CallInv',
           NEW at \in {"blocked", "select", "finish"},
           NEW result \in {"ok", "wouldblock", "timedout", "error"},
           Goes(at, result),
           \/ UNCHANGED socket
           \/ /\ handle[call.handler] \in Fds /\ socket[handle[call.handler]] = "fresh"
              /\ \E s \in {"connecting", "refused"} :
                     socket' = [socket EXCEPT ![handle[call.handler]] = s]
    PROVE  ConnectInv'
<1>1. Types /\ HandleInv /\ OwnInv /\ RepositoryInv
  BY DEF IInv, ConnectInv
<1>2. call'.handler = call.handler /\ ~Idle'
  BY <1>1, CallFacts DEF Goes, Idle
<1>3. \A h \in Handlers : (Calling(h)' <=> Calling(h)) /\ (Owns(h)' <=> Owns(h))
  BY <1>2 DEF Calling, Owns
<1>4. \A f \in Fds : \/ socket'[f] = socket[f]
                     \/ socket[f] = "fresh" /\ socket'[f] \in {"connecting", "refused"}
  BY <1>1 DEF Types
<1>5. HandleInv'
  <2>1. \A h \in Handlers : Owns(h) => handle[h] \in Fds
    BY <1>1 DEF HandleInv, Owns, Types
  <2>2. \A h \in Handlers : Owns(h) => socket'[handle[h]] # "closed"
    BY <1>1, <1>4, <2>1 DEF HandleInv
  <2>3. \A h \in Handlers : outcome[h] = "active" =>
           socket'[handle[h]] \in Gone \cup {"connected"}
    BY <1>1, <1>4 DEF HandleInv, Gone
  <2>4. \A h \in Handlers : outcome[h] = "timedout" => socket'[handle[h]] # "fresh"
    BY <1>1, <1>4 DEF HandleInv
  <2> QED
    BY <1>1, <1>3, <2>2, <2>3, <2>4 DEF HandleInv
<1>6. OwnInv'
  BY <1>1, <1>3 DEF OwnInv
<1>7. RepositoryInv'
  <2>1. ASSUME NEW h \in Handlers, outcome[h] = "active", socket'[handle[h]] = "connected"
        PROVE  socket[handle[h]] = "connected"
    BY <1>1, <1>4, <2>1 DEF HandleInv
  <2> QED
    BY <1>1, <2>1 DEF RepositoryInv, Wrapper, Handler
<1> QED
  BY <1>5, <1>6, <1>7 DEF ConnectInv

LEMMA SysConnectConnect ==
    ASSUME IInv, SysConnect
    PROVE  ConnectInv'
<1> USE CallFacts
<1> DEFINE f == handle[call.handler]
<1>1. Types /\ CallInv /\ call.at = "connect" /\ ~Idle /\ f \in Fds
  BY DEF IInv, ConnectInv, SysConnect, CallInv, Idle
<1>2. UNCHANGED <<handle, outcome, repository, nonblocking>>
  BY DEF SysConnect
<1>3. outcome[call.handler] \in {"none", "timedout"}
  BY <1>1 DEF CallInv
<1>4. CASE socket[f] = "fresh"
  <2>1. \E s \in {"connecting", "refused"} :
           socket' = [socket EXCEPT ![f] = s] /\ socket'[f] = s
    BY <1>1, <1>4 DEF SysConnect, Types
  <2>2. \/ Goes("finish", "error")
        \/ f \notin nonblocking /\ Goes("blocked", "error")
        \/ f \in nonblocking /\ call.timeOut = "zero" /\ Goes("finish", "wouldblock")
        \/ f \in nonblocking /\ call.timeOut # "zero" /\ Goes("select", "error")
    BY <1>1, <1>4 DEF SysConnect
  <2>3. PICK at \in {"blocked", "select", "finish"}, result \in {"wouldblock", "error"} :
            /\ Goes(at, result)
            /\ at = "blocked" => f \notin nonblocking
            /\ at = "select" => f \in nonblocking /\ call.timeOut # "zero"
    BY <2>2
  <2>4. /\ call'.handler = call.handler /\ call'.timeOut = call.timeOut
        /\ call'.at = at /\ call'.result = result
    BY <1>1, <2>3 DEF Goes
  <2>5. /\ at = "blocked" => call.timeOut = "null"
        /\ at = "select" => call.timeOut = "positive"
    BY <1>1, <1>4, <2>3 DEF CallInv
  <2>6. CallInv'
    BY <1>1, <1>2, <1>3, <2>1, <2>3, <2>4, <2>5 DEF CallInv
  <2>7. \/ UNCHANGED socket
        \/ /\ handle[call.handler] \in Fds /\ socket[handle[call.handler]] = "fresh"
           /\ \E s \in {"connecting", "refused"} :
                  socket' = [socket EXCEPT ![handle[call.handler]] = s]
    BY <1>1, <1>4, <2>1
  <2>8. at \in {"blocked", "select", "finish"} /\ result \in {"ok", "wouldblock", "timedout", "error"}
    BY <2>3
  <2>9. ~Idle /\ UNCHANGED <<handle, outcome, repository, nonblocking>> /\ Goes(at, result)
    BY <1>1, <1>2, <2>3
  <2> HIDE DEF f
  <2> QED
    BY <2>6, <2>7, <2>8, <2>9, GoesConnect
<1>5. CASE socket[f] # "fresh"
  <2>1. PICK result \in {"ok", "error"} :
            /\ Goes("finish", result) /\ UNCHANGED socket
            /\ result = "ok" => socket[f] \in Gone \cup {"connected"}
    BY <1>1, <1>5 DEF SysConnect, Gone
  <2>2. call'.handler = call.handler /\ call'.at = "finish" /\ call'.result = result
    BY <1>1, <2>1 DEF Goes
  <2>3. CallInv'
    BY <1>1, <1>2, <1>3, <2>1, <2>2 DEF CallInv
  <2> QED
    BY <1>1, <1>2, <2>1, <2>3, GoesConnect
<1> QED
  BY <1>4, <1>5

LEMMA WaitedConnect ==
    ASSUME IInv, Unblocked \/ TimedComplete
    PROVE  ConnectInv'
<1> USE CallFacts
<1> DEFINE f == handle[call.handler]
<1>1. Types /\ CallInv /\ call.at \in {"blocked", "select"} /\ ~Idle
  BY DEF IInv, ConnectInv, Unblocked, TimedComplete, Idle
<1>2. f \in Fds /\ socket[f] # "fresh" /\ outcome[call.handler] \in {"none", "timedout"}
  BY <1>1 DEF CallInv
<1>3. UNCHANGED <<handle, outcome, repository, nonblocking, socket>>
  BY DEF Unblocked, TimedComplete
<1>4. PICK result \in {"ok", "timedout", "error"} :
          /\ Goes("finish", result)
          /\ result = "ok" => socket[f] \in Gone \cup {"connected"}
  BY DEF Unblocked, TimedComplete, Selected, Gone
<1>5. call'.handler = call.handler /\ call'.at = "finish" /\ call'.result = result
  BY <1>1, <1>4 DEF Goes
<1>6. CallInv'
  BY <1>1, <1>2, <1>3, <1>4, <1>5 DEF CallInv
<1> QED
  BY <1>1, <1>3, <1>4, <1>6, GoesConnect
-------------------------------------------------------------------------------
(* It returns, or its connection is settled later.                         *)

\* Nobody is registered for the descriptor of a call.
LEMMA NoEntryYet ==
    ASSUME IInv, ~Idle, handle[call.handler] \in Fds
    PROVE  repository[handle[call.handler]] = NoEntry
<1>1. Types /\ CallInv /\ OwnInv /\ RepositoryInv
  BY DEF IInv, ConnectInv
<1>2. call.handler \in Handlers /\ outcome[call.handler] \in {"none", "timedout"}
  BY <1>1, CallFacts DEF CallInv
<1>3. Owns(call.handler)
  BY AcceptorConnectorAssumption DEF Owns, Calling
<1>4. SUFFICES ASSUME repository[handle[call.handler]] # NoEntry PROVE FALSE
  OBVIOUS
<1>5. PICK k \in Handlers : /\ handle[k] = handle[call.handler]
                           /\ outcome[k] \in {"pending", "active"}
  BY <1>1, <1>4 DEF RepositoryInv
<1>6. k = call.handler
  BY <1>1, <1>2, <1>3, <1>5 DEF OwnInv, Owns
<1> QED
  BY <1>2, <1>5, <1>6

\* A handler is left with a connection, made or to be made, and an entry for it.
LEMMA EnteredConnect ==
    ASSUME IInv, NEW h \in Handlers, NEW o \in {"active", "pending"}, handle[h] \in Fds,
           outcome' = [outcome EXCEPT ![h] = o],
           repository' = [repository EXCEPT ![handle[h]] =
                             IF o = "active" THEN Handler(h) ELSE Wrapper(h)],
           Owns(h), o = "active" => socket[handle[h]] \in Gone \cup {"connected"},
           \A k \in Handlers \ {h} : ~Calling(k)' => ~Calling(k),
           \A k \in Handlers : Calling(k)' => Calling(k) /\ k # h,
           CallInv', UNCHANGED <<handle, socket>>
    PROVE  ConnectInv'
<1>1. Types /\ HandleInv /\ OwnInv /\ RepositoryInv
  BY DEF IInv, ConnectInv
<1>2. /\ outcome'[h] = o
      /\ \A k \in Handlers \ {h} : outcome'[k] = outcome[k]
  BY <1>1 DEF Types
<1>3. \A k \in Handlers : Owns(k)' => Owns(k)
  BY <1>2 DEF Owns
<1>4. HandleInv'
  <2> SUFFICES ASSUME NEW k \in Handlers
               PROVE  /\ outcome'[k] \in {"active", "pending", "timedout"} => handle[k] \in Fds
                      /\ outcome'[k] = "none" /\ ~Calling(k)' => handle[k] = Invalid
                      /\ Owns(k)' => socket[handle[k]] # "closed"
                      /\ outcome'[k] = "active" => socket[handle[k]] \in Gone \cup {"connected"}
                      /\ outcome'[k] = "timedout" => socket[handle[k]] # "fresh"
    BY DEF HandleInv
  <2>1. CASE k = h
    BY <1>1, <1>2, <2>1 DEF HandleInv
  <2>2. CASE k # h
    BY <1>1, <1>2, <1>3, <2>2 DEF HandleInv
  <2> QED
    BY <2>1, <2>2
<1>5. OwnInv'
  BY <1>1, <1>3 DEF OwnInv
<1>6. RepositoryInv'
  <2>1. repository'[handle[h]] = IF o = "active" THEN Handler(h) ELSE Wrapper(h)
    BY <1>1 DEF Types
  <2>2. \A g \in Fds : g # handle[h] => repository'[g] = repository[g]
    BY <1>1 DEF Types
  <2>3. ASSUME NEW g \in Fds, repository'[g] # NoEntry
        PROVE  \E k \in Handlers :
                   /\ handle[k] = g
                   /\ \/ outcome'[k] = "pending" /\ repository'[g] = Wrapper(k)
                      \/ outcome'[k] = "active" /\ repository'[g] = Handler(k)
    <3>1. CASE g = handle[h]
      BY <1>2, <2>1, <3>1
    <3>2. CASE g # handle[h]
      <4>1. PICK k \in Handlers : /\ handle[k] = g
                                 /\ \/ outcome[k] = "pending" /\ repository[g] = Wrapper(k)
                                    \/ outcome[k] = "active" /\ repository[g] = Handler(k)
        BY <1>1, <2>2, <2>3, <3>2 DEF RepositoryInv
      <4>2. outcome'[k] = outcome[k]
        BY <1>2, <3>2, <4>1
      <4> QED
        BY <2>2, <3>2, <4>1, <4>2
    <3> QED
      BY <3>1, <3>2
  <2>4. ASSUME NEW k \in Handlers
        PROVE  /\ outcome'[k] = "pending" => repository'[handle[k]] = Wrapper(k)
               /\ outcome'[k] = "active" /\ socket[handle[k]] = "connected" =>
                      repository'[handle[k]] = Handler(k)
    <3>1. CASE k = h
      BY <1>2, <2>1, <3>1
    <3>2. CASE k # h /\ outcome[k] \in {"pending", "active"}
      <4>1. handle[k] # handle[h] /\ handle[k] \in Fds
        BY <1>1, <3>2 DEF OwnInv, Owns, HandleInv
      <4> QED
        BY <1>1, <1>2, <2>2, <3>2, <4>1 DEF RepositoryInv
    <3>3. CASE k # h /\ outcome[k] \notin {"pending", "active"}
      BY <1>2, <3>3
    <3> QED
      BY <3>1, <3>2, <3>3
  <2>5. (\A f \in Fds : repository[f] # NoEntry =>
             \E k \in Handlers :
                 /\ handle[k] = f
                 /\ \/ outcome[k] = "pending" /\ repository[f] = Wrapper(k)
                    \/ outcome[k] = "active" /\ repository[f] = Handler(k))'
    BY <2>3 DEF Wrapper, Handler
  <2>6. (\A k \in Handlers :
             /\ outcome[k] = "pending" => repository[handle[k]] = Wrapper(k)
             /\ outcome[k] = "active" /\ socket[handle[k]] = "connected" =>
                    repository[handle[k]] = Handler(k))'
    BY <2>4 DEF Wrapper, Handler
  <2> QED
    BY <2>5, <2>6 DEF RepositoryInv
<1> QED
  BY <1>4, <1>5, <1>6 DEF ConnectInv

\* A handler is left without one: its socket is closed, unless it is to be tried again,
\* or was found to be of no use later; and no entry is left for it.
LEMMA RefusedConnect ==
    ASSUME IInv, NEW h \in Handlers, NEW o \in {"timedout", "failed"},
           outcome' = [outcome EXCEPT ![h] = o],
           \A k \in Handlers : Calling(k)' <=> Calling(k) /\ k # h,
           \/ UNCHANGED socket
           \/ o = "failed" /\ socket' = Closed(handle[h]),
           o = "timedout" => handle[h] \in Fds /\ socket[handle[h]] # "fresh",
           handle[h] \in Fds => Owns(h),
           \/ UNCHANGED repository /\ outcome[h] \notin {"pending", "active"}
           \/ handle[h] \in Fds /\ repository' = [repository EXCEPT ![handle[h]] = NoEntry],
           CallInv', UNCHANGED handle
    PROVE  ConnectInv'
<1>1. Types /\ HandleInv /\ OwnInv /\ RepositoryInv
  BY DEF IInv, ConnectInv
<1>2. /\ outcome'[h] = o
      /\ \A k \in Handlers \ {h} : outcome'[k] = outcome[k]
  BY <1>1 DEF Types
<1>3. /\ \A k \in Handlers \ {h} : Owns(k)' <=> Owns(k)
      /\ Owns(h)' <=> o = "timedout"
  BY <1>2 DEF Owns
<1>4. /\ \A k \in Handlers \ {h} : Owns(k) => handle[k] \in Fds /\ handle[k] # handle[h]
      /\ o = "timedout" => handle[h] \in Fds
  <2>1. \A k \in Handlers : Owns(k) => handle[k] \in Fds
    BY <1>1 DEF HandleInv, Owns, Types
  <2> QED
    BY <1>1, <2>1 DEF OwnInv
<1>5. \A k \in Handlers : Owns(k)' => socket'[handle[k]] = socket[handle[k]]
  <2>1. \A f \in Fds : f # handle[h] \/ o = "timedout" => socket'[f] = socket[f]
    BY DEF Closed
  <2> QED
    BY <1>3, <1>4, <2>1
<1>6. HandleInv'
  <2> SUFFICES ASSUME NEW k \in Handlers
               PROVE  /\ outcome'[k] \in {"active", "pending", "timedout"} => handle[k] \in Fds
                      /\ outcome'[k] = "none" /\ ~Calling(k)' => handle[k] = Invalid
                      /\ Owns(k)' => socket'[handle[k]] # "closed"
                      /\ outcome'[k] = "active" => socket'[handle[k]] \in Gone \cup {"connected"}
                      /\ outcome'[k] = "timedout" => socket'[handle[k]] # "fresh"
    BY DEF HandleInv
  <2>1. outcome'[k] \in {"active", "pending", "timedout"} => Owns(k)'
    BY DEF Owns
  <2>2. CASE k = h
    BY <1>1, <1>2, <1>3, <1>4, <1>5, <2>2 DEF HandleInv
  <2>3. CASE k # h
    BY <1>1, <1>2, <1>3, <1>5, <2>1, <2>3 DEF HandleInv
  <2> QED
    BY <2>2, <2>3
<1>7. OwnInv'
  BY <1>1, <1>3, <1>4 DEF OwnInv
<1>8. RepositoryInv'
  <2>1. \A g \in Fds : repository'[g] = repository[g] \/ (g = handle[h] /\ repository'[g] = NoEntry)
    BY <1>1 DEF Types
  <2>2. ASSUME NEW g \in Fds, repository'[g] # NoEntry
        PROVE  \E k \in Handlers :
                   /\ handle[k] = g
                   /\ \/ outcome'[k] = "pending" /\ repository'[g] = Wrapper(k)
                      \/ outcome'[k] = "active" /\ repository'[g] = Handler(k)
    <3>1. PICK k \in Handlers : /\ handle[k] = g
                               /\ \/ outcome[k] = "pending" /\ repository[g] = Wrapper(k)
                                  \/ outcome[k] = "active" /\ repository[g] = Handler(k)
      BY <1>1, <2>1, <2>2 DEF RepositoryInv
    <3>2. k # h
      BY <1>1, <2>2, <3>1 DEF Types
    <3> QED
      BY <1>2, <2>1, <2>2, <3>1, <3>2
  <2>3. ASSUME NEW k \in Handlers
        PROVE  /\ outcome'[k] = "pending" => repository'[handle[k]] = Wrapper(k)
               /\ outcome'[k] = "active" /\ socket'[handle[k]] = "connected" =>
                      repository'[handle[k]] = Handler(k)
    <3>1. CASE k = h
      BY <1>2, <3>1
    <3>2. CASE k # h /\ outcome[k] \in {"pending", "active"}
      <4>1. handle[k] # handle[h] /\ handle[k] \in Fds /\ Owns(k)'
        BY <1>3, <1>4, <3>2 DEF Owns
      <4>2. repository'[handle[k]] = repository[handle[k]] /\ socket'[handle[k]] = socket[handle[k]]
        BY <1>5, <2>1, <4>1
      <4> QED
        BY <1>1, <1>2, <3>2, <4>2 DEF RepositoryInv
    <3>3. CASE k # h /\ outcome[k] \notin {"pending", "active"}
      BY <1>2, <3>3
    <3> QED
      BY <3>1, <3>2, <3>3
  <2> QED
    BY <2>2, <2>3 DEF RepositoryInv, Wrapper, Handler
<1> QED
  BY <1>6, <1>7, <1>8 DEF ConnectInv

LEMMA FinishConnect ==
    ASSUME IInv, Finish
    PROVE  ConnectInv'
<1> DEFINE h == call.handler
<1>1. /\ Types /\ CallInv /\ HandleInv /\ call.at = "finish" /\ ~Idle /\ h \in Handlers
      /\ outcome[h] \in {"none", "timedout"}
      /\ call.result \in {"ok", "wouldblock", "timedout", "error"}
  BY CallFacts DEF IInv, ConnectInv, Finish, Idle, CallInv
<1>2. UNCHANGED handle /\ call'.at = "returned"
  BY <1>1 DEF Finish, Calls, Types
<1>3. \A k \in Handlers : ~Calling(k)' /\ (Calling(k) <=> k = h)
  BY <1>1, <1>2 DEF Calling, Idle
<1>4. CallInv'
  BY <1>2 DEF CallInv, Idle
<1>5. handle[h] \in Fds => Owns(h)
  BY <1>1, <1>3, AcceptorConnectorAssumption DEF Owns
<1>6. CASE call.result = "ok"
  <2>1. /\ handle[h] \in Fds /\ repository[handle[h]] = NoEntry
        /\ socket[handle[h]] \in Gone \cup {"connected"}
    BY <1>1, <1>6, NoEntryYet DEF CallInv
  <2>2. /\ outcome' = [outcome EXCEPT ![h] = "active"] /\ UNCHANGED socket
        /\ repository' = Registered(repository, handle[h], "OutputHandler", h)
    BY <1>6 DEF Finish, FinishConnected
  <2>3. repository' = [repository EXCEPT ![handle[h]] = Handler(h)]
    BY <2>1, <2>2 DEF Registered, Handler
  <2> HIDE DEF h
  <2> QED
    BY <1>1, <1>2, <1>3, <1>4, <1>5, <2>1, <2>2, <2>3, EnteredConnect
<1>7. CASE call.result = "wouldblock"
  <2>1. handle[h] \in Fds /\ repository[handle[h]] = NoEntry
    BY <1>1, <1>7, NoEntryYet DEF CallInv
  <2>2. /\ outcome' = [outcome EXCEPT ![h] = "pending"] /\ UNCHANGED socket
        /\ repository' = Registered(repository, handle[h], "NonBlockingConnectHandler", h)
    BY <1>7 DEF Finish, FinishWouldBlock
  <2>3. repository' = [repository EXCEPT ![handle[h]] = Wrapper(h)]
    BY <2>1, <2>2 DEF Registered, Wrapper
  <2> HIDE DEF h
  <2> QED
    BY <1>1, <1>2, <1>3, <1>4, <1>5, <2>1, <2>2, <2>3, EnteredConnect
<1>8. CASE call.result = "timedout"
  <2>1. handle[h] \in Fds /\ socket[handle[h]] # "fresh"
    BY <1>1, <1>8 DEF CallInv
  <2>2. outcome' = [outcome EXCEPT ![h] = "timedout"] /\ UNCHANGED <<socket, repository>>
    BY <1>8 DEF Finish
  <2> HIDE DEF h
  <2> QED
    BY <1>1, <1>2, <1>3, <1>4, <1>5, <2>1, <2>2, RefusedConnect
<1>9. CASE call.result = "error"
  <2>1. /\ outcome' = [outcome EXCEPT ![h] = "failed"] /\ UNCHANGED repository
        /\ socket' = Closed(handle[h])
    BY <1>9 DEF Finish
  <2> HIDE DEF h
  <2> QED
    BY <1>1, <1>2, <1>3, <1>4, <1>5, <2>1, RefusedConnect
<1> QED
  BY <1>1, <1>6, <1>7, <1>8, <1>9

LEMMA HandleOutputConnect ==
    ASSUME IInv, NEW f \in Fds, HandleOutput(f)
    PROVE  ConnectInv'
<1> DEFINE h == repository[f].svcHandler
<1>1. Types /\ CallInv /\ HandleInv /\ RepositoryInv
  BY DEF IInv, ConnectInv
<1>2. /\ repository[f] # NoEntry
      /\ repository[f].evHandler = "NonBlockingConnectHandler"
      /\ UNCHANGED <<handle, call, socket, nonblocking>>
  BY DEF HandleOutput
<1>3. h \in Handlers /\ handle[h] = f /\ outcome[h] = "pending"
  <2>1. PICK k \in Handlers : /\ handle[k] = f
                             /\ \/ outcome[k] = "pending" /\ repository[f] = Wrapper(k)
                                \/ outcome[k] = "active" /\ repository[f] = Handler(k)
    BY <1>1, <1>2 DEF RepositoryInv
  <2> QED
    BY <1>2, <2>1, EntryFacts
<1>4. Owns(h) /\ ~Calling(h)
  BY <1>1, <1>3, CallFacts DEF Owns, Calling, CallInv
<1>5. \A k \in Handlers : Calling(k)' <=> Calling(k) /\ k # h
  BY <1>2, <1>4 DEF Calling, Idle
<1>6. CallInv'
  <2>1. \E o \in {"active", "failed"} : outcome' = [outcome EXCEPT ![h] = o]
    BY DEF HandleOutput
  <2>2. ~Idle => outcome'[call.handler] = outcome[call.handler]
    BY <1>1, <1>3, <1>4, <2>1, CallFacts DEF Calling, Types
  <2> QED
    BY <1>1, <1>2, <2>2 DEF CallInv, Idle
<1>7. CASE HasRemoteAddr(f) /\ repository' = Connected(f, h)
           /\ outcome' = [outcome EXCEPT ![h] = "active"]
  <2>1. repository' = [repository EXCEPT ![f] = Handler(h)]
    <3>1. [repository EXCEPT ![f] = NoEntry][f] = NoEntry
      BY <1>1 DEF Types
    <3> QED
      BY <1>7, <3>1 DEF Connected, Registered, Handler
  <2>2. socket[f] \in Gone \cup {"connected"}
    BY <1>7 DEF HasRemoteAddr, Gone
  <2> QED
    BY <1>2, <1>3, <1>4, <1>5, <1>6, <1>7, <2>1, <2>2, EnteredConnect
<1>8. CASE repository' = [repository EXCEPT ![f] = NoEntry]
           /\ outcome' = [outcome EXCEPT ![h] = "failed"]
  BY <1>2, <1>3, <1>4, <1>5, <1>6, <1>8, RefusedConnect
<1> QED
  BY <1>7, <1>8 DEF HandleOutput

\* An entry is removed only once the other end is gone.
LEMMA HandleInputConnect ==
    ASSUME IInv, NEW f \in Fds, HandleInput(f)
    PROVE  ConnectInv'
<1>1. Types /\ CallInv /\ HandleInv /\ OwnInv /\ RepositoryInv
  BY DEF IInv, ConnectInv
<1>2. UNCHANGED <<handle, outcome, call, socket, nonblocking>>
  BY DEF HandleInput
<1>3. CASE UNCHANGED repository
  <2>1. \A g \in Fds : Moves(g)
    BY <1>2 DEF Moves
  <2> QED
    BY <1>2, <1>3, <2>1, MovesConnect
<1>4. CASE /\ repository[f].evHandler = "OutputHandler" /\ repository[f] # NoEntry
           /\ repository' = [repository EXCEPT ![f] = NoEntry] /\ socket[f] \in Gone
  <2>1. CallInv' /\ HandleInv' /\ OwnInv'
    BY <1>1, <1>2 DEF CallInv, HandleInv, OwnInv, Owns, Calling, Idle
  <2>2. \A g \in Fds : repository'[g] = repository[g] \/ (g = f /\ repository'[g] = NoEntry)
    BY <1>1, <1>4 DEF Types
  <2>3. (\A g \in Fds : repository[g] # NoEntry =>
             \E k \in Handlers :
                 /\ handle[k] = g
                 /\ \/ outcome[k] = "pending" /\ repository[g] = Wrapper(k)
                    \/ outcome[k] = "active" /\ repository[g] = Handler(k))'
    BY <1>1, <1>2, <2>2 DEF RepositoryInv, Wrapper, Handler
  <2>4. ASSUME NEW k \in Handlers
        PROVE  /\ outcome[k] = "pending" => repository'[handle[k]] = Wrapper(k)
               /\ outcome[k] = "active" /\ socket[handle[k]] = "connected" =>
                      repository'[handle[k]] = Handler(k)
    <3>1. outcome[k] = "pending" => handle[k] \in Fds /\ handle[k] # f
      <4>1. ASSUME outcome[k] = "pending", handle[k] = f PROVE FALSE
        BY <1>1, <1>4, <4>1, EntryFacts DEF RepositoryInv
      <4> QED
        BY <1>1, <4>1 DEF HandleInv
    <3>2. outcome[k] = "active" /\ socket[handle[k]] = "connected" =>
             handle[k] \in Fds /\ handle[k] # f
      BY <1>1, <1>4 DEF HandleInv, Gone
    <3> QED
      BY <1>1, <2>2, <3>1, <3>2 DEF RepositoryInv
  <2>5. (\A k \in Handlers :
             /\ outcome[k] = "pending" => repository[handle[k]] = Wrapper(k)
             /\ outcome[k] = "active" /\ socket[handle[k]] = "connected" =>
                    repository[handle[k]] = Handler(k))'
    BY <1>2, <2>4 DEF Wrapper, Handler
  <2> QED
    BY <2>1, <2>3, <2>5 DEF RepositoryInv, ConnectInv
<1> QED
  BY <1>3, <1>4 DEF HandleInput
-------------------------------------------------------------------------------
(* Every step.                                                             *)

LEMMA CallTypes ==
    ASSUME IInv, NEW h \in Handlers, NEW timeOut \in TimeOuts,
           Connect(h, timeOut) \/ ConnectWithoutSocket(h, timeOut)
    PROVE  Types'
<1>1. Types
  BY DEF IInv
<1>2. calls' \in [Handlers -> 0 .. MaxCalls]
  <2>1. calls[h] < MaxCalls /\ calls' = [calls EXCEPT ![h] = @ + 1]
    BY DEF Connect, ConnectWithoutSocket
  <2>2. calls[h] + 1 \in 0 .. MaxCalls
    BY <1>1, <2>1, AcceptorConnectorAssumption DEF Types
  <2> QED
    BY <1>1, <2>1, <2>2 DEF Types
<1>3. call' \in Calls
  BY DEF Connect, ConnectWithoutSocket, Calls
<1>4. UNCHANGED <<outcome, repository, server, network, killed>>
  BY DEF Connect, ConnectWithoutSocket
<1>5. /\ handle' \in [Handlers -> Fds \cup {Invalid}]
      /\ socket' \in [Fds -> Sockets]
      /\ nonblocking' \subseteq Fds
  <2>1. CASE Connect(h, timeOut)
    <3>1. /\ handle'[h] \in Fds /\ handle' = [handle EXCEPT ![h] = handle'[h]]
          /\ socket' = socket \/ socket' = [socket EXCEPT ![handle'[h]] = "fresh"]
          /\ nonblocking' \subseteq nonblocking \cup {handle'[h]}
      BY <2>1, ConnectHandle
    <3> QED
      BY <1>1, <3>1 DEF Types, Sockets
  <2>2. CASE ConnectWithoutSocket(h, timeOut)
    BY <1>1, <2>2 DEF ConnectWithoutSocket, Types
  <2> QED
    BY <2>1, <2>2
<1> QED
  BY <1>1, <1>2, <1>3, <1>4, <1>5 DEF Types, server, network

LEMMA MainTypes ==
    ASSUME IInv, MainStep
    PROVE  Types'
<1>1. Types
  BY DEF IInv
<1>2. UNCHANGED <<handle, calls, listening, toServer, sends, killed>>
  BY DEF MainStep, SysConnect, Unblocked, TimedComplete, Finish, server, network
<1>9. backlog' \subseteq backlog /\ registered' \subseteq registered
  BY DEF MainStep, SysConnect, Unblocked, TimedComplete, Finish, WithoutEnd, server
<1>3. call' \in Calls
  <2>1. CASE \E at \in {"blocked", "select", "finish"},
               result \in {"ok", "wouldblock", "timedout", "error"} : Goes(at, result)
    <3>1. PICK at \in {"blocked", "select", "finish"},
               result \in {"ok", "wouldblock", "timedout", "error"} : Goes(at, result)
      BY <2>1
    <3>2. [call EXCEPT !.at = at, !.result = result] \in Calls
      BY <1>1, CallFacts
    <3> QED
      BY <3>1, <3>2 DEF Goes
  <2>2. CASE call' = [call EXCEPT !.at = "returned"]
    BY <1>1, <2>2 DEF Types, Calls
  <2>3. CASE SysConnect
    BY <2>1, <2>3 DEF SysConnect
  <2>4. CASE Unblocked
    BY <2>1, <2>4 DEF Unblocked
  <2>5. CASE TimedComplete
    <3>1. Selected(handle[call.handler]) \in {"ok", "timedout", "error"}
      BY DEF Selected
    <3> QED
      BY <2>1, <2>5, <3>1 DEF TimedComplete
  <2>6. CASE Finish
    BY <2>2, <2>6 DEF Finish
  <2> QED
    BY <2>3, <2>4, <2>5, <2>6 DEF MainStep
<1>4. outcome' \in [Handlers -> Outcomes]
  <2>1. UNCHANGED outcome \/ \E o \in Outcomes : outcome' = [outcome EXCEPT ![call.handler] = o]
    BY DEF MainStep, SysConnect, Unblocked, TimedComplete, Finish, FinishConnected,
       FinishWouldBlock, Outcomes
  <2> QED
    BY <1>1, <2>1 DEF Types
<1>5. repository' \in [Fds -> Entries \cup {NoEntry}]
  <2>1. \/ UNCHANGED repository
        \/ \E ev \in {"NonBlockingConnectHandler", "OutputHandler"} :
               repository' = Registered(repository, handle[call.handler], ev, call.handler)
    BY DEF MainStep, SysConnect, Unblocked, TimedComplete, Finish, FinishConnected,
       FinishWouldBlock
  <2>2. \A ev \in {"NonBlockingConnectHandler", "OutputHandler"} :
           [evHandler |-> ev, svcHandler |-> call.handler] \in Entries
    BY <1>1, CallFacts DEF Entries
  <2> QED
    BY <1>1, <2>1, <2>2 DEF Types, Registered
<1>6. socket' \in [Fds -> Sockets]
  <2>1. \/ UNCHANGED socket \/ socket' = Closed(handle[call.handler])
        \/ \E s \in {"connecting", "refused"} :
               socket' = [socket EXCEPT ![handle[call.handler]] = s]
    BY DEF MainStep, SysConnect, Unblocked, TimedComplete, Finish, FinishConnected,
       FinishWouldBlock
  <2> QED
    BY <1>1, <2>1 DEF Types, Sockets, Closed
<1>7. nonblocking' \subseteq nonblocking
  BY DEF MainStep, SysConnect, Unblocked, TimedComplete, Finish, FinishConnected,
     FinishWouldBlock, Disabled
<1>8. toClient' \in [Fds -> Nat]
  <2>1. \/ UNCHANGED toClient
        \/ toClient' = [f \in Fds |-> IF f = handle[call.handler] THEN 0 ELSE toClient[f]]
    BY DEF MainStep, SysConnect, Unblocked, TimedComplete, Finish, FinishConnected,
       FinishWouldBlock, network
  <2> QED
    BY <1>1, <2>1 DEF Types
<1> QED
  BY <1>1, <1>2, <1>3, <1>4, <1>5, <1>6, <1>7, <1>8, <1>9 DEF Types

LEMMA ReactorTypes ==
    ASSUME IInv, NEW f \in Fds, HandleOutput(f) \/ HandleInput(f)
    PROVE  Types'
<1>1. Types
  BY DEF IInv
<1>2. CASE HandleInput(f)
  <2>1. /\ toClient' = [toClient EXCEPT ![f] = 0] \/ UNCHANGED toClient
        /\ repository' = [repository EXCEPT ![f] = NoEntry] \/ UNCHANGED repository
        /\ UNCHANGED <<handle, outcome, call, calls, socket, nonblocking, server, toServer,
                       sends, killed>>
    BY <1>2 DEF HandleInput
  <2> QED
    BY <1>1, <2>1 DEF Types, server
<1>3. CASE HandleOutput(f)
  <2> DEFINE h == repository[f].svcHandler
  <2>1. h \in Handlers
    BY <1>1, <1>3 DEF HandleOutput, Types, Entries
  <2>2. /\ \E o \in {"active", "failed"} : outcome' = [outcome EXCEPT ![h] = o]
        /\ \/ repository' = [repository EXCEPT ![f] = NoEntry]
           \/ repository' = Connected(f, h)
        /\ UNCHANGED <<handle, call, calls, socket, nonblocking, server, network, killed>>
    BY <1>3 DEF HandleOutput
  <2>3. [evHandler |-> "OutputHandler", svcHandler |-> h] \in Entries
    BY <2>1 DEF Entries
  <2>4. repository' \in [Fds -> Entries \cup {NoEntry}]
    BY <1>1, <2>2, <2>3 DEF Types, Connected, Registered
  <2>5. outcome' \in [Handlers -> Outcomes]
    BY <1>1, <2>2 DEF Types, Outcomes
  <2> QED
    BY <1>1, <2>2, <2>4, <2>5 DEF Types, server, network
<1> QED
  BY <1>2, <1>3

\* The steps that leave the client's handlers alone.
OtherStep ==
    \/ \E h \in Handlers : Send(h)
    \/ \E f \in Fds : Arrive(f) \/ Accept(f) \/ Echo(f)
    \/ Open \/ ServerEnds \/ AcceptFails

LEMMA OtherTypes ==
    ASSUME IInv, OtherStep
    PROVE  Types'
<1>1. Types
  BY DEF IInv
<1>2. UNCHANGED <<client, nonblocking>>
  BY DEF OtherStep, Send, Arrive, Accept, Echo, Open, ServerEnds, AcceptFails, Dies
<1>3. socket' \in [Fds -> Sockets]
  BY <1>1 DEF OtherStep, Send, Arrive, Accept, Echo, Open, ServerEnds, AcceptFails, Dies,
     Types, Sockets, Gone
<1>4. listening' \in BOOLEAN
  BY <1>1 DEF OtherStep, Send, Arrive, Accept, Echo, Open, Listen, ServerEnds, AcceptFails,
     Dies, Types, server
<1>5. backlog' \subseteq Fds /\ registered' \subseteq Fds \cup {Invalid}
  BY <1>1 DEF OtherStep, Send, Arrive, Accept, Echo, Open, ServerEnds, AcceptFails, Dies,
     Types, server
<1>6. sends' \in 0 .. MaxSends /\ killed' \in BOOLEAN
  <2>1. CASE \E h \in Handlers : Send(h)
    <3>1. sends < MaxSends /\ sends' = sends + 1
      BY <2>1 DEF Send
    <3>2. sends' \in 0 .. MaxSends
      BY <1>1, <3>1, AcceptorConnectorAssumption DEF Types
    <3>3. killed' = killed \/ killed' \in {TRUE, FALSE}
      BY <2>1 DEF Send
    <3> QED
      BY <1>1, <3>2, <3>3 DEF Types
  <2>2. CASE UNCHANGED <<sends, killed>>
    BY <1>1, <2>2 DEF Types
  <2> QED
    BY <2>1, <2>2 DEF OtherStep, Arrive, Accept, Echo, Open, ServerEnds, AcceptFails, Dies,
       network
<1>7. toServer' \in [Fds -> Nat] /\ toClient' \in [Fds -> Nat]
  <2>1. CASE \E h \in Handlers : Send(h)
    <3>1. \/ UNCHANGED toServer
          \/ \E f \in Fds : toServer' = [toServer EXCEPT ![f] = @ + 1]
      BY <2>1 DEF Send
    <3>2. UNCHANGED toClient
      BY <2>1 DEF Send
    <3> QED
      BY <1>1, <3>1, <3>2 DEF Types
  <2>2. CASE \E f \in Fds : Echo(f)
    BY <1>1, <2>2 DEF Echo, Types
  <2>3. CASE toServer' = [f \in Fds |-> 0] /\ UNCHANGED toClient
    BY <1>1, <2>3 DEF Types
  <2>4. CASE UNCHANGED <<toServer, toClient>>
    BY <1>1, <2>4 DEF Types
  <2> QED
    BY <2>1, <2>2, <2>3, <2>4 DEF OtherStep, Arrive, Accept, Open, ServerEnds, AcceptFails,
       Dies, network
<1> QED
  BY <1>1, <1>2, <1>3, <1>4, <1>5, <1>6, <1>7 DEF Types, client

LEMMA OtherConnect ==
    ASSUME IInv, OtherStep
    PROVE  ConnectInv'
<1>1. Types
  BY DEF IInv
<1>2. UNCHANGED <<client, nonblocking>>
  BY DEF OtherStep, Send, Arrive, Accept, Echo, Open, ServerEnds, AcceptFails, Dies
<1>3. \A f \in Fds : Moves(f)
  <2>1. CASE UNCHANGED socket
    BY <2>1 DEF Moves
  <2>2. CASE \E g \in Fds : Arrive(g)
    BY <1>1, <2>2 DEF Arrive, Moves, Types, Gone
  <2>3. CASE Dies
    BY <1>1, <2>3 DEF Dies, Moves, Types, Gone
  <2> QED
    BY <2>1, <2>2, <2>3 DEF OtherStep, Send, Accept, Echo, Open, ServerEnds, AcceptFails
<1> QED
  BY <1>2, <1>3, MovesConnect DEF client

LEMMA ConnectStep == IInv /\ [Next]_vars => IInv'
<1> SUFFICES ASSUME IInv, [Next]_vars PROVE Types' /\ ConnectInv'
  BY DEF IInv
<1>1. CASE UNCHANGED vars
  <2>1. \A f \in Fds : Moves(f)
    BY <1>1 DEF vars, Moves
  <2>2. ConnectInv'
    BY <1>1, <2>1, MovesConnect DEF vars, client
  <2>3. Types
    BY DEF IInv
  <2>4. Types'
    BY <1>1, <2>3 DEF vars, client, server, network, Types
  <2> QED
    BY <2>2, <2>4
<1>2. ASSUME NEW h \in Handlers, NEW t \in TimeOuts, Connect(h, t) \/ ConnectWithoutSocket(h, t)
      PROVE  Types' /\ ConnectInv'
  BY <1>2, CallTypes, ConnectConnect, WithoutSocketConnect
<1>3. CASE MainStep
  BY <1>3, MainTypes, SysConnectConnect, WaitedConnect, FinishConnect DEF MainStep
<1>4. ASSUME NEW f \in Fds, HandleOutput(f) \/ HandleInput(f)
      PROVE  Types' /\ ConnectInv'
  BY <1>4, ReactorTypes, HandleOutputConnect, HandleInputConnect
<1>5. CASE OtherStep
  BY <1>5, OtherTypes, OtherConnect
<1> QED
  BY <1>1, <1>2, <1>3, <1>4, <1>5 DEF Next, OtherStep

LEMMA ConnectHolds == Spec => []IInv
BY InitConnect, ConnectStep, PTL DEF Spec

\* Every variable keeps its type, and a call of connect() blocks in the system, or waits
\* in select(), only if its timeout and O_NONBLOCK say so (SockConnector.cpp:66-140).
THEOREM TypeCorrect == Spec => []TypeOK
<1>1. IInv => TypeOK
  BY DEF IInv, ConnectInv, Types, CallInv, TypeOK
<1> QED
  BY <1>1, ConnectHolds, PTL

\* A handler that was activated, at once or later by the Reactor, has a connection that
\* no other handler has (SockConnector.cpp:66-140, Connector.cpp:155-171).
THEOREM ActiveIsConnectedHolds == Spec => []ActiveIsConnected
<1>1. IInv => ActiveIsConnected
  BY DEF IInv, ConnectInv, HandleInv, OwnInv, Owns, ActiveIsConnected, Live
<1> QED
  BY <1>1, ConnectHolds, PTL

\* The client's Reactor has the wrapper for a pending connection, the handler for one
\* that is open, and nothing for a descriptor that was closed (Connector.cpp:155-171, 272).
THEOREM WatchedByOwnerHolds == Spec => []WatchedByOwner
<1>1. IInv => WatchedByOwner
  <2> SUFFICES ASSUME IInv PROVE WatchedByOwner
    OBVIOUS
  <2>1. Types /\ HandleInv /\ RepositoryInv
    BY DEF IInv, ConnectInv
  <2>2. \A f \in Fds : socket[f] = "closed" => repository[f] = NoEntry
    <3>1. ASSUME NEW f \in Fds, repository[f] # NoEntry PROVE socket[f] # "closed"
      <4>1. PICK h \in Handlers : handle[h] = f /\ outcome[h] \in {"pending", "active"}
        BY <2>1, <3>1 DEF RepositoryInv
      <4> QED
        BY <2>1, <4>1 DEF HandleInv, Owns
    <3> QED
      BY <3>1
  <2> QED
    BY <2>1, <2>2 DEF RepositoryInv, WatchedByOwner, Wrapper, Handler
<1> QED
  BY <1>1, ConnectHolds, PTL

-------------------------------------------------------------------------------
(* What is on its way, and the connections of the abstract specification.  *)

\* Nothing is on its way but on a connection, nor to a server that is gone, nor on
\* one that a call has given up.
NetInv ==
    /\ \A f \in Fds : toServer[f] > 0 => socket[f] = "connected"
    /\ \A f \in Fds : toClient[f] > 0 => socket[f] \in Gone \cup {"connected"}
    /\ LET f == handle[call.handler] IN
       call.at = "finish" /\ call.result = "error" /\ f \in Fds =>
           toServer[f] = 0 /\ (toClient[f] = 0 \/ socket[f] \in Gone)

LEMMA InitNet == Init => NetInv
<1> SUFFICES ASSUME Init PROVE NetInv
  OBVIOUS
<1>1. call.at = "returned"
  BY DEF Init
<1>2. \A f \in Fds : toServer[f] = 0 /\ toClient[f] = 0
  BY DEF Init
<1> QED
  BY <1>1, <1>2 DEF NetInv

LEMMA NetStep == IInv /\ NetInv /\ [Next]_vars => NetInv'
<1> USE AcceptorConnectorAssumption
<1> SUFFICES ASSUME IInv, NetInv, [Next]_vars PROVE NetInv'
  OBVIOUS
<1>0. Types /\ CallInv
  BY DEF IInv, ConnectInv
<1> DEFINE g == handle[call.handler]
<1>1. CASE UNCHANGED vars
  BY <1>1 DEF vars, client, server, network, NetInv
<1>2. ASSUME NEW h \in Handlers, NEW t \in TimeOuts, Connect(h, t) PROVE NetInv'
  <2>1. \A f \in Fds : socket'[f] = socket[f] \/ (socket[f] = "closed" /\ socket'[f] = "fresh")
    BY <1>0, <1>2, ConnectHandle DEF Types
  <2>2. call'.at = "connect" /\ UNCHANGED <<toServer, toClient>>
    BY <1>2 DEF Connect, network
  <2> QED
    BY <2>1, <2>2 DEF NetInv, Gone
<1>3. ASSUME NEW h \in Handlers, NEW t \in TimeOuts, ConnectWithoutSocket(h, t) PROVE NetInv'
  <2>1. handle[h] = Invalid
    BY <1>3 DEF IInv, ConnectInv, HandleInv, ConnectWithoutSocket, Calling
  <2>2. call'.handler = h /\ UNCHANGED <<handle, socket, toServer, toClient>>
    BY <1>3 DEF ConnectWithoutSocket, network
  <2> QED
    BY <2>1, <2>2 DEF NetInv
<1>4. CASE SysConnect
  <2>0. call.at = "connect" /\ g \in Fds
    BY <1>0, <1>4 DEF SysConnect, CallInv
  <2>1. /\ UNCHANGED <<handle, toServer, toClient>> /\ call'.handler = call.handler
        /\ \A f \in Fds : \/ socket'[f] = socket[f]
                          \/ socket[f] = "fresh" /\ socket'[f] \in {"connecting", "refused"}
    <3>1. PICK at \in {"blocked", "select", "finish"}, result \in {"ok", "wouldblock", "error"} :
              Goes(at, result)
      BY <1>4 DEF SysConnect
    <3>2. call'.handler = call.handler
      BY <1>0, <3>1, CallFacts DEF Goes
    <3> QED
      BY <1>0, <1>4, <3>2 DEF SysConnect, network, Types
  <2>2. call'.at = "finish" /\ call'.result = "error" =>
            socket'[g] \in {"connecting", "refused", "reset"}
    BY <1>0, <1>4, <2>0, CallFacts DEF SysConnect, Goes, Types
  <2> QED
    BY <1>0, <2>0, <2>1, <2>2 DEF NetInv, Gone, Types
<1>5. CASE Unblocked \/ TimedComplete
  <2>0. call.at \in {"blocked", "select"} /\ g \in Fds
    BY <1>0, <1>5 DEF Unblocked, TimedComplete, CallInv
  <2>1. UNCHANGED <<handle, socket, toServer, toClient>> /\ call'.handler = call.handler
    <3>1. PICK result \in {"ok", "timedout", "error"} : Goes("finish", result)
      BY <1>5 DEF Unblocked, TimedComplete, Selected
    <3>2. call'.handler = call.handler
      BY <1>0, <3>1, CallFacts DEF Goes
    <3> QED
      BY <1>5, <3>2 DEF Unblocked, TimedComplete, network
  <2>2. call'.at = "finish" /\ call'.result = "error" => socket[g] \in {"refused", "reset"}
    BY <1>0, <1>5, CallFacts DEF Unblocked, TimedComplete, Goes, Selected
  <2> QED
    BY <1>0, <2>0, <2>1, <2>2 DEF NetInv, Gone, Types
<1>6. CASE Finish
  <2>1. call'.at = "returned" /\ UNCHANGED <<handle, toServer>>
    BY <1>0, <1>6, CallFacts DEF Finish
  <2>2. CASE UNCHANGED <<socket, toClient>>
    BY <2>1, <2>2 DEF NetInv
  <2>3. CASE call.result = "error" /\ socket' = Closed(g)
             /\ toClient' = [f \in Fds |-> IF f = g THEN 0 ELSE toClient[f]]
    <3>1. call.at = "finish"
      BY <1>6 DEF Finish
    <3> QED
      BY <1>0, <2>1, <2>3, <3>1 DEF NetInv, Closed, Types
  <2> QED
    BY <1>0, <1>6, <2>2, <2>3, CallFacts DEF Finish, FinishConnected, FinishWouldBlock
<1>7. ASSUME NEW h \in Handlers, Send(h) PROVE NetInv'
  <2>1. call.at = "returned" /\ UNCHANGED <<call, socket, toClient>>
    BY <1>7 DEF Send, Idle, client
  <2>2. \A f \in Fds : toServer'[f] = toServer[f] \/ socket[f] = "connected"
    BY <1>0, <1>7 DEF Send, Types
  <2> QED
    BY <2>1, <2>2 DEF NetInv
<1>8. ASSUME NEW f \in Fds, HandleOutput(f) PROVE NetInv'
  BY <1>8 DEF HandleOutput, network, NetInv
<1>9. ASSUME NEW f \in Fds, HandleInput(f) PROVE NetInv'
  <2>1. UNCHANGED <<handle, call, socket, toServer>> /\ \A k \in Fds : toClient'[k] \in {0, toClient[k]}
    BY <1>0, <1>9 DEF HandleInput, Types
  <2> QED
    BY <1>0, <2>1 DEF NetInv, Types
<1>10. ASSUME NEW f \in Fds, Arrive(f) PROVE NetInv'
  <2>1. UNCHANGED <<handle, call, toServer, toClient>>
    BY <1>10 DEF Arrive, client, network
  <2>2. \A k \in Fds : socket'[k] = socket[k] \/ socket[k] = "connecting"
    BY <1>0, <1>10 DEF Arrive, Types
  <2> QED
    BY <1>0, <2>1, <2>2 DEF NetInv, Types, Gone
<1>11. ASSUME NEW f \in Fds, Accept(f) PROVE NetInv'
  BY <1>11 DEF Accept, client, network, NetInv
<1>12. ASSUME NEW f \in Fds, Echo(f) PROVE NetInv'
  <2>1. UNCHANGED <<handle, call, socket>> /\ toServer[f] > 0
    BY <1>12 DEF Echo, client
  <2>2. \A k \in Fds \ {f} : toServer'[k] = toServer[k] /\ toClient'[k] = toClient[k]
    BY <1>0, <1>12 DEF Echo, Types
  <2>3. toServer'[f] = 0
    BY <1>0, <1>12 DEF Echo, Types
  <2> QED
    BY <1>0, <2>1, <2>2, <2>3 DEF NetInv, Types
<1>13. CASE Dies
  <2>1. UNCHANGED <<handle, call, toClient>> /\ \A f \in Fds : toServer'[f] = 0
    BY <1>13 DEF Dies, client
  <2>2. \A f \in Fds : socket'[f] = socket[f] \/ (socket[f] = "connected" /\ socket'[f] \in Gone)
    BY <1>0, <1>13 DEF Dies, Types, Gone
  <2> QED
    BY <1>0, <2>1, <2>2 DEF NetInv, Types
<1>14. CASE Open \/ ServerEnds \/ AcceptFails
  BY <1>13, <1>14 DEF Open, ServerEnds, AcceptFails, client, network, NetInv
<1> QED
  BY <1>1, <1>2, <1>3, <1>4, <1>5, <1>6, <1>7, <1>8, <1>9, <1>10, <1>11, <1>12, <1>14
  DEF Next, MainStep

\* A step that leaves the call and the outcome of a handler alone, and its connection
\* if it owns one, or moves what is on its way from one direction to the other.
LEMMA Undisturbed ==
    ASSUME Types, NEW k \in Handlers, UNCHANGED killed,
           handle'[k] = handle[k], outcome'[k] = outcome[k], Calling(k)' <=> Calling(k),
           HandleInv,
           Owns(k) =>
               /\ socket'[handle[k]] \in Gone <=> socket[handle[k]] \in Gone
               /\ socket[handle[k]] \notin Gone =>
                      toServer'[handle[k]] + toClient'[handle[k]]
                          = toServer[handle[k]] + toClient[handle[k]]
    PROVE  Status(k)' = Status(k) /\ Owed(k)' = Owed(k)
<1>1. CASE Owns(k)
  <2>1. EndIsGone(k)' <=> EndIsGone(k)
    BY <1>1 DEF EndIsGone
  <2>2. Status(k)' = Status(k)
    BY <2>1 DEF Status
  <2> QED
    BY <1>1, <2>1, <2>2 DEF Owed, EndIsGone
<1>2. CASE ~Owns(k)
  <2>1. outcome[k] \in {"none", "failed"} /\ (Calling(k) => handle[k] = Invalid)
    BY <1>2 DEF Owns, Types, Outcomes
  <2>2. Status(k)' = Status(k) /\ (Status(k) \in {"idle", "failed", "ended"} \/ handle[k] \notin Fds)
    BY <2>1, AcceptorConnectorAssumption DEF Status
  <2>3. Owed(k) = 0 /\ Owed(k)' = 0
    BY <2>2 DEF Owed
  <2> QED
    BY <2>2, <2>3
<1> QED
  BY <1>1, <1>2

LEMMA NoStep ==
    ASSUME \A k \in Handlers : Status(k)' = Status(k) /\ Owed(k)' = Owed(k)
    PROVE  UNCHANGED Promise!vars
BY DEF Promise!vars

\* One handler takes a step.
LEMMA OneStatus ==
    ASSUME NEW h \in Handlers, \A k \in Handlers \ {h} : Status(k)' = Status(k)
    PROVE  [k \in Handlers |-> Status(k)]'
              = [[k \in Handlers |-> Status(k)] EXCEPT ![h] = Status(h)']
OBVIOUS

LEMMA OneOwed ==
    ASSUME NEW h \in Handlers, \A k \in Handlers \ {h} : Owed(k)' = Owed(k)
    PROVE  [k \in Handlers |-> Owed(k)]'
              = [[k \in Handlers |-> Owed(k)] EXCEPT ![h] = Owed(h)']
OBVIOUS

\* Two handlers that own a descriptor own different ones.
LEMMA OwnersApart ==
    ASSUME IInv, NEW h \in Handlers, NEW k \in Handlers \ {h}, Owns(h), Owns(k)
    PROVE  handle[k] \in Fds /\ handle[h] \in Fds /\ handle[k] # handle[h]
BY AcceptorConnectorAssumption DEF IInv, ConnectInv, OwnInv, HandleInv, Owns, Types

\* connect() is called.
LEMMA ConnectAsks ==
    ASSUME IInv, NetInv, ~killed, NEW h \in Handlers, NEW t \in TimeOuts,
           Connect(h, t) \/ ConnectWithoutSocket(h, t)
    PROVE  Promise!Ask(h)
<1> USE AcceptorConnectorAssumption
<1>0. Types /\ HandleInv /\ OwnInv /\ Idle /\ outcome[h] \in {"none", "timedout"} /\ ~Calling(h)
  BY DEF IInv, ConnectInv, Connect, ConnectWithoutSocket, Calling
<1>1. /\ Calling(h)' /\ \A k \in Handlers \ {h} : ~Calling(k) /\ ~Calling(k)'
      /\ UNCHANGED <<outcome, toServer, toClient, killed>>
  BY <1>0 DEF Connect, ConnectWithoutSocket, network, Calling, Idle
<1>2. /\ \A k \in Handlers \ {h} : handle'[k] = handle[k]
      /\ \A k \in Handlers \ {h} : Owns(k) => socket'[handle[k]] = socket[handle[k]]
      /\ Owed(h)' = Owed(h)
  <2>1. CASE Connect(h, t)
    <3> DEFINE f == handle'[h]
    <3>1. /\ f \in Fds
          /\ handle' = [handle EXCEPT ![h] = f]
          /\ \/ /\ outcome[h] = "timedout" /\ handle[h] = f /\ UNCHANGED socket
             \/ /\ socket[f] = "closed" /\ socket' = [socket EXCEPT ![f] = "fresh"]
      BY <2>1, ConnectHandle
    <3>2. \A k \in Handlers \ {h} : handle'[k] = handle[k]
      BY <1>0, <3>1 DEF Types
    <3>3. ASSUME NEW k \in Handlers, Owns(k) PROVE socket'[handle[k]] = socket[handle[k]]
      <4>1. socket[handle[k]] # "closed" /\ handle[k] \in Fds
        BY <1>0, <3>3 DEF HandleInv, Owns, Types
      <4> QED
        BY <1>0, <3>1, <4>1 DEF Types
    <3>4. ASSUME outcome[h] = "timedout", handle[h] = f, UNCHANGED socket
          PROVE  Owed(h)' = Owed(h)
      <4>1. handle'[h] = handle[h]
        BY <3>4
      <4> HIDE DEF f
      <4> QED
        BY <1>0, <1>1, <3>4, <4>1 DEF Owed, Status, EndIsGone
    <3>5. ASSUME socket[f] = "closed", socket' = [socket EXCEPT ![f] = "fresh"]
          PROVE  Owed(h)' = Owed(h)
      <4>1. socket'[f] = "fresh" /\ toServer[f] = 0 /\ toClient[f] = 0
        BY <1>0, <3>1, <3>5 DEF Types, NetInv, Gone
      <4>2. Owed(h)' = 0
        BY <1>1, <4>1 DEF Owed
      <4>3. outcome[h] = "none"
        <5> SUFFICES ASSUME outcome[h] = "timedout" PROVE FALSE
          BY <1>0
        <5>1. handle[h] \in Fds /\ socket[handle[h]] # "closed"
          BY <1>0, <3>3 DEF HandleInv, Owns
        <5>2. f = handle[h]
          BY <2>1, <5>1 DEF Connect
        <5> QED
          BY <3>5, <5>1, <5>2
      <4>4. Owed(h) = 0
        BY <1>0, <4>3 DEF Owed, Status
      <4> QED
        BY <4>2, <4>4
    <3> QED
      BY <3>1, <3>2, <3>3, <3>4, <3>5
  <2>2. CASE ConnectWithoutSocket(h, t)
    <3>1. handle[h] = Invalid /\ UNCHANGED <<handle, socket>>
      BY <1>0, <2>2 DEF ConnectWithoutSocket, HandleInv
    <3> QED
      BY <3>1 DEF Owed
  <2> QED
    BY <2>1, <2>2
<1>3. \A k \in Handlers \ {h} : Status(k)' = Status(k) /\ Owed(k)' = Owed(k)
  BY <1>0, <1>1, <1>2, Undisturbed
<1>4. Status(h) \in {"idle", "timedout"} /\ Status(h)' = "calling"
  BY <1>0, <1>1 DEF Status
<1> QED
  BY <1>2, <1>3, <1>4, OneStatus DEF Promise!Ask

\* A handler is at its end, and nothing is owed to it.
LEMMA OneEnds ==
    ASSUME NEW h \in Handlers, \A k \in Handlers \ {h} : Status(k)' = Status(k) /\ Owed(k)' = Owed(k),
           Status(h)' = "ended", Owed(h)' = 0
    PROVE  Promise!Next
<1>1. Promise!End({h})
  <2> SUFFICES \E G \in SUBSET {h} :
                   /\ \A k \in {h} \ G : [j \in Handlers |-> Status(j)][k] # "active"
                   /\ [k \in Handlers |-> Status(k)]'
                          = [k \in Handlers |-> IF k \in G THEN "ended" ELSE [j \in Handlers |-> Status(j)][k]]
    BY DEF Promise!End
  <2> WITNESS {h} \in SUBSET {h}
  <2> QED
    OBVIOUS
<1> QED
  BY <1>1 DEF Promise!Next

\* connect() returns.
LEMMA FinishAnswers ==
    ASSUME IInv, NetInv, ~killed, Finish
    PROVE  Promise!Next
<1> USE AcceptorConnectorAssumption
<1>1. PICK h \in Handlers : h = call.handler
  BY CallFacts DEF IInv
<1>2. PICK f : f = handle[h]
  OBVIOUS
<1>3. /\ Types /\ HandleInv /\ call.at = "finish" /\ Calling(h) /\ outcome[h] \in {"none", "timedout"}
      /\ call.result # "error" => f \in Fds
      /\ call.result = "ok" => socket[f] \in Gone \cup {"connected"}
  BY <1>1, <1>2 DEF IInv, ConnectInv, CallInv, Finish, Calling, Idle
<1>4. /\ ~Calling(h)' /\ UNCHANGED <<handle, toServer, killed>>
      /\ \A k \in Handlers \ {h} : ~Calling(k) /\ ~Calling(k)'
  BY <1>1, <1>3, CallFacts DEF Finish, Calling, Idle
<1>5. \/ /\ call.result = "ok" /\ outcome' = [outcome EXCEPT ![h] = "active"] /\ UNCHANGED <<socket, toClient>>
      \/ /\ call.result = "wouldblock" /\ outcome' = [outcome EXCEPT ![h] = "pending"]
         /\ UNCHANGED <<socket, toClient>>
      \/ /\ call.result = "timedout" /\ outcome' = [outcome EXCEPT ![h] = "timedout"]
         /\ UNCHANGED <<socket, toClient>>
      \/ /\ call.result = "error" /\ outcome' = [outcome EXCEPT ![h] = "failed"]
         /\ socket' = Closed(f) /\ toClient' = [g \in Fds |-> IF g = f THEN 0 ELSE toClient[g]]
  BY <1>1, <1>2 DEF Finish, FinishConnected, FinishWouldBlock
<1>6. \A g \in Fds \ {f} : socket'[g] = socket[g] /\ toClient'[g] = toClient[g]
  BY <1>3, <1>5 DEF Types, Closed
<1>7. ASSUME NEW k \in Handlers \ {h} PROVE Status(k)' = Status(k) /\ Owed(k)' = Owed(k)
  <2>1. outcome'[k] = outcome[k]
    BY <1>3, <1>5 DEF Types
  <2>2. Owns(k) => handle[k] \in Fds \ {f}
    <3>1. f \in Fds => Owns(h)
      BY <1>2, <1>3 DEF Owns
    <3>2. Owns(k) => handle[k] \in Fds
      BY <1>3, <1>4 DEF Owns, HandleInv
    <3> QED
      BY <1>2, <3>1, <3>2, OwnersApart
  <2> QED
    BY <1>3, <1>4, <1>6, <2>1, <2>2, Undisturbed
<1>8. Status(h) = "calling"
  BY <1>3 DEF Status
<1>9. ASSUME NEW s \in {"active", "pending", "timedout", "failed"}, Status(h)' = s, Owed(h)' = Owed(h)
      PROVE  Promise!Next
  <2>1. \A k \in Handlers : Owed(k)' = Owed(k)
    BY <1>7, <1>9
  <2>2. Promise!Answer(h)
    BY <1>7, <1>8, <1>9, <2>1, OneStatus DEF Promise!Answer
  <2> QED
    BY <2>2 DEF Promise!Next
<1>10. CASE call.result = "ok"
  <2>1. outcome'[h] = "active" /\ UNCHANGED <<socket, toClient>>
    BY <1>3, <1>5, <1>10 DEF Types
  <2>2. CASE socket[f] \in Gone
    <3>1. EndIsGone(h) /\ EndIsGone(h)' /\ Status(h)' = "ended"
      BY <1>2, <1>3, <1>4, <1>10, <2>1, <2>2 DEF EndIsGone, Status
    <3>2. Owed(h)' = 0
      BY <3>1 DEF Owed
    <3> QED
      BY <1>7, <3>1, <3>2, OneEnds
  <2>3. CASE socket[f] \notin Gone
    <3>1. Status(h)' = "active"
      BY <1>2, <1>4, <2>1, <2>3 DEF EndIsGone, Status
    <3>2. Owed(h)' = Owed(h)
      BY <1>4, <1>8, <2>1, <3>1 DEF Owed, EndIsGone
    <3> QED
      BY <1>9, <3>1, <3>2
  <2> QED
    BY <2>2, <2>3
<1>11. ASSUME NEW s \in {"pending", "timedout"}, outcome'[h] = s, UNCHANGED <<socket, toClient>>
       PROVE  Promise!Next
  <2>1. Status(h)' = s
    BY <1>4, <1>11 DEF Status
  <2>2. Owed(h)' = Owed(h)
    BY <1>4, <1>8, <1>11, <2>1 DEF Owed, EndIsGone
  <2> QED
    BY <1>9, <2>1, <2>2
<1>12. CASE call.result = "error"
  <2>1. outcome'[h] = "failed"
    BY <1>3, <1>5, <1>12 DEF Types
  <2>2. Status(h)' = "failed" /\ Owed(h)' = 0
    BY <1>4, <2>1 DEF Status, Owed
  <2>3. f \in Fds => toServer[f] = 0 /\ (toClient[f] = 0 \/ socket[f] \in Gone)
    BY <1>1, <1>2, <1>3, <1>12 DEF NetInv
  <2>4. Owed(h) = 0
    BY <1>2, <2>3 DEF Owed, EndIsGone
  <2> QED
    BY <1>9, <2>2, <2>4
<1>13. \/ outcome'[h] \in {"pending", "timedout"} /\ UNCHANGED <<socket, toClient>>
       \/ call.result \in {"ok", "error"}
  BY <1>3, <1>5 DEF Types
<1> QED
  BY <1>10, <1>11, <1>12, <1>13

\* A message is sent: to the handler that owns the descriptor, if any does.
LEMMA SendSends ==
    ASSUME IInv, ~killed, NEW h \in Handlers, Send(h)
    PROVE  Promise!Next \/ UNCHANGED Promise!vars
<1> USE AcceptorConnectorAssumption
<1>1. PICK f : f = handle[h]
  OBVIOUS
<1>2. /\ Types /\ HandleInv /\ Idle /\ Idle' /\ UNCHANGED <<handle, outcome, call, socket, toClient>>
      /\ \A k \in Handlers : ~Calling(k) /\ ~Calling(k)'
  BY DEF IInv, ConnectInv, Send, client, Idle, Calling
<1>3. ASSUME killed' PROVE Promise!Next
  <2>1. \A k \in Handlers : Status(k)' = "ended" /\ Owed(k)' = 0
    BY <1>3 DEF Status, Owed
  <2>2. Promise!End(Handlers)
    <3> SUFFICES \E G \in SUBSET Handlers :
                     /\ \A k \in Handlers \ G : [j \in Handlers |-> Status(j)][k] # "active"
                     /\ [k \in Handlers |-> Status(k)]'
                            = [k \in Handlers |-> IF k \in G THEN "ended" ELSE [j \in Handlers |-> Status(j)][k]]
      BY <2>1 DEF Promise!End
    <3> WITNESS Handlers \in SUBSET Handlers
    <3> QED
      BY <2>1
  <2> QED
    BY <2>2 DEF Promise!Next
<1>4. CASE ~killed' /\ UNCHANGED toServer
  <2>1. \A k \in Handlers : Status(k)' = Status(k) /\ Owed(k)' = Owed(k)
    BY <1>2, <1>4 DEF Status, Owed, EndIsGone, Calling
  <2> QED
    BY <2>1, NoStep
<1>5. ASSUME f \in Fds, socket[f] = "connected", UNCHANGED killed, toServer' = [toServer EXCEPT ![f] = @ + 1]
      PROVE  Promise!Next \/ UNCHANGED Promise!vars
  <2>0. toServer'[f] = toServer[f] + 1 /\ \A g \in Fds \ {f} : toServer'[g] = toServer[g]
    BY <1>2, <1>5 DEF Types
  <2>1. CASE \E k \in Handlers : Owns(k) /\ handle[k] = f
    <3>1. PICK k \in Handlers : Owns(k) /\ handle[k] = f
      BY <2>1
    <3>2. ASSUME NEW j \in Handlers \ {k} PROVE Status(j)' = Status(j) /\ Owed(j)' = Owed(j)
      <4>1. Owns(j) => handle[j] \in Fds \ {f}
        BY <3>1, OwnersApart
      <4> QED
        BY <1>2, <1>5, <2>0, <4>1, Undisturbed
    <3>3. outcome[k] \in {"active", "pending", "timedout"} /\ ~EndIsGone(k) /\ ~EndIsGone(k)'
      BY <1>2, <1>5, <3>1 DEF Owns, EndIsGone, Gone
    <3>4. Status(k) = outcome[k] /\ Status(k)' = outcome[k]
      BY <1>2, <1>5, <3>3 DEF Status
    <3>5. Owed(k)' = Owed(k) + 1
      <4>1. Owed(k) = toServer[f] + toClient[f] /\ Owed(k)' = toServer'[f] + toClient[f]
        BY <1>2, <1>5, <3>1, <3>3, <3>4 DEF Owed
      <4>2. toServer[f] \in Nat /\ toClient[f] \in Nat
        BY <1>2, <1>5 DEF Types
      <4> QED
        BY <2>0, <4>1, <4>2
    <3>6. Promise!Send(k)
      BY <3>2, <3>3, <3>4, <3>5, OneOwed DEF Promise!Send
    <3> QED
      BY <3>6 DEF Promise!Next
  <2>2. CASE ~\E k \in Handlers : Owns(k) /\ handle[k] = f
    <3>1. ASSUME NEW k \in Handlers PROVE Status(k)' = Status(k) /\ Owed(k)' = Owed(k)
      <4>1. Owns(k) => handle[k] \in Fds \ {f}
        BY <1>2, <2>2 DEF Owns, HandleInv
      <4> QED
        BY <1>2, <1>5, <2>0, <4>1, Undisturbed
    <3> QED
      BY <3>1, NoStep
  <2> QED
    BY <2>1, <2>2
<1>6. \/ f \in Fds /\ socket[f] = "connected" /\ UNCHANGED killed /\ toServer' = [toServer EXCEPT ![f] = @ + 1]
      \/ killed'
      \/ ~killed' /\ UNCHANGED toServer
  BY <1>1 DEF Send
<1> QED
  BY <1>3, <1>4, <1>5, <1>6

\* A pending connection is settled by the Reactor.
LEMMA HandleOutputSettles ==
    ASSUME IInv, NetInv, ~killed, NEW f \in Fds, HandleOutput(f)
    PROVE  Promise!Next
<1> USE AcceptorConnectorAssumption
<1>1. Types /\ CallInv /\ HandleInv /\ RepositoryInv
  BY DEF IInv, ConnectInv
<1>2. PICK h \in Handlers : handle[h] = f /\ outcome[h] = "pending" /\ repository[f] = Wrapper(h)
  BY <1>1, EntryFacts DEF RepositoryInv, HandleOutput
<1>3. /\ UNCHANGED <<handle, call, socket, toServer, toClient, killed>>
      /\ \/ socket[f] \in {"connected", "hungup"} /\ outcome' = [outcome EXCEPT ![h] = "active"]
         \/ socket[f] \in {"refused", "reset"} /\ outcome' = [outcome EXCEPT ![h] = "failed"]
  BY <1>2, EntryFacts DEF HandleOutput, HasRemoteAddr, network
<1>4. ~Calling(h) /\ ~Calling(h)'
  BY <1>1, <1>2, <1>3 DEF CallInv, Calling, Idle
<1>5. \A k \in Handlers : Calling(k)' <=> Calling(k)
  BY <1>3 DEF Calling, Idle
<1>6. ASSUME NEW k \in Handlers \ {h} PROVE Status(k)' = Status(k) /\ Owed(k)' = Owed(k)
  <2>1. outcome'[k] = outcome[k]
    BY <1>1, <1>3 DEF Types
  <2> QED
    BY <1>1, <1>3, <1>5, <2>1, Undisturbed
<1>7. Status(h) = "pending"
  BY <1>2, <1>4 DEF Status
<1>8. ASSUME NEW s \in {"active", "failed"}, Status(h)' = s, Owed(h)' = Owed(h)
      PROVE  Promise!Next
  <2>1. \A k \in Handlers : Owed(k)' = Owed(k)
    BY <1>6, <1>8
  <2>2. Promise!Settle(h)
    BY <1>6, <1>7, <1>8, <2>1, OneStatus DEF Promise!Settle
  <2> QED
    BY <2>2 DEF Promise!Next
<1>9. CASE socket[f] = "connected"
  <2>1. outcome'[h] = "active" /\ ~EndIsGone(h) /\ ~EndIsGone(h)'
    BY <1>1, <1>2, <1>3, <1>9 DEF Types, EndIsGone, Gone
  <2>2. Status(h)' = "active"
    BY <1>3, <1>4, <2>1 DEF Status
  <2>3. Owed(h)' = Owed(h)
    BY <1>3, <1>7, <2>1, <2>2 DEF Owed
  <2> QED
    BY <1>8, <2>2, <2>3
<1>10. CASE socket[f] = "hungup"
  <2>1. outcome'[h] = "active" /\ EndIsGone(h)'
    BY <1>1, <1>2, <1>3, <1>10 DEF Types, EndIsGone, Gone
  <2>2. Status(h)' = "ended" /\ Owed(h)' = 0
    BY <2>1 DEF Status, Owed
  <2> QED
    BY <1>6, <2>2, OneEnds
<1>11. CASE socket[f] \in {"refused", "reset"}
  <2>1. outcome'[h] = "failed"
    BY <1>1, <1>3, <1>11 DEF Types
  <2>2. Status(h)' = "failed" /\ Owed(h)' = 0
    BY <1>3, <1>4, <2>1 DEF Status, Owed
  <2>3. socket[f] \in Gone \/ (toServer[f] = 0 /\ toClient[f] = 0)
    BY <1>1, <1>11 DEF NetInv, Gone, Types
  <2>4. Owed(h) = 0
    BY <1>2, <2>3 DEF Owed, EndIsGone
  <2> QED
    BY <1>8, <2>2, <2>4
<1> QED
  BY <1>3, <1>9, <1>10, <1>11

\* An answer is read.
LEMMA HandleInputReplies ==
    ASSUME IInv, NetInv, ~killed, NEW f \in Fds, HandleInput(f)
    PROVE  Promise!Next \/ UNCHANGED Promise!vars
<1> USE AcceptorConnectorAssumption
<1>1. Types /\ CallInv /\ HandleInv /\ RepositoryInv
  BY DEF IInv, ConnectInv
<1>2. PICK h \in Handlers : handle[h] = f /\ outcome[h] = "active"
  BY <1>1, EntryFacts DEF RepositoryInv, HandleInput
<1>3. /\ UNCHANGED <<handle, outcome, call, socket, toServer, killed>>
      /\ \A k \in Handlers : Calling(k)' <=> Calling(k)
  BY DEF HandleInput, Calling, Idle
<1>4. CASE UNCHANGED toClient
  <2>1. \A k \in Handlers : Status(k)' = Status(k) /\ Owed(k)' = Owed(k)
    BY <1>1, <1>3, <1>4, Undisturbed
  <2> QED
    BY <2>1, NoStep
<1>5. ASSUME toClient[f] > 0, toClient' = [toClient EXCEPT ![f] = 0]
      PROVE  Promise!Next \/ UNCHANGED Promise!vars
  <2>0. toClient'[f] = 0 /\ \A g \in Fds \ {f} : toClient'[g] = toClient[g]
    BY <1>1, <1>5 DEF Types
  <2>1. ASSUME NEW k \in Handlers \ {h} PROVE Status(k)' = Status(k) /\ Owed(k)' = Owed(k)
    <3>1. Owns(h)
      BY <1>2 DEF Owns
    <3>2. Owns(k) => handle[k] \in Fds \ {f}
      BY <1>2, <3>1, OwnersApart
    <3> QED
      BY <1>1, <1>3, <2>0, <3>2, Undisturbed
  <2>2. Status(h)' = Status(h) /\ (EndIsGone(h)' <=> EndIsGone(h))
    BY <1>3 DEF Status, EndIsGone
  <2>3. CASE EndIsGone(h)
    <3>1. Owed(h)' = 0 /\ Owed(h) = 0
      BY <2>2, <2>3 DEF Owed
    <3>2. \A k \in Handlers : Status(k)' = Status(k) /\ Owed(k)' = Owed(k)
      BY <2>1, <2>2, <3>1
    <3> QED
      BY <3>2, NoStep
  <2>4. CASE ~EndIsGone(h)
    <3>1. Status(h) = "active"
      BY <1>1, <1>2, <2>4 DEF Status, Calling, CallInv
    <3>2. Owed(h) = toServer[f] + toClient[f] /\ Owed(h)' = toServer[f] + 0
      BY <1>2, <1>3, <2>0, <2>2, <2>4, <3>1 DEF Owed
    <3>3. /\ toServer[f] \in Nat /\ toClient[f] \in Nat
      BY <1>1 DEF Types
    <3>4. Owed(h) > 0 /\ Owed(h)' \in 0 .. Owed(h) - 1
      BY <1>5, <3>2, <3>3
    <3>5. \A k \in Handlers : Status(k)' = Status(k)
      BY <2>1, <2>2
    <3>6. Promise!Reply(h)
      BY <2>1, <3>1, <3>4, <3>5, OneOwed DEF Promise!Reply
    <3> QED
      BY <3>6 DEF Promise!Next
  <2> QED
    BY <2>3, <2>4
<1> QED
  BY <1>4, <1>5 DEF HandleInput

\* The server's program ends: whoever has a connection is at its end, or will be told.
LEMMA DiesEnds ==
    ASSUME IInv, NetInv, ~killed, Dies
    PROVE  Promise!Next
<1> USE AcceptorConnectorAssumption
<1>1. Types /\ CallInv /\ HandleInv
  BY DEF IInv, ConnectInv
<1>2. /\ UNCHANGED <<handle, outcome, call, toClient, killed>>
      /\ \A k \in Handlers : Calling(k)' <=> Calling(k)
  BY DEF Dies, client, Calling, Idle
<1>3. \A f \in Fds :
          /\ toServer'[f] = 0
          /\ socket[f] = "connected" => socket'[f] \in Gone
          /\ socket[f] # "connected" => socket'[f] = socket[f] /\ toServer[f] = 0
  BY <1>1 DEF Dies, Types, Gone, NetInv
<1> DEFINE HasConnection(k) == handle[k] \in Fds /\ socket[handle[k]] = "connected"
<1>4. PICK H \in SUBSET Handlers : \A k \in Handlers : k \in H <=> HasConnection(k)
  <2> WITNESS {k \in Handlers : HasConnection(k)} \in SUBSET Handlers
  <2> QED
    OBVIOUS
<1>5. PICK G \in SUBSET H : \A k \in H : k \in G <=> outcome[k] = "active"
  <2> WITNESS {k \in H : outcome[k] = "active"} \in SUBSET H
  <2> QED
    OBVIOUS
<1>6. ASSUME NEW k \in Handlers
      PROVE  Owed(k)' = IF k \in H THEN 0 ELSE Owed(k)
  <2>1. CASE k \in H
    <3>1. EndIsGone(k)'
      BY <1>2, <1>3, <1>4, <2>1 DEF EndIsGone
    <3> QED
      BY <2>1, <3>1 DEF Owed
  <2>2. CASE k \notin H
    <3>1. handle[k] \in Fds => socket'[handle[k]] = socket[handle[k]] /\ toServer'[handle[k]] = toServer[handle[k]]
      BY <1>3, <1>4, <2>2
    <3> QED
      BY <1>2, <2>2, <3>1 DEF Owed, Status, EndIsGone
  <2> QED
    BY <2>1, <2>2
<1>7. ASSUME NEW k \in Handlers
      PROVE  Status(k)' = IF k \in G THEN "ended" ELSE Status(k)
  <2>1. CASE k \in G
    <3>1. outcome'[k] = "active" /\ EndIsGone(k)'
      BY <1>2, <1>3, <1>4, <1>5, <2>1 DEF EndIsGone
    <3> QED
      BY <2>1, <3>1 DEF Status
  <2>2. CASE k \notin G
    <3>1. outcome[k] = "active" => (EndIsGone(k)' <=> EndIsGone(k))
      BY <1>2, <1>3, <1>4, <1>5, <2>2 DEF EndIsGone
    <3> QED
      BY <1>2, <2>2, <3>1 DEF Status
  <2> QED
    BY <2>1, <2>2
<1>8. \A k \in H \ G : Status(k) # "active"
  BY <1>1, <1>5 DEF Status, Types, Outcomes
<1>9. Promise!End(H)
  BY <1>6, <1>7, <1>8 DEF Promise!End
<1> QED
  BY <1>9 DEF Promise!Next

\* Steps nobody is told of.
LEMMA SilentSteps ==
    ASSUME IInv, ~killed,
           \/ SysConnect \/ Unblocked \/ TimedComplete \/ Open
           \/ \E f \in Fds : Arrive(f) \/ Accept(f) \/ Echo(f)
           \/ UNCHANGED <<client, socket, network, killed>>
    PROVE  UNCHANGED Promise!vars
<1> USE AcceptorConnectorAssumption
<1>1. Types /\ CallInv /\ HandleInv
  BY DEF IInv, ConnectInv
<1>2. /\ UNCHANGED <<handle, outcome, killed>>
      /\ \A k \in Handlers : Calling(k)' <=> Calling(k)
  <2>1. CASE SysConnect \/ Unblocked \/ TimedComplete
    <3>1. PICK at \in {"blocked", "select", "finish"}, result \in {"ok", "wouldblock", "timedout", "error"} :
              Goes(at, result)
      BY <2>1 DEF SysConnect, Unblocked, TimedComplete, Selected
    <3>2. call'.handler = call.handler /\ ~Idle' /\ ~Idle
      BY <1>1, <2>1, <3>1, CallFacts DEF Goes, Idle, SysConnect, Unblocked, TimedComplete
    <3> QED
      BY <2>1, <3>2 DEF SysConnect, Unblocked, TimedComplete, Calling
  <2>2. CASE UNCHANGED <<client, killed>>
    BY <2>2 DEF client, Calling, Idle
  <2> QED
    BY <2>1, <2>2 DEF Open, Arrive, Accept, Echo
<1>3. \A f \in Fds : /\ socket'[f] \in Gone <=> socket[f] \in Gone
                     /\ toServer'[f] + toClient'[f] = toServer[f] + toClient[f]
  <2>1. CASE SysConnect
    <3>1. handle[call.handler] \in Fds
      BY <1>1, <2>1 DEF SysConnect, CallInv
    <3>2. /\ UNCHANGED network
          /\ \A f \in Fds : \/ socket'[f] = socket[f]
                            \/ socket[f] = "fresh" /\ socket'[f] \in {"connecting", "refused"}
      BY <1>1, <2>1, <3>1 DEF SysConnect, Types
    <3> QED
      BY <3>2 DEF network, Gone
  <2>2. ASSUME NEW f \in Fds, Arrive(f) PROVE <1>3!:
    <3>1. UNCHANGED network /\ \A g \in Fds : socket'[g] = socket[g] \/ (socket[g] = "connecting" /\ socket'[g] \in {"connected", "refused"})
      BY <1>1, <2>2 DEF Arrive, Types
    <3> QED
      BY <3>1 DEF network, Gone
  <2>3. ASSUME NEW f \in Fds, Echo(f) PROVE <1>3!:
    <3>1. /\ UNCHANGED socket /\ toServer'[f] = 0 /\ toClient'[f] = toClient[f] + toServer[f]
          /\ \A g \in Fds \ {f} : toServer'[g] = toServer[g] /\ toClient'[g] = toClient[g]
          /\ toServer[f] \in Nat /\ toClient[f] \in Nat
      BY <1>1, <2>3 DEF Echo, Types
    <3> QED
      BY <3>1
  <2>4. CASE UNCHANGED <<socket, network>>
    BY <2>4 DEF network
  <2> QED
    BY <2>1, <2>2, <2>3, <2>4 DEF Unblocked, TimedComplete, Open, Accept
<1>4. \A k \in Handlers : Owns(k) => handle[k] \in Fds
  BY <1>1 DEF Owns, HandleInv, Types
<1>5. \A k \in Handlers : Status(k)' = Status(k) /\ Owed(k)' = Owed(k)
  BY <1>1, <1>2, <1>3, <1>4, Undisturbed
<1> QED
  BY <1>5, NoStep

\* Both programs together do what their connections promise, whatever the two threads,
\* the server and the system do: connect() answers the handler that asked, a pending
\* connection is settled once, and what is sent is owed to the handler that has the
\* connection until it is answered or an end is gone (Connector.cpp:80-171).
THEOREM ImplementsConnectionsHolds == Spec => ImplementsConnections
<1>1. Init => Promise!Init
  <2> SUFFICES ASSUME Init PROVE Promise!Init
    OBVIOUS
  <2>1. \A h \in Handlers : ~Calling(h) /\ Status(h) = "idle"
    BY DEF Init, Calling, Idle, Status
  <2>2. \A h \in Handlers : Owed(h) = 0
    BY <2>1 DEF Owed
  <2> QED
    BY <2>1, <2>2 DEF Promise!Init
<1>2. IInv /\ NetInv /\ [Next]_vars => [Promise!Next]_(Promise!vars)
  <2> SUFFICES ASSUME IInv, NetInv, [Next]_vars
               PROVE  Promise!Next \/ UNCHANGED Promise!vars
    OBVIOUS
  <2>1. CASE UNCHANGED vars
    <3>1. \A k \in Handlers : Status(k)' = Status(k) /\ Owed(k)' = Owed(k)
      BY <2>1 DEF vars, client, network, Status, Owed, EndIsGone, Calling, Idle
    <3> QED
      BY <3>1, NoStep
  <2>2. CASE Next
    <3>0. ~killed
      BY <2>2 DEF Next
    <3>1. ASSUME NEW h \in Handlers, NEW t \in TimeOuts, Connect(h, t) \/ ConnectWithoutSocket(h, t)
          PROVE  Promise!Next
      BY <3>0, <3>1, ConnectAsks DEF Promise!Next
    <3>2. CASE MainStep
      BY <3>0, <3>2, FinishAnswers, SilentSteps DEF MainStep
    <3>3. ASSUME NEW f \in Fds, HandleOutput(f) \/ HandleInput(f)
          PROVE  Promise!Next \/ UNCHANGED Promise!vars
      BY <3>0, <3>3, HandleOutputSettles, HandleInputReplies
    <3>4. ASSUME NEW f \in Fds, Arrive(f) \/ Accept(f) \/ Echo(f)
          PROVE  UNCHANGED Promise!vars
      BY <3>0, <3>4, SilentSteps
    <3>5. CASE Open \/ ServerEnds \/ AcceptFails
      <4>1. Dies \/ Open \/ UNCHANGED <<client, socket, network, killed>>
        BY <3>5 DEF ServerEnds, AcceptFails
      <4> QED
        BY <3>0, <4>1, DiesEnds, SilentSteps
    <3> QED
      BY <2>2, <3>0, <3>1, <3>2, <3>3, <3>4, <3>5, SendSends DEF Next
  <2> QED
    BY <2>1, <2>2
<1>3. Spec => []NetInv
  <2>1. IInv /\ NetInv /\ [Next]_vars => NetInv'
    BY NetStep
  <2> QED
    BY <2>1, InitNet, ConnectHolds, PTL DEF Spec
<1> QED
  BY <1>1, <1>2, <1>3, ConnectHolds, PTL DEF Spec, ImplementsConnections, Promise!Spec
===============================================================================
