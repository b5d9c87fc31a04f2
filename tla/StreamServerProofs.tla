--------------------------- MODULE StreamServerProofs ---------------------------
(***************************************************************************)
(* For any number of connections, descriptors, requests and packets: no    *)
(* client of a handler that lives gets a reply of another stream, and the  *)
(* replies it gets echo its requests, in order and each of them put        *)
(* together as it was meant.                                               *)
(*                                                                         *)
(* The first is OwnersInv: a handler that lives has the entry of its       *)
(* descriptor in mConnections, so that two of them never share one, and    *)
(* threads run for handlers that live only.  The second is FlowInv: of     *)
(* what a client asked, the packets of one request at most are on their    *)
(* way, cut in three between client, queue and buffer, or else one text.   *)
(* A third, RegisteredInv, follows the entries of the Reactor: what an     *)
(* ended connection leaves behind is the only way in which the program     *)
(* comes to call a handler that is gone.                                   *)
(***************************************************************************)
EXTENDS StreamServer, FiniteSetTheorems, SequenceTheorems, TLAPS

ServerTypes ==
    /\ life \in [Handlers -> Life]
    /\ fdOf \in [Handlers -> Fds \cup {None}]
    /\ peer \in [Fds -> Handlers \cup {None}]
    /\ mConnections \in [Fds -> Handlers \cup {None}]
    /\ worker \in [Handlers -> [Tasks -> {"none", "running", "done"}]]
    /\ \E S : got \in [Handlers -> Seq(S)]

\* A handler that lives has its entry in the Acceptor's table.
Kept ==
    \A h \in Handlers : Living(h) => fdOf[h] \in Fds /\ mConnections[fdOf[h]] = h

\* A thread runs for a handler that lives.
ThreadsLive ==
    \A h \in Handlers : \A t \in Tasks : worker[h][t] = "running" => Living(h)

\* A connection is that of a handler with its descriptor.
PeersOwn ==
    \A f \in Fds : peer[f] # None => fdOf[peer[f]] = f /\ life[peer[f]] # "unused"

\* Nobody was replied to before there was a connection.
UnusedGotNothing ==
    \A h \in Handlers : life[h] = "unused" => got[h] = <<>>

OwnersInv ==
    ServerTypes /\ Kept /\ ThreadsLive /\ PeersOwn /\ UnusedGotNothing /\ LivingGetOwn
-------------------------------------------------------------------------------
LEMMA InitOwners == Init => OwnersInv
<1> SUFFICES ASSUME Init PROVE OwnersInv
  OBVIOUS
<1>1. got \in [Handlers -> Seq({})]
  BY DEF Init
<1>2. ServerTypes
  BY <1>1 DEF Init, ServerTypes, Life
<1>3. Kept /\ ThreadsLive /\ PeersOwn
  BY DEF Init, Kept, ThreadsLive, PeersOwn, Living
<1>4. UnusedGotNothing /\ LivingGetOwn
  BY DEF Init, UnusedGotNothing, LivingGetOwn, Living
<1> QED
  BY <1>2, <1>3, <1>4 DEF OwnersInv

\* A new connection: its handler gets into the table, or is gone with its threads.
LEMMA AcceptOwners ==
    ASSUME OwnersInv, NEW h \in Handlers, NEW f \in Fds, AcceptConnection(h, f)
    PROVE  OwnersInv'
<1> USE StreamServerAssumption
<1> DEFINE kept == mConnections'[f] = h
<1>0. ServerTypes /\ Kept /\ ThreadsLive /\ PeersOwn /\ UnusedGotNothing /\ LivingGetOwn
  BY DEF OwnersInv
<1>1. /\ life[h] = "unused" /\ peer[f] = None
      /\ fdOf' = [fdOf EXCEPT ![h] = f]
      /\ peer' = [peer EXCEPT ![f] = h]
      /\ mConnections' = [mConnections EXCEPT ![f] = IF @ = None THEN h ELSE @]
      /\ life' = [life EXCEPT ![h] = IF kept THEN "open" ELSE "deleted"]
      /\ worker' = [worker EXCEPT ![h] = [t \in Tasks |-> IF kept THEN "running" ELSE "done"]]
      /\ got' = got
  BY DEF AcceptConnection, Emplaced
<1>2. ServerTypes'
  BY <1>0, <1>1 DEF ServerTypes, Life
<1>3. Kept'
  BY <1>0, <1>1 DEF ServerTypes, Kept, Living
<1>4. ThreadsLive'
  BY <1>0, <1>1 DEF ServerTypes, ThreadsLive, Living
<1>5. PeersOwn'
  <2>1. ASSUME NEW g \in Fds, peer'[g] # None
        PROVE  fdOf'[peer'[g]] = g /\ life'[peer'[g]] # "unused"
    <3>1. CASE g = f
      BY <3>1, <1>0, <1>1 DEF ServerTypes
    <3>2. CASE g # f
      <4>1. peer'[g] = peer[g] /\ peer[g] \in Handlers
        BY <3>2, <2>1, <1>0, <1>1 DEF ServerTypes
      <4>2. fdOf[peer[g]] = g /\ life[peer[g]] # "unused"
        BY <4>1, <2>1, <1>0 DEF PeersOwn
      <4>3. peer[g] # h
        BY <4>2, <1>1
      <4> QED
        BY <4>1, <4>2, <4>3, <1>0, <1>1 DEF ServerTypes
    <3> QED
      BY <3>1, <3>2
  <2> QED
    BY <2>1 DEF PeersOwn
<1>6. UnusedGotNothing'
  BY <1>0, <1>1 DEF ServerTypes, UnusedGotNothing
<1>7. LivingGetOwn'
  <2>1. ASSUME NEW g \in Handlers, Living(g)', NEW k \in DOMAIN got'[g]
        PROVE  got'[g][k].from = g
    <3>1. CASE g = h
      BY <3>1, <2>1, <1>0, <1>1 DEF UnusedGotNothing
    <3>2. CASE g # h
      BY <3>2, <2>1, <1>0, <1>1 DEF ServerTypes, LivingGetOwn, Living
    <3> QED
      BY <3>1, <3>2
  <2> QED
    BY <2>1 DEF LivingGetOwn
<1> QED
  BY <1>2, <1>3, <1>4, <1>5, <1>6, <1>7 DEF OwnersInv

\* The end of a connection: its descriptor is free, its entry stays.
LEMMA EndOwners ==
    ASSUME OwnersInv, NEW h \in Handlers, ReadEnd(h)
    PROVE  OwnersInv'
<1> USE StreamServerAssumption
<1>0. ServerTypes /\ Kept /\ ThreadsLive /\ PeersOwn /\ UnusedGotNothing /\ LivingGetOwn
  BY DEF OwnersInv
<1>1. /\ Living(h)
      /\ peer' = [peer EXCEPT ![fdOf[h]] = None]
      /\ life' = [life EXCEPT ![h] = "ended"]
      /\ UNCHANGED <<fdOf, mConnections, worker, got>>
  BY DEF ReadEnd, Called, Living
<1>2. ServerTypes'
  BY <1>0, <1>1 DEF ServerTypes, Life
<1>3. \A g \in Handlers : (Living(g)' <=> Living(g)) /\ (life'[g] = "unused" <=> life[g] = "unused")
  BY <1>0, <1>1 DEF ServerTypes, Living
<1>4. Kept' /\ ThreadsLive' /\ UnusedGotNothing'
  BY <1>0, <1>1, <1>3 DEF Kept, ThreadsLive, UnusedGotNothing
<1>5. LivingGetOwn'
  BY <1>0, <1>1, <1>3 DEF LivingGetOwn
<1>6. PeersOwn'
  BY <1>0, <1>1, <1>3 DEF ServerTypes, PeersOwn
<1> QED
  BY <1>2, <1>4, <1>5, <1>6 DEF OwnersInv

\* A reply goes to the client of the Sender's own stream, if to anybody who lives.
LEMMA SendOwners ==
    ASSUME OwnersInv, NEW h \in Handlers, Send(h)
    PROVE  OwnersInv'
<1> USE StreamServerAssumption
<1> DEFINE g == peer[fdOf[h]]
           r == [from |-> h, text |-> Head(queue[h]["Sender"]).text]
<1>0. ServerTypes /\ Kept /\ ThreadsLive /\ PeersOwn /\ UnusedGotNothing /\ LivingGetOwn
  BY DEF OwnersInv
<1>1. /\ worker[h]["Sender"] = "running"
      /\ got' = IF g # None /\ ~hungUp[g] THEN [got EXCEPT ![g] = Append(@, r)] ELSE got
      /\ UNCHANGED <<life, fdOf, peer, mConnections, worker>>
  BY DEF Send, Gets, server
<1>2. fdOf[h] \in Fds /\ mConnections[fdOf[h]] = h
  BY <1>0, <1>1 DEF ThreadsLive, Kept, Tasks
<1>3. Kept' /\ ThreadsLive' /\ PeersOwn'
  BY <1>0, <1>1 DEF Kept, ThreadsLive, PeersOwn, Living
<1>4. CASE got' = got
  BY <1>0, <1>1, <1>3, <1>4
     DEF OwnersInv, ServerTypes, UnusedGotNothing, LivingGetOwn, Living
<1>5. CASE g # None /\ got' = [got EXCEPT ![g] = Append(@, r)]
  <2>1. g \in Handlers /\ fdOf[g] = fdOf[h] /\ life[g] # "unused"
    BY <1>0, <1>2, <1>5 DEF ServerTypes, PeersOwn
  <2>2. Living(g) => g = h
    BY <1>0, <1>2, <2>1 DEF Kept
  <2>3. PICK S : got \in [Handlers -> Seq(S)]
    BY <1>0 DEF ServerTypes
  <2>4. got \in [Handlers -> Seq(S \cup {r})]
    <3>1. \A s \in Seq(S) : s \in Seq(S \cup {r})
      OBVIOUS
    <3> QED
      BY <2>3, <3>1
  <2>5. got' \in [Handlers -> Seq(S \cup {r})]
    BY <1>5, <2>1, <2>4
  <2>6. ServerTypes'
    BY <1>0, <1>1, <2>5 DEF ServerTypes
  <2>7. UnusedGotNothing'
    BY <1>0, <1>1, <1>5, <2>1, <2>3 DEF UnusedGotNothing
  <2>8. LivingGetOwn'
    <3>1. ASSUME NEW c \in Handlers, Living(c), NEW k \in DOMAIN got'[c]
          PROVE  got'[c][k].from = c
      <4>1. CASE c # g
        BY <4>1, <3>1, <1>0, <1>5, <2>3 DEF LivingGetOwn
      <4>2. CASE c = g
        <5>1. c = h /\ got'[c] = Append(got[c], r) /\ got[c] \in Seq(S)
          BY <4>2, <3>1, <2>1, <2>2, <2>3, <1>5
        <5>2. CASE k \in 1 .. Len(got[c])
          <6>1. got'[c][k] = got[c][k] /\ k \in DOMAIN got[c]
            BY <5>1, <5>2
          <6> QED
            BY <6>1, <3>1, <1>0 DEF LivingGetOwn
        <5>3. CASE k = Len(got[c]) + 1
          BY <5>1, <5>3
        <5> QED
          BY <5>1, <5>2, <5>3, <3>1
      <4> QED
        BY <4>1, <4>2
    <3> QED
      BY <3>1, <1>1 DEF LivingGetOwn, Living
  <2> QED
    BY <1>3, <2>6, <2>7, <2>8 DEF OwnersInv
<1> QED
  BY <1>1, <1>4, <1>5

\* Steps that leave the connections and the threads alone.
LEMMA QuietOwners ==
    ASSUME OwnersInv, UNCHANGED <<life, fdOf, peer, mConnections, worker, got>>
    PROVE  OwnersInv'
<1>1. ServerTypes' /\ Kept' /\ ThreadsLive' /\ PeersOwn'
  BY DEF OwnersInv, ServerTypes, Kept, ThreadsLive, PeersOwn, Living
<1>2. UnusedGotNothing' /\ LivingGetOwn'
  BY DEF OwnersInv, UnusedGotNothing, LivingGetOwn, Living
<1> QED
  BY <1>1, <1>2 DEF OwnersInv

\* A thread that ends.
LEMMA StopOwners ==
    ASSUME OwnersInv, NEW h \in Handlers, NEW t \in Tasks,
           worker' = [worker EXCEPT ![h][t] = "done"],
           UNCHANGED <<life, fdOf, peer, mConnections, got>>
    PROVE  OwnersInv'
<1>1. ServerTypes'
  BY DEF OwnersInv, ServerTypes
<1>2. ThreadsLive'
  BY DEF OwnersInv, ServerTypes, ThreadsLive, Living
<1>3. Kept' /\ PeersOwn'
  BY DEF OwnersInv, Kept, PeersOwn, Living
<1>4. UnusedGotNothing' /\ LivingGetOwn'
  BY DEF OwnersInv, UnusedGotNothing, LivingGetOwn, Living
<1> QED
  BY <1>1, <1>2, <1>3, <1>4 DEF OwnersInv

LEMMA NextOwners == OwnersInv /\ [Next]_vars => OwnersInv'
<1> SUFFICES ASSUME OwnersInv, [Next]_vars PROVE OwnersInv'
  OBVIOUS
<1>1. CASE UNCHANGED vars
  BY <1>1, QuietOwners DEF vars, server, stream
<1>2. CASE CallDeleted
  BY <1>2, QuietOwners DEF CallDeleted, server, stream
<1>3. ASSUME NEW h \in Handlers, Ask(h) \/ HangUp(h) \/ ReadData(h)
      PROVE  OwnersInv'
  BY <1>3, QuietOwners DEF Ask, HangUp, ReadData, server, stream
<1>4. ASSUME NEW h \in Handlers, ReceivePacket(h) \/ Respond(h) \/ AddMetaData(h)
      PROVE  OwnersInv'
  BY <1>4, QuietOwners DEF ReceivePacket, Respond, AddMetaData, server
<1>5. ASSUME NEW h \in Handlers, NEW t \in Tasks, NEW u \in Tasks, StopAndPass(h, t, u)
      PROVE  OwnersInv'
  BY <1>5, StopOwners DEF StopAndPass, server
<1>6. ASSUME NEW h \in Handlers, NEW t \in Tasks, StopAtEnd(h, t)
      PROVE  OwnersInv'
  BY <1>6, StopOwners DEF StopAtEnd, server
<1>7. ASSUME NEW h \in Handlers, Work(h)
      PROVE  OwnersInv'
  BY <1>7, <1>4, <1>5, <1>6, SendOwners DEF Work, Tasks
<1>8. ASSUME NEW h \in Handlers, Serve(h)
      PROVE  OwnersInv'
  BY <1>8, <1>3, EndOwners DEF Serve
<1> QED
  BY <1>1, <1>2, <1>3, <1>7, <1>8, AcceptOwners DEF Next

\* No client of a living handler gets a reply of another stream, however late the
\* threads of a connection that is over still send (Sender.cpp:56).
THEOREM LivingGetOwnHolds == Spec => []LivingGetOwn
<1>1. OwnersInv => LivingGetOwn
  BY DEF OwnersInv
<1> QED
  BY <1>1, InitOwners, NextOwners, PTL DEF Spec
-------------------------------------------------------------------------------
(* The Reactor's entries.                                                  *)

Dangling(f) == repository[f] # None /\ life[repository[f]] = "deleted"

\* An open connection is registered with the handler that serves it.
OpenIsRegistered ==
    \A h \in Handlers : life[h] = "open" => peer[fdOf[h]] = h /\ repository[fdOf[h]] = h

\* The Reactor keeps a handler that is gone only on a descriptor whose entry in
\* mConnections an earlier connection has left behind, and nothing else breaks the
\* program.
OnlyReuseBreaks ==
    /\ \A f \in Fds : Dangling(f) => mConnections[f] # None /\ life[mConnections[f]] = "ended"
    /\ crashed => \E f \in Fds : Dangling(f)

EntriesHaveConnections ==
    \A f \in Fds : repository[f] # None =>
        peer[f] = repository[f] /\ life[repository[f]] \in {"open", "deleted"}

EntriesLive ==
    \A f \in Fds : mConnections[f] # None =>
        fdOf[mConnections[f]] = f /\ life[mConnections[f]] \in {"open", "ended"}

RegisteredInv ==
    /\ repository \in [Fds -> Handlers \cup {None}]
    /\ crashed \in BOOLEAN
    /\ OpenIsRegistered
    /\ EntriesHaveConnections
    /\ EntriesLive
    /\ OnlyReuseBreaks

LEMMA InitRegistered == Init => RegisteredInv
BY DEF Init, RegisteredInv, OpenIsRegistered, EntriesHaveConnections, EntriesLive,
   OnlyReuseBreaks, Dangling

\* A handler that does not get into the table finds the entry of one that has ended:
\* of one that is open the descriptor would not be free.
LEMMA AcceptRegistered ==
    ASSUME OwnersInv, RegisteredInv, NEW h \in Handlers, NEW f \in Fds, AcceptConnection(h, f)
    PROVE  RegisteredInv'
<1> USE StreamServerAssumption
<1> DEFINE kept == mConnections'[f] = h
<1>1. ServerTypes /\ Kept /\ PeersOwn
  BY DEF OwnersInv
<1>2. /\ ~crashed /\ crashed' = crashed /\ life[h] = "unused" /\ peer[f] = None
      /\ fdOf' = [fdOf EXCEPT ![h] = f]
      /\ peer' = [peer EXCEPT ![f] = h]
      /\ repository' = [repository EXCEPT ![f] = IF @ = None THEN h ELSE @]
      /\ mConnections' = [mConnections EXCEPT ![f] = IF @ = None THEN h ELSE @]
      /\ life' = [life EXCEPT ![h] = IF kept THEN "open" ELSE "deleted"]
  BY DEF AcceptConnection, Emplaced
<1>3. repository \in [Fds -> Handlers \cup {None}] /\ repository[f] = None
  BY <1>2 DEF RegisteredInv, EntriesHaveConnections
<1>4. /\ \A g \in Fds : repository[g] # None => repository[g] # h
      /\ \A g \in Fds : mConnections[g] # None => mConnections[g] # h
      /\ \A g \in Handlers : life[g] = "open" => fdOf[g] \in Fds /\ fdOf[g] # f /\ g # h
  BY <1>1, <1>2, <1>3 DEF RegisteredInv, OpenIsRegistered, EntriesHaveConnections, EntriesLive,
     Living, Kept
<1>5. /\ repository' \in [Fds -> Handlers \cup {None}] /\ repository'[f] = h
      /\ \A g \in Fds \ {f} : repository'[g] = repository[g] /\ peer'[g] = peer[g]
                              /\ mConnections'[g] = mConnections[g]
      /\ \A k \in Handlers \ {h} : life'[k] = life[k] /\ fdOf'[k] = fdOf[k]
      /\ peer'[f] = h /\ fdOf'[h] = f
      /\ life'[h] = IF kept THEN "open" ELSE "deleted"
      /\ mConnections'[f] = IF mConnections[f] = None THEN h ELSE mConnections[f]
  BY <1>1, <1>2, <1>3 DEF ServerTypes
<1> HIDE DEF kept
<1>6. OpenIsRegistered'
  <2> SUFFICES ASSUME NEW k \in Handlers, life'[k] = "open"
               PROVE  peer'[fdOf'[k]] = k /\ repository'[fdOf'[k]] = k
    BY DEF OpenIsRegistered
  <2>1. CASE k = h
    BY <1>5, <2>1
  <2>2. CASE k # h
    <3>1. life[k] = "open" /\ fdOf[k] \in Fds \ {f} /\ fdOf'[k] = fdOf[k]
      BY <1>4, <1>5, <2>2
    <3>2. peer[fdOf[k]] = k /\ repository[fdOf[k]] = k
      BY <3>1 DEF RegisteredInv, OpenIsRegistered
    <3> QED
      BY <1>5, <3>1, <3>2
  <2> QED
    BY <2>1, <2>2
<1>7. EntriesHaveConnections'
  <2> SUFFICES ASSUME NEW g \in Fds, repository'[g] # None
               PROVE  peer'[g] = repository'[g] /\ life'[repository'[g]] \in {"open", "deleted"}
    BY DEF EntriesHaveConnections
  <2>1. CASE g = f
    BY <1>5, <2>1
  <2>2. CASE g # f
    BY <1>3, <1>4, <1>5, <2>2 DEF RegisteredInv, EntriesHaveConnections
  <2> QED
    BY <2>1, <2>2
<1>8. EntriesLive'
  <2> SUFFICES ASSUME NEW g \in Fds, mConnections'[g] # None
               PROVE  fdOf'[mConnections'[g]] = g /\ life'[mConnections'[g]] \in {"open", "ended"}
    BY DEF EntriesLive
  <2>1. mConnections[g] # None =>
            /\ mConnections[g] \in Handlers \ {h} /\ fdOf[mConnections[g]] = g
            /\ life[mConnections[g]] \in {"open", "ended"}
    BY <1>1, <1>4 DEF RegisteredInv, EntriesLive, ServerTypes
  <2>2. CASE g = f
    BY <1>5, <2>1, <2>2 DEF kept
  <2>3. CASE g # f
    BY <1>5, <2>1, <2>3
  <2> QED
    BY <2>2, <2>3
<1>9. OnlyReuseBreaks'
  <2>1. ASSUME NEW g \in Fds, Dangling(g)'
        PROVE  mConnections'[g] # None /\ life'[mConnections'[g]] = "ended"
    <3>1. mConnections[g] # None => mConnections[g] \in Handlers \ {h}
      BY <1>1, <1>4 DEF ServerTypes
    <3>2. CASE g = f
      <4>1. ~kept /\ mConnections[f] # None /\ mConnections'[f] = mConnections[f]
        BY <1>5, <2>1, <3>2 DEF Dangling, kept
      <4>2. life[mConnections[f]] \in {"open", "ended"} /\ fdOf[mConnections[f]] = f
        BY <4>1 DEF RegisteredInv, EntriesLive
      <4>3. life[mConnections[f]] # "open"
        BY <1>4, <3>1, <3>2, <4>1, <4>2
      <4> QED
        BY <1>5, <3>1, <3>2, <4>1, <4>2, <4>3
    <3>3. CASE g # f
      <4>1. Dangling(g)
        BY <1>3, <1>4, <1>5, <2>1, <3>3 DEF Dangling
      <4> QED
        BY <1>5, <3>1, <3>3, <4>1 DEF RegisteredInv, OnlyReuseBreaks
    <3> QED
      BY <3>2, <3>3
  <2> QED
    BY <1>2, <2>1 DEF OnlyReuseBreaks
<1> QED
  BY <1>2, <1>5, <1>6, <1>7, <1>8, <1>9 DEF RegisteredInv

LEMMA EndRegistered ==
    ASSUME OwnersInv, RegisteredInv, NEW h \in Handlers, ReadEnd(h)
    PROVE  RegisteredInv'
<1> USE StreamServerAssumption
<1>1. ServerTypes /\ Kept /\ PeersOwn
  BY DEF OwnersInv
<1> DEFINE f == fdOf[h]
<1>2. /\ ~crashed /\ crashed' = crashed /\ life[h] = "open" /\ repository[f] = h
      /\ peer' = [peer EXCEPT ![f] = None]
      /\ repository' = [repository EXCEPT ![f] = None]
      /\ life' = [life EXCEPT ![h] = "ended"]
      /\ UNCHANGED <<fdOf, mConnections>>
  BY DEF ReadEnd, Called
<1>3. f \in Fds /\ repository \in [Fds -> Handlers \cup {None}]
  BY <1>1, <1>2 DEF Kept, Living, RegisteredInv
<1>4. /\ repository' \in [Fds -> Handlers \cup {None}] /\ repository'[f] = None
      /\ \A g \in Fds \ {f} : repository'[g] = repository[g] /\ peer'[g] = peer[g]
      /\ \A k \in Handlers \ {h} : life'[k] = life[k]
      /\ life'[h] = "ended"
  BY <1>1, <1>2, <1>3 DEF ServerTypes
<1> HIDE DEF f
<1>5. \A k \in Handlers \ {h} : life[k] = "open" => fdOf[k] \in Fds \ {f}
  BY <1>1, <1>2 DEF RegisteredInv, OpenIsRegistered, Kept, Living, f
<1>6. OpenIsRegistered'
  BY <1>2, <1>4, <1>5 DEF RegisteredInv, OpenIsRegistered
<1>7. \A g \in Fds \ {f} : repository[g] # None => repository[g] \in Handlers \ {h}
  BY <1>1, <1>3 DEF RegisteredInv, EntriesHaveConnections, PeersOwn, f
<1>8. EntriesHaveConnections'
  BY <1>4, <1>7 DEF RegisteredInv, EntriesHaveConnections
<1>9. EntriesLive'
  <2> SUFFICES ASSUME NEW g \in Fds, mConnections'[g] # None
               PROVE  fdOf'[mConnections'[g]] = g /\ life'[mConnections'[g]] \in {"open", "ended"}
    BY DEF EntriesLive
  <2>1. /\ mConnections[g] # None /\ mConnections[g] \in Handlers /\ mConnections'[g] = mConnections[g]
        /\ fdOf'[mConnections[g]] = g /\ life[mConnections[g]] \in {"open", "ended"}
    BY <1>1, <1>2 DEF RegisteredInv, EntriesLive, ServerTypes
  <2> QED
    BY <1>4, <2>1
<1>10. OnlyReuseBreaks'
  <2>1. ASSUME NEW g \in Fds, Dangling(g)'
        PROVE  mConnections'[g] # None /\ life'[mConnections'[g]] = "ended"
    <3>1. g # f /\ Dangling(g)
      BY <1>4, <1>7, <2>1 DEF Dangling
    <3>2. mConnections[g] \in Handlers /\ life[mConnections[g]] = "ended"
      BY <1>1, <3>1 DEF RegisteredInv, OnlyReuseBreaks, ServerTypes
    <3> QED
      BY <1>2, <1>4, <3>2
  <2> QED
    BY <1>2, <2>1 DEF OnlyReuseBreaks
<1> QED
  BY <1>2, <1>4, <1>6, <1>8, <1>9, <1>10 DEF RegisteredInv

LEMMA NextRegistered == OwnersInv /\ RegisteredInv /\ [Next]_vars => RegisteredInv'
<1> SUFFICES ASSUME OwnersInv, RegisteredInv, [Next]_vars PROVE RegisteredInv'
  OBVIOUS
<1>1. CASE UNCHANGED <<server, crashed>>
  BY <1>1 DEF server, RegisteredInv, OpenIsRegistered, EntriesHaveConnections,
     EntriesLive, OnlyReuseBreaks, Dangling
<1>2. CASE CallDeleted
  BY <1>2 DEF CallDeleted, server, RegisteredInv, OpenIsRegistered, EntriesHaveConnections,
     EntriesLive, OnlyReuseBreaks, Dangling
<1>3. ASSUME NEW h \in Handlers,
             Ask(h) \/ HangUp(h) \/ ReadData(h) \/ ReadEnd(h) \/ Work(h)
             \/ \E f \in Fds : AcceptConnection(h, f)
      PROVE  RegisteredInv'
  <2>1. CASE Work(h)
    BY <1>1, <2>1 DEF Work, ReceivePacket, Respond, AddMetaData, Send, StopAndPass, StopAtEnd
  <2>2. CASE Ask(h) \/ HangUp(h) \/ ReadData(h)
    BY <1>1, <2>2 DEF Ask, HangUp, ReadData
  <2>3. CASE ReadEnd(h)
    BY <2>3, EndRegistered
  <2>4. CASE \E f \in Fds : AcceptConnection(h, f)
    BY <2>4, AcceptRegistered
  <2> QED
    BY <1>3, <2>1, <2>2, <2>3, <2>4
<1>4. CASE UNCHANGED vars
  BY <1>1, <1>4 DEF vars
<1> QED
  BY <1>2, <1>3, <1>4 DEF Next, Serve

LEMMA RegisteredHolds == Spec => [](OwnersInv /\ RegisteredInv)
<1>1. Init => OwnersInv /\ RegisteredInv
  BY InitOwners, InitRegistered
<1>2. OwnersInv /\ RegisteredInv /\ [Next]_vars => (OwnersInv /\ RegisteredInv)'
  BY NextOwners, NextRegistered
<1> QED
  BY <1>1, <1>2, PTL DEF Spec

\* While a connection is open the Reactor has its own handler for it, whatever other
\* connections left behind (Acceptor.cpp:87-91, ServerEventHandler.cpp:74).
THEOREM OpenIsRegisteredHolds == Spec => []OpenIsRegistered
<1>1. OwnersInv /\ RegisteredInv => OpenIsRegistered
  BY DEF RegisteredInv
<1> QED
  BY <1>1, RegisteredHolds, PTL

\* The entry that an ended connection leaves in mConnections is the only way in which
\* the Reactor comes to keep a deleted handler, and such a handler the only way in
\* which the program breaks (Acceptor.cpp:91-96).
THEOREM OnlyReuseBreaksHolds == Spec => []OnlyReuseBreaks
<1>1. OwnersInv /\ RegisteredInv => OnlyReuseBreaks
  BY DEF RegisteredInv
<1> QED
  BY <1>1, RegisteredHolds, PTL
-------------------------------------------------------------------------------
\* All packets of the k-th request, in any order.
OfRequest(packets, k) ==
    /\ \A i \in DOMAIN packets :
           /\ packets[i].request = k
           /\ packets[i].index \in 1 .. Len(packets)
           /\ packets[i].size = Len(packets)
    /\ \A n \in 1 .. Len(packets) : \E i \in 1 .. Len(packets) : packets[i].index = n

Later == {"ResponseMessage", "MetaData", "Sender"}

\* Of the packets on their way, the first a are held back by the Receiver, those
\* to the b-th are in its queue, and the others are not read; a Stop is behind
\* all that are in the queue.
Upward(h, packets, a, b) ==
    /\ a <= b /\ b <= Len(packets)
    /\ packets # <<>> => a < Len(packets) /\ asked[h] = Len(got[h]) + 1
    /\ OfRequest(packets, asked[h])
    /\ Len(packetBuffer[h]) = a
    /\ \A i \in 1 .. a : packetBuffer[h][i] = packets[i]
    /\ b - a <= Len(queue[h]["Receiver"])
    /\ life[h] = "open" => Len(queue[h]["Receiver"]) = b - a
    /\ \A i \in 1 .. b - a : queue[h]["Receiver"][i] = Data(<<packets[a + i]>>)
    /\ \A i \in b - a + 1 .. Len(queue[h]["Receiver"]) : queue[h]["Receiver"][i].type = "stop"
    /\ Len(inbound[h]) = Len(packets) - b
    /\ \A i \in 1 .. Len(packets) - b : inbound[h][i] = packets[b + i]

IsData(h, t, i) == i \in DOMAIN queue[h][t] /\ queue[h][t][i].type = "vendor-data"

\* Behind the Receiver there is one text at most, the request that is to be
\* answered next, and only if no packet of it is left.
Downward(h, packets) ==
    \A t \in Later, i \in Nat : IsData(h, t, i) =>
        /\ packets = <<>>
        /\ asked[h] = Len(got[h]) + 1
        /\ IsRequest(queue[h][t][i].text, asked[h])
        /\ \A u \in Later, j \in Nat : IsData(h, u, j) => u = t /\ j = i

Flowing(h) ==
    /\ Len(got[h]) <= asked[h]
    /\ life[h] = "ended" => hungUp[h]
    /\ \E packets \in Seq(Packet), a \in Nat, b \in Nat :
           Upward(h, packets, a, b) /\ Downward(h, packets)

Idle(h) ==
    /\ queue[h] = [t \in Tasks |-> <<>>]
    /\ packetBuffer[h] = <<>> /\ inbound[h] = <<>> /\ asked[h] = 0

\* A handler that lives has its replies in order and its next request on the way;
\* one that was never used has nothing, and one that could not be kept sent nothing.
FlowAt(h) ==
    /\ life[h] = "unused" => Idle(h)
    /\ life[h] = "deleted" => \A k \in DOMAIN got[h] : got[h][k].from # h
    /\ Living(h) => Flowing(h) /\ \A k \in DOMAIN got[h] : IsRequest(got[h][k].text, k)

FlowInv == \A h \in Handlers : FlowAt(h)

\* The numbers to n have only one increasing order.
LEMMA IncreasingIsIdentity ==
    ASSUME NEW n \in Nat, NEW g \in [1 .. n -> 1 .. n],
           \A i, j \in 1 .. n : i < j => g[i] < g[j],
           NEW i \in 1 .. n
    PROVE  g[i] = i
<1>1. i <= g[i]
  <2> DEFINE f == [j \in 1 .. i |-> g[j]]
  <2>1. f \in [1 .. i -> 1 .. g[i]] /\ IsInjective(f)
    <3>1. \A j \in 1 .. i : g[j] \in 1 .. g[i]
      OBVIOUS
    <3>2. \A j, k \in 1 .. i : j # k => g[j] # g[k]
      <4> TAKE j, k \in 1 .. i
      <4>1. j < k \/ k < j \/ j = k
        OBVIOUS
      <4>2. j \in 1 .. n /\ k \in 1 .. n /\ g[j] \in Nat /\ g[k] \in Nat
        OBVIOUS
      <4>3. (j < k => g[j] < g[k]) /\ (k < j => g[k] < g[j])
        BY <4>2
      <4> HIDE DEF f
      <4> QED
        BY <4>1, <4>2, <4>3
    <3> QED
      BY <3>1, <3>2 DEF IsInjective
  <2>2. f \in Injection(1 .. i, 1 .. g[i])
    BY <2>1 DEF Injection
  <2>3. Cardinality(1 .. i) <= Cardinality(1 .. g[i])
    BY <2>2, FS_Injection, FS_Interval
  <2> QED
    BY <2>3, FS_Interval
<1>2. g[i] <= i
  <2> DEFINE f == [j \in i .. n |-> g[j]]
  <2>1. f \in [i .. n -> g[i] .. n] /\ IsInjective(f)
    <3>1. \A j \in i .. n : g[j] \in g[i] .. n
      OBVIOUS
    <3>2. \A j, k \in i .. n : j # k => g[j] # g[k]
      <4> TAKE j, k \in i .. n
      <4>1. j < k \/ k < j \/ j = k
        OBVIOUS
      <4>2. j \in 1 .. n /\ k \in 1 .. n /\ g[j] \in Nat /\ g[k] \in Nat
        OBVIOUS
      <4>3. (j < k => g[j] < g[k]) /\ (k < j => g[k] < g[j])
        BY <4>2
      <4> QED
        BY <4>1, <4>2, <4>3
    <3> QED
      BY <3>1, <3>2 DEF IsInjective
  <2>2. f \in Injection(i .. n, g[i] .. n)
    BY <2>1 DEF Injection
  <2>3. Cardinality(i .. n) <= Cardinality(g[i] .. n)
    BY <2>2, FS_Injection, FS_Interval
  <2> QED
    BY <2>3, FS_Interval
<1> QED
  BY <1>1, <1>2

\* What sort() makes of all packets of a request is the request.
LEMMA SortedRequest ==
    ASSUME NEW packets \in Seq(Packet), packets # <<>>, NEW k, OfRequest(packets, k)
    PROVE  Sorted(packets) \in Seq(Packet) /\ IsRequest(Sorted(packets), k)
<1> DEFINE n == Len(packets)
           index == [i \in 1 .. n |-> packets[i].index]
           q == CHOOSE p \in Sortings(packets) : TRUE
           inverse == [i \in 1 .. n |-> CHOOSE j \in 1 .. n : packets[j].index = i]
<1>0. n \in Nat /\ n > 0 /\ DOMAIN packets = 1 .. n
  OBVIOUS
<1>1. index \in Surjection(1 .. n, 1 .. n)
  <2>1. \A i \in 1 .. n : packets[i].index \in 1 .. n
    BY <1>0 DEF OfRequest
  <2>2. \A m \in 1 .. n : \E i \in 1 .. n : index[i] = m
    BY DEF OfRequest
  <2> QED
    BY <2>1, <2>2 DEF Surjection
<1>2. \A i, j \in 1 .. n : packets[i].index = packets[j].index => i = j
  <2>1. IsFiniteSet(1 .. n)
    BY <1>0, FS_Interval
  <2>2. index \in Injection(1 .. n, 1 .. n)
    BY <1>1, <2>1, FS_SurjSameCardinalityImpliesInj
  <2> QED
    BY <2>2 DEF Injection, IsInjective
<1>3. inverse \in Sortings(packets)
  <2>1. \A i \in 1 .. n : inverse[i] \in 1 .. n /\ packets[inverse[i]].index = i
    BY <1>0 DEF OfRequest
  <2> HIDE DEF inverse
  <2>2. inverse \in [1 .. n -> 1 .. n]
    BY <2>1 DEF inverse
  <2> QED
    BY <1>0, <2>1, <2>2 DEF Sortings
<1>4. q \in Sortings(packets)
  BY <1>3
<1> HIDE DEF q, index, inverse
<1>5. /\ q \in [1 .. n -> 1 .. n]
      /\ \A i, j \in 1 .. n : i < j => q[i] # q[j] /\ packets[q[i]].index <= packets[q[j]].index
  BY <1>0, <1>4 DEF Sortings
<1> DEFINE g == [i \in 1 .. n |-> packets[q[i]].index]
<1>6. g \in [1 .. n -> 1 .. n]
  BY <1>0, <1>5 DEF OfRequest
<1>7. \A i, j \in 1 .. n : i < j => g[i] < g[j]
  <2> SUFFICES ASSUME NEW i \in 1 .. n, NEW j \in 1 .. n, i < j
               PROVE  g[i] < g[j]
    OBVIOUS
  <2>1. q[i] \in 1 .. n /\ q[j] \in 1 .. n /\ q[i] # q[j] /\ g[i] <= g[j]
    BY <1>5
  <2>2. g[i] # g[j]
    BY <1>2, <2>1
  <2>3. g[i] \in Nat /\ g[j] \in Nat
    BY <1>6
  <2> HIDE DEF g
  <2> QED
    BY <2>1, <2>2, <2>3
<1>8. \A i \in 1 .. n : g[i] = i
  <2> HIDE DEF g
  <2> QED
    BY <1>0, <1>6, <1>7, IncreasingIsIdentity
<1>9. Sorted(packets) = [i \in 1 .. n |-> packets[q[i]]]
  BY <1>0 DEF Sorted, q
<1>10. Sorted(packets) \in Seq(Packet) /\ Len(Sorted(packets)) = n
  BY <1>0, <1>5, <1>9
<1>11. \A i \in 1 .. n :
          /\ Sorted(packets)[i].request = k
          /\ Sorted(packets)[i].index = i
          /\ Sorted(packets)[i].size = n
  <2> TAKE i \in 1 .. n
  <2>1. q[i] \in 1 .. n /\ Sorted(packets)[i] = packets[q[i]]
    BY <1>5, <1>9
  <2>2. packets[q[i]].index = i
    BY <1>8
  <2> QED
    BY <1>0, <2>1, <2>2 DEF OfRequest
<1> QED
  BY <1>0, <1>10, <1>11 DEF IsRequest
-------------------------------------------------------------------------------
\* The handlers a step does not touch.
LEMMA Untouched ==
    ASSUME NEW h \in Handlers, FlowAt(h),
           life'[h] = life[h], queue'[h] = queue[h], packetBuffer'[h] = packetBuffer[h],
           inbound'[h] = inbound[h], asked'[h] = asked[h], got'[h] = got[h],
           hungUp[h] => hungUp'[h]
    PROVE  FlowAt(h)'
<1>1. Living(h)' <=> Living(h)
  BY DEF Living
<1>2. ASSUME NEW packets, NEW a, NEW b PROVE Upward(h, packets, a, b) => Upward(h, packets, a, b)'
  BY DEF Upward
<1>3. ASSUME NEW packets PROVE Downward(h, packets) => Downward(h, packets)'
  BY DEF Downward, IsData
<1>4. Flowing(h) => Flowing(h)'
  BY <1>2, <1>3 DEF Flowing
<1>5. Idle(h) => Idle(h)'
  BY DEF Idle
<1> QED
  BY <1>1, <1>4, <1>5 DEF FlowAt

\* The types of what a handler has.
LEMMA TypesAt ==
    ASSUME TypeOK, NEW h \in Handlers
    PROVE  /\ \A t \in Tasks : queue[h][t] \in Seq(Messages)
           /\ packetBuffer[h] \in Seq(Packet) /\ inbound[h] \in Seq(Packet)
           /\ asked[h] \in Nat
           /\ got[h] \in Seq([from : Handlers, text : Seq(Packet)])
BY DEF TypeOK

\* What is behind the front moves up by one.
LEMMA TailElements ==
    ASSUME NEW S, NEW q \in Seq(S), q # <<>>
    PROVE  /\ Head(q) = q[1] /\ Tail(q) \in Seq(S) /\ Len(Tail(q)) = Len(q) - 1
           /\ \A i \in DOMAIN Tail(q) : i + 1 \in DOMAIN q /\ Tail(q)[i] = q[i + 1]
BY SMT

\* No text is added, and none is moved but to the front.
LEMMA DownwardKept ==
    ASSUME NEW h \in Handlers, NEW packets, Downward(h, packets),
           NEW shift \in [Later -> {0, 1}],
           \A t \in Later, i \in Nat : IsData(h, t, i)' =>
               IsData(h, t, i + shift[t]) /\ queue'[h][t][i] = queue[h][t][i + shift[t]],
           asked'[h] = asked[h], got'[h] = got[h]
    PROVE  Downward(h, packets)'
<1> SUFFICES ASSUME NEW t \in Later, NEW i \in Nat, IsData(h, t, i)'
             PROVE  /\ packets = <<>>
                    /\ asked'[h] = Len(got'[h]) + 1
                    /\ IsRequest(queue'[h][t][i].text, asked'[h])
                    /\ \A u \in Later, j \in Nat : IsData(h, u, j)' => u = t /\ j = i
  BY DEF Downward
<1>1. i + shift[t] \in Nat /\ IsData(h, t, i + shift[t]) /\ queue'[h][t][i] = queue[h][t][i + shift[t]]
  OBVIOUS
<1>2. \A u \in Later, j \in Nat : IsData(h, u, j)' => u = t /\ j = i
  <2> SUFFICES ASSUME NEW u \in Later, NEW j \in Nat, IsData(h, u, j)' PROVE u = t /\ j = i
    OBVIOUS
  <2>1. j + shift[u] \in Nat /\ IsData(h, u, j + shift[u])
    OBVIOUS
  <2>2. u = t /\ j + shift[u] = i + shift[t]
    BY <1>1, <2>1 DEF Downward
  <2> QED
    BY <2>2
<1> QED
  BY <1>1, <1>2 DEF Downward

\* A text is passed on, unchanged.
LEMMA DownwardPassed ==
    ASSUME TypeOK, NEW h \in Handlers, NEW packets, Downward(h, packets),
           NEW t \in Later, NEW u \in Later, u # t, IsData(h, t, 1),
           queue' = Passed(h, t, u, Head(queue[h][t])),
           asked'[h] = asked[h], got'[h] = got[h]
    PROVE  Downward(h, packets)'
<1> DEFINE m == Head(queue[h][t])
           n == Len(queue[h][u]) + 1
<1>1. /\ t \in Tasks /\ u \in Tasks /\ Later \subseteq Tasks
      /\ \A s \in Tasks : queue[h][s] \in Seq(Messages)
      /\ queue[h][t] # <<>> /\ m = queue[h][t][1] /\ n \in Nat
  BY TypesAt DEF IsData, Later, Tasks
<1>2. /\ queue'[h][t] = Tail(queue[h][t])
      /\ queue'[h][u] = Append(queue[h][u], m)
      /\ \A s \in Tasks \ {t, u} : queue'[h][s] = queue[h][s]
  BY <1>1 DEF Passed, TypeOK
<1>3. \A s \in Later, i \in Nat : IsData(h, s, i) => s = t /\ i = 1
  BY <1>1 DEF Downward
<1>4. ASSUME NEW s \in Later, NEW i \in Nat, IsData(h, s, i)' PROVE s = u /\ i = n
  <2>1. CASE s = t
    <3>1. i \in DOMAIN Tail(queue[h][t]) /\ Tail(queue[h][t])[i].type = "vendor-data"
      BY <1>2, <1>4, <2>1 DEF IsData
    <3>2. IsData(h, t, i + 1) /\ i # 0
      BY <1>1, <3>1, TailElements DEF IsData
    <3> QED
      BY <3>2, <1>3
  <2>2. CASE s \notin {t, u}
    BY <1>1, <1>2, <1>3, <1>4, <2>2 DEF IsData
  <2>3. CASE s = u /\ i # n
    <3>1. i \in 1 .. Len(queue[h][u]) /\ queue'[h][u][i] = queue[h][u][i]
      BY <1>1, <1>2, <1>4, <2>3 DEF IsData
    <3>2. IsData(h, u, i)
      BY <1>1, <3>1, <1>4, <2>3 DEF IsData
    <3> QED
      BY <3>2, <1>3
  <2> QED
    BY <2>1, <2>2, <2>3
<1>5. queue'[h][u][n] = m
  BY <1>1, <1>2
<1>6. packets = <<>> /\ asked[h] = Len(got[h]) + 1 /\ IsRequest(m.text, asked[h])
  BY <1>1 DEF Downward
<1> QED
  BY <1>4, <1>5, <1>6 DEF Downward

\* Packets are left, so there is no text behind the Receiver.
LEMMA NothingBehind ==
    ASSUME NEW h \in Handlers, NEW packets, Downward(h, packets),
           packets # <<>> \/ asked[h] # Len(got[h]) + 1
    PROVE  \A t \in Later, i \in Nat : ~IsData(h, t, i)
BY DEF Downward

\* What comes up to the Receiver is not touched.
LEMMA UpwardKept ==
    ASSUME NEW h \in Handlers, NEW packets, NEW a, NEW b, Upward(h, packets, a, b),
           life'[h] = life[h], queue'[h]["Receiver"] = queue[h]["Receiver"],
           packetBuffer'[h] = packetBuffer[h], inbound'[h] = inbound[h],
           asked'[h] = asked[h], packets = <<>> \/ got'[h] = got[h]
    PROVE  Upward(h, packets, a, b)'
BY DEF Upward

\* What a client sends are all packets of its next request.
LEMMA Asked ==
    ASSUME TypeOK, NEW h \in Handlers, Ask(h)
    PROVE  \E new \in Seq(Packet) :
               /\ new # <<>> /\ OfRequest(new, asked[h] + 1)
               /\ inbound' = [inbound EXCEPT ![h] = @ \o new]
<1> USE StreamServerAssumption
<1>1. PICK size \in 1 .. MaxPackets : \E order \in Orders(size) :
          inbound' = [inbound EXCEPT ![h] = @ \o
              [i \in 1 .. size |-> [request |-> asked[h] + 1, index |-> order[i], size |-> size]]]
  BY DEF Ask
<1>2. PICK order \in Orders(size) :
          inbound' = [inbound EXCEPT ![h] = @ \o
              [i \in 1 .. size |-> [request |-> asked[h] + 1, index |-> order[i], size |-> size]]]
  BY <1>1
<1> DEFINE new == [i \in 1 .. size |-> [request |-> asked[h] + 1, index |-> order[i], size |-> size]]
<1>3. /\ order \in [1 .. size -> 1 .. size]
      /\ \A i \in 1 .. size : \E j \in 1 .. size : order[j] = i
  BY DEF Orders
<1>4. asked[h] + 1 \in Nat /\ size \in Nat /\ size >= 1 /\ 1 .. size \subseteq 1 .. MaxPackets
  BY TypesAt
<1>5. \A i \in 1 .. size : order[i] \in 1 .. size /\ order[i] \in 1 .. MaxPackets
  BY <1>3, <1>4
<1>6. \A i \in 1 .. size : new[i] \in Packet
  BY <1>3, <1>4, <1>5 DEF Packet
<1>7. new \in Seq(Packet) /\ Len(new) = size /\ new # <<>>
  BY <1>4, <1>6
<1>8. OfRequest(new, asked[h] + 1)
  BY <1>3, <1>4, <1>5, <1>7 DEF OfRequest
<1> QED
  BY <1>2, <1>7, <1>8

\* A client asks when it has all its replies, so nothing of it is on its way.
LEMMA AskFlow ==
    ASSUME TypeOK, NEW h \in Handlers, FlowAt(h), Ask(h)
    PROVE  FlowAt(h)'
<1> USE StreamServerAssumption
<1>1. /\ life[h] # "unused" /\ ~hungUp[h] /\ Len(got[h]) >= asked[h]
      /\ asked' = [asked EXCEPT ![h] = @ + 1]
      /\ UNCHANGED <<life, queue, packetBuffer, hungUp, got>>
  BY DEF Ask, server, stream
<1>2. PICK new \in Seq(Packet) :
          /\ new # <<>> /\ OfRequest(new, asked[h] + 1)
          /\ inbound' = [inbound EXCEPT ![h] = @ \o new]
  BY Asked
<1>3. asked[h] \in Nat /\ asked'[h] = asked[h] + 1
  BY <1>1, TypesAt DEF TypeOK
<1>4. CASE Living(h)
  <2>1. life[h] = "open" /\ Flowing(h)
    BY <1>1, <1>4 DEF FlowAt, Living, Flowing
  <2>2. PICK packets \in Seq(Packet), a \in Nat, b \in Nat :
            Upward(h, packets, a, b) /\ Downward(h, packets)
    BY <2>1 DEF Flowing
  <2>3. asked[h] = Len(got[h]) /\ asked[h] \in Nat
    BY <1>1, <2>1, TypesAt DEF Flowing
  <2>4. packets = <<>> /\ a = 0 /\ b = 0
    BY <2>2, <2>3 DEF Upward
  <2>5. /\ packetBuffer[h] = <<>> /\ inbound[h] = <<>>
        /\ Len(queue[h]["Receiver"]) = 0
    BY <2>1, <2>2, <2>4, TypesAt DEF Upward
  <2>6. inbound'[h] = new
    BY <1>2, <2>5 DEF TypeOK
  <2>7. Upward(h, new, 0, 0)'
    <3>1. Len(new) \in Nat /\ 0 < Len(new) /\ asked'[h] = Len(got'[h]) + 1
      BY <1>1, <1>2, <1>3, <2>3
    <3>2. OfRequest(new, asked'[h])
      BY <1>2, <1>3
    <3>3. Len(packetBuffer'[h]) = 0 /\ Len(queue'[h]["Receiver"]) = 0
      BY <1>1, <2>5
    <3>4. Len(inbound'[h]) = Len(new) - 0 /\ \A i \in 1 .. Len(new) : inbound'[h][i] = new[0 + i]
      BY <2>6, <3>1
    <3> QED
      BY <3>1, <3>2, <3>3, <3>4 DEF Upward
  <2>8. Downward(h, new)'
    <3>1. \A t \in Later, i \in Nat : ~IsData(h, t, i)
      BY <2>2, <2>3, NothingBehind
    <3> QED
      BY <1>1, <3>1 DEF Downward, IsData
  <2>9. Flowing(h)'
    BY <1>1, <1>2, <1>3, <2>1, <2>3, <2>7, <2>8 DEF Flowing
  <2> QED
    BY <1>1, <1>4, <2>1, <2>9 DEF FlowAt, Living
<1>5. CASE ~Living(h)
  BY <1>1, <1>5 DEF FlowAt, Living
<1> QED
  BY <1>4, <1>5

\* What is read goes from the client's packets to the Receiver's queue.
LEMMA ReadDataFlow ==
    ASSUME TypeOK, NEW h \in Handlers, FlowAt(h), ReadData(h)
    PROVE  FlowAt(h)'
<1>1. /\ life[h] = "open"
      /\ UNCHANGED <<life, packetBuffer, asked, hungUp, got>>
  BY DEF ReadData, Called, server
<1>2. PICK n \in 1 .. Len(inbound[h]) :
          /\ inbound' = [inbound EXCEPT ![h] = SubSeq(@, n + 1, Len(@))]
          /\ queue' = [queue EXCEPT
                 ![h]["Receiver"] = @ \o [i \in 1 .. n |-> Data(<<inbound[h][i]>>)]]
  BY DEF ReadData
<1>3. PICK packets \in Seq(Packet), a \in Nat, b \in Nat :
          Upward(h, packets, a, b) /\ Downward(h, packets)
  BY <1>1 DEF FlowAt, Flowing, Living
<1> DEFINE read == [i \in 1 .. n |-> Data(<<inbound[h][i]>>)]
           old  == queue[h]["Receiver"]
           all  == old \o read
<1>4. /\ inbound[h] \in Seq(Packet) /\ old \in Seq(Messages) /\ n \in Nat /\ n >= 1
      /\ Len(inbound[h]) \in Nat /\ n <= Len(inbound[h])
  BY TypesAt DEF Tasks
<1>5. /\ inbound'[h] = SubSeq(inbound[h], n + 1, Len(inbound[h]))
      /\ queue'[h]["Receiver"] = all
      /\ \A t \in Later : queue'[h][t] = queue[h][t]
  BY <1>2 DEF TypeOK, Tasks, Later
<1>6. /\ Len(inbound'[h]) = Len(inbound[h]) - n
      /\ \A i \in 1 .. Len(inbound[h]) - n : inbound'[h][i] = inbound[h][i + n]
  BY <1>4, <1>5
<1>7. read \in Seq(Messages) /\ Len(read) = n
  <2>1. \A i \in 1 .. n : Data(<<inbound[h][i]>>) \in Messages
    <3>1. \A i \in 1 .. n : inbound[h][i] \in Packet
      BY <1>4
    <3> QED
      BY <3>1 DEF Messages, Data
  <2>2. read \in [1 .. n -> Messages]
    BY <2>1
  <2> HIDE DEF read
  <2>3. read \in Seq(Messages)
    BY <1>4, <2>2
  <2> QED
    BY <1>4, <2>2, <2>3
<1>8. /\ Len(all) = Len(old) + n
      /\ \A i \in 1 .. Len(old) : all[i] = old[i]
      /\ \A i \in 1 .. n : all[Len(old) + i] = Data(<<inbound[h][i]>>)
  BY <1>4, <1>7
<1> HIDE DEF all, old, read
<1>9. /\ Len(packets) \in Nat /\ a <= b /\ b + n <= Len(packets) /\ Len(old) = b - a
      /\ Len(inbound[h]) = Len(packets) - b
  BY <1>1, <1>3, <1>4 DEF Upward, old
<1>10. Upward(h, packets, a, b + n)'
  <2>1. Len(all) = (b + n) - a
    BY <1>4, <1>8, <1>9
  <2>2. \A i \in 1 .. (b + n) - a : all[i] = Data(<<packets[a + i]>>)
    <3> SUFFICES ASSUME NEW i \in 1 .. (b + n) - a PROVE all[i] = Data(<<packets[a + i]>>)
      OBVIOUS
    <3>1. CASE i \in 1 .. Len(old)
      BY <3>1, <1>3, <1>8, <1>9 DEF Upward, old
    <3>2. CASE i \notin 1 .. Len(old)
      <4> DEFINE j == i - Len(old)
      <4>1. j \in 1 .. n /\ i = Len(old) + j /\ a + i = b + j /\ j \in 1 .. Len(packets) - b
        BY <3>2, <1>4, <1>9
      <4> HIDE DEF j
      <4>2. all[i] = Data(<<inbound[h][j]>>) /\ inbound[h][j] = packets[b + j]
        BY <4>1, <1>3, <1>8 DEF Upward
      <4> QED
        BY <4>1, <4>2
    <3> QED
      BY <3>1, <3>2
  <2>3. /\ Len(inbound'[h]) = Len(packets) - (b + n)
        /\ \A i \in 1 .. Len(packets) - (b + n) : inbound'[h][i] = packets[(b + n) + i]
    <3>1. Len(inbound'[h]) = Len(packets) - (b + n)
      BY <1>4, <1>6, <1>9
    <3>2. ASSUME NEW i \in 1 .. Len(packets) - (b + n)
          PROVE  inbound'[h][i] = packets[(b + n) + i]
      <4>1. /\ i \in 1 .. Len(inbound[h]) - n /\ i + n \in 1 .. Len(packets) - b
            /\ b + (i + n) = (b + n) + i
        BY <1>4, <1>9
      <4>2. inbound'[h][i] = inbound[h][i + n] /\ inbound[h][i + n] = packets[b + (i + n)]
        BY <4>1, <1>3, <1>6 DEF Upward
      <4> QED
        BY <4>1, <4>2
    <3> QED
      BY <3>1, <3>2
  <2>4. a <= b + n /\ (b + n) - a + 1 > Len(all) /\ (b + n) - a \in Nat
    BY <1>4, <1>9, <2>1
  <2>5. /\ packets # <<>> => a < Len(packets) /\ asked'[h] = Len(got'[h]) + 1
        /\ OfRequest(packets, asked'[h])
        /\ Len(packetBuffer'[h]) = a /\ \A i \in 1 .. a : packetBuffer'[h][i] = packets[i]
    BY <1>1, <1>3 DEF Upward
  <2>6. /\ \A i \in (b + n) - a + 1 .. Len(all) : all[i].type = "stop"
        /\ (b + n) - a <= Len(all)
    BY <2>1, <2>4
  <2> QED
    BY <1>5, <1>9, <2>1, <2>2, <2>3, <2>4, <2>5, <2>6 DEF Upward
<1>11. Downward(h, packets)'
  BY <1>1, <1>3, <1>5 DEF Downward, IsData
<1>12. Flowing(h)'
  BY <1>1, <1>3, <1>4, <1>10, <1>11 DEF FlowAt, Flowing, Living
<1> QED
  BY <1>1, <1>12 DEF FlowAt, Living

\* A Stop is put behind what a queue has, which leaves the texts where they are.
LEMMA StopPut ==
    ASSUME TypeOK, NEW h \in Handlers, NEW t \in Tasks, NEW i \in Nat,
           queue'[h][t] = Append(queue[h][t], Stop), IsData(h, t, i)'
    PROVE  IsData(h, t, i) /\ queue'[h][t][i] = queue[h][t][i]
<1>0. Stop \in Messages
  BY EmptySeq DEF Stop, Messages
<1>1. queue[h][t] \in Seq(Messages)
  BY TypesAt
<1>2. /\ i \in 1 .. Len(queue[h][t]) + 1 /\ queue'[h][t][i].type = "vendor-data"
      /\ queue'[h][t][Len(queue[h][t]) + 1] = Stop
  BY <1>0, <1>1 DEF IsData
<1>3. i # Len(queue[h][t]) + 1
  BY <1>2 DEF Stop
<1>4. i \in DOMAIN queue[h][t] /\ queue'[h][t][i] = queue[h][t][i]
  BY <1>0, <1>1, <1>2, <1>3
<1> QED
  BY <1>2, <1>4 DEF IsData

\* The front is taken from a queue.
LEMMA FrontTaken ==
    ASSUME TypeOK, NEW h \in Handlers, NEW t \in Tasks, NEW i \in Nat,
           queue[h][t] # <<>>, queue'[h][t] = Tail(queue[h][t]), IsData(h, t, i)'
    PROVE  i # 0 /\ IsData(h, t, i + 1) /\ queue'[h][t][i] = queue[h][t][i + 1]
<1>1. queue[h][t] \in Seq(Messages)
  BY TypesAt
<1>2. i \in DOMAIN Tail(queue[h][t]) /\ Tail(queue[h][t])[i].type = "vendor-data"
  BY DEF IsData
<1> QED
  BY <1>1, <1>2, TailElements DEF IsData

\* The end of a connection: a Stop goes to both ends of the stream.
LEMMA ReadEndFlow ==
    ASSUME TypeOK, NEW h \in Handlers, FlowAt(h), ReadEnd(h)
    PROVE  FlowAt(h)'
<1>1. /\ life[h] = "open" /\ hungUp[h] /\ life'[h] = "ended"
      /\ UNCHANGED <<packetBuffer, asked, inbound, hungUp, got>>
      /\ queue'[h]["Receiver"] = Append(queue[h]["Receiver"], Stop)
      /\ queue'[h]["MetaData"] = Append(queue[h]["MetaData"], Stop)
      /\ \A t \in {"ResponseMessage", "Sender"} : queue'[h][t] = queue[h][t]
  BY DEF ReadEnd, Called, client, TypeOK, Tasks
<1>2. PICK packets \in Seq(Packet), a \in Nat, b \in Nat :
          Upward(h, packets, a, b) /\ Downward(h, packets)
  BY <1>1 DEF FlowAt, Flowing, Living
<1>3. Upward(h, packets, a, b)'
  <2> DEFINE old == queue[h]["Receiver"]
             new == queue'[h]["Receiver"]
  <2>1. old \in Seq(Messages) /\ Len(old) = b - a
    BY <1>1, <1>2, TypesAt DEF Upward, Tasks
  <2>2. /\ Len(new) = Len(old) + 1 /\ \A i \in 1 .. Len(old) : new[i] = old[i]
        /\ new[Len(old) + 1] = Stop
    BY <1>1, <2>1
  <2> HIDE DEF old, new
  <2>3. /\ b - a <= Len(new)
        /\ \A i \in 1 .. b - a : new[i] = Data(<<packets[a + i]>>)
    <3>1. Len(old) \in Nat /\ b - a <= Len(new) /\ 1 .. b - a = 1 .. Len(old)
      BY <2>1, <2>2
    <3>2. \A i \in 1 .. b - a : old[i] = Data(<<packets[a + i]>>)
      BY <1>2 DEF Upward, old
    <3> QED
      BY <2>2, <3>1, <3>2
  <2>4. \A i \in b - a + 1 .. Len(new) : new[i].type = "stop"
    <3> SUFFICES ASSUME NEW i \in b - a + 1 .. Len(new) PROVE i = Len(old) + 1
      BY <2>2 DEF Stop
    <3> QED
      BY <2>1, <2>2
  <2> QED
    BY <1>1, <1>2, <2>3, <2>4 DEF Upward, new
<1>4. Downward(h, packets)'
  <2> DEFINE shift == [t \in Later |-> 0]
  <2>1. ASSUME NEW t \in Later, NEW i \in Nat, IsData(h, t, i)'
        PROVE  IsData(h, t, i + shift[t]) /\ queue'[h][t][i] = queue[h][t][i + shift[t]]
    <3>1. CASE t = "MetaData"
      BY <1>1, <2>1, <3>1, StopPut DEF Tasks
    <3>2. CASE t # "MetaData"
      BY <1>1, <2>1, <3>2 DEF Later, IsData
    <3> QED
      BY <3>1, <3>2
  <2>2. shift \in [Later -> {0, 1}]
    OBVIOUS
  <2> HIDE DEF shift
  <2> QED
    BY <1>1, <1>2, <2>1, <2>2, DownwardKept
<1>5. Flowing(h)'
  BY <1>1, <1>2, <1>3, <1>4 DEF FlowAt, Flowing, Living
<1> QED
  BY <1>1, <1>5 DEF FlowAt, Living

\* held is the first packets of what is on its way, to the one in front of the queue.
Received(h, held, packets, a, b) ==
    /\ Upward(h, packets, a, b) /\ Downward(h, packets)
    /\ a < b /\ held \in Seq(Packet) /\ Len(held) = a + 1
    /\ \A i \in 1 .. a + 1 : held[i] = packets[i]
    /\ Complete(held) <=> Len(packets) = a + 1

\* What the Receiver has when it has got a packet of what is on its way.
LEMMA PacketReceived ==
    ASSUME TypeOK, NEW h \in Handlers, FlowAt(h), Living(h), Gets(h, "Receiver", "vendor-data"),
           NEW held, held = packetBuffer[h] \o Head(queue[h]["Receiver"]).text
    PROVE  \E packets \in Seq(Packet), a \in Nat, b \in Nat : Received(h, held, packets, a, b)
<1>1. PICK packets \in Seq(Packet), a \in Nat, b \in Nat :
          Upward(h, packets, a, b) /\ Downward(h, packets)
  BY DEF FlowAt, Flowing
<1> DEFINE q == queue[h]["Receiver"]
<1>2. q \in Seq(Messages) /\ q # <<>> /\ Head(q).type = "vendor-data" /\ packetBuffer[h] \in Seq(Packet)
  BY TypesAt DEF Gets, Tasks
<1>3. Len(q) \in Nat /\ Len(q) >= 1 /\ Head(q) = q[1]
  BY <1>2
<1>4. a < b
  <2>1. SUFFICES ASSUME a = b PROVE FALSE
    BY <1>1 DEF Upward
  <2>2. 1 \in b - a + 1 .. Len(q)
    BY <1>3, <2>1
  <2>3. q[1].type = "stop"
    BY <1>1, <2>2 DEF Upward
  <2> QED
    BY <1>2, <1>3, <2>3
<1>5. q[1] = Data(<<packets[a + 1]>>) /\ a + 1 \in 1 .. Len(packets)
  <2>1. 1 \in 1 .. b - a
    BY <1>4
  <2> QED
    BY <1>1, <1>4, <2>1 DEF Upward
<1>6. held = packetBuffer[h] \o <<packets[a + 1]>> /\ packets[a + 1] \in Packet
  <2>1. Head(q).text = <<packets[a + 1]>>
    BY <1>3, <1>5 DEF Data
  <2>2. packets[a + 1] \in Packet
    BY <1>5
  <2> QED
    BY <2>1, <2>2
<1>7. Len(packetBuffer[h]) = a /\ \A i \in 1 .. a : packetBuffer[h][i] = packets[i]
  BY <1>1 DEF Upward
<1> DEFINE n == Len(packetBuffer[h])
           all == Append(packetBuffer[h], packets[a + 1])
<1>8. /\ held \in Seq(Packet) /\ Len(held) = a + 1 /\ held[a + 1] = packets[a + 1]
      /\ \A i \in 1 .. a : held[i] = packetBuffer[h][i]
  <2>1. held = all
    BY <1>2, <1>6, AppendIsConcat
  <2>2. /\ all \in Seq(Packet) /\ Len(all) = n + 1 /\ all[n + 1] = packets[a + 1]
        /\ \A i \in 1 .. n : all[i] = packetBuffer[h][i]
    BY <1>2, <1>6, AppendProperties
  <2> HIDE DEF all
  <2> QED
    BY <1>7, <2>1, <2>2
<1>10. \A i \in 1 .. a + 1 : held[i] = packets[i]
  <2> TAKE i \in 1 .. a + 1
  <2>1. i \in 1 .. a \/ i = a + 1
    OBVIOUS
  <2> QED
    BY <1>7, <1>8, <2>1
<1>11. packets[a + 1].size = Len(packets)
  BY <1>1, <1>5 DEF Upward, OfRequest
<1>12. Complete(held) <=> Len(packets) = a + 1
  BY <1>8, <1>11 DEF Complete
<1> QED
  BY <1>1, <1>4, <1>8, <1>10, <1>12 DEF Received

\* The packets of a request go on as one text when they are complete; until then
\* one more of them is held back.
LEMMA ReceiveFlow ==
    ASSUME TypeOK, NEW h \in Handlers, FlowAt(h), Living(h), ReceivePacket(h)
    PROVE  FlowAt(h)'
<1> DEFINE q == queue[h]["Receiver"]
           r == queue[h]["ResponseMessage"]
           m == Len(r) + 1
<1>0. PICK held : held = packetBuffer[h] \o Head(queue[h]["Receiver"]).text
  OBVIOUS
<1>1. /\ Gets(h, "Receiver", "vendor-data") /\ q # <<>>
      /\ UNCHANGED <<life, asked, inbound, hungUp, got>>
  BY DEF ReceivePacket, Gets, server, client
<1>2. PICK packets \in Seq(Packet), a \in Nat, b \in Nat : Received(h, held, packets, a, b)
  BY <1>0, <1>1, PacketReceived
<1>10. /\ Upward(h, packets, a, b) /\ Downward(h, packets)
       /\ a < b /\ held \in Seq(Packet) /\ Len(held) = a + 1
       /\ \A i \in 1 .. a + 1 : held[i] = packets[i]
       /\ Complete(held) <=> Len(packets) = a + 1
  BY <1>2 DEF Received
<1>3. q \in Seq(Messages) /\ r \in Seq(Messages)
  BY TypesAt DEF Tasks
<1>4. /\ Len(Tail(q)) = Len(q) - 1 /\ Len(q) \in Nat
      /\ \A i \in 1 .. Len(Tail(q)) : Tail(q)[i] = q[i + 1]
  BY <1>1, <1>3, TailElements
<1>5. /\ b - a <= Len(q) /\ b <= Len(packets) /\ packets # <<>> /\ a < Len(packets)
      /\ Len(packets) \in Nat /\ life[h] = "open" => Len(q) = b - a
      /\ asked[h] = Len(got[h]) + 1 /\ OfRequest(packets, asked[h])
      /\ Len(inbound[h]) = Len(packets) - b
      /\ \A i \in 1 .. Len(packets) - b : inbound[h][i] = packets[b + i]
      /\ \A i \in 1 .. b - a : q[i] = Data(<<packets[a + i]>>)
      /\ \A i \in b - a + 1 .. Len(q) : q[i].type = "stop"
  BY <1>10 DEF Upward
<1>6. \A i \in b - a .. Len(Tail(q)) : Tail(q)[i].type = "stop"
  <2> TAKE i \in b - a .. Len(Tail(q))
  <2>1. i \in 1 .. Len(Tail(q)) /\ i + 1 \in b - a + 1 .. Len(q)
    BY <1>10, <1>4
  <2> QED
    BY <2>1, <1>4, <1>5
<1>7. \A t \in Later, i \in Nat : ~IsData(h, t, i)
  BY <1>10, <1>5, NothingBehind
<1>8. CASE Complete(held)
  <2>1. /\ packetBuffer' = [packetBuffer EXCEPT ![h] = Emptied(held)]
        /\ queue' = Passed(h, "Receiver", "ResponseMessage", Data(Sorted(held)))
    BY <1>0, <1>8 DEF ReceivePacket
  <2>2. /\ packetBuffer'[h] = <<>> /\ queue'[h]["Receiver"] = Tail(q)
        /\ queue'[h]["ResponseMessage"] = Append(r, Data(Sorted(held)))
        /\ \A t \in {"MetaData", "Sender"} : queue'[h][t] = queue[h][t]
    BY <2>1 DEF TypeOK, Passed, Tasks, Emptied
  <2>3. held = packets /\ b = a + 1 /\ Len(packets) = b
    <3>1. Len(packets) = a + 1
      BY <1>10, <1>8
    <3>2. Len(held) = Len(packets) /\ \A i \in 1 .. Len(held) : held[i] = packets[i]
      BY <1>10, <3>1
    <3>3. held = packets
      BY <1>10, <3>2, SeqEqual
    <3> QED
      BY <3>1, <3>3, <1>10, <1>5
  <2>4. IsRequest(Sorted(held), asked[h]) /\ Sorted(held) \in Seq(Packet)
    BY <1>10, <1>5, <2>3, SortedRequest
  <2>5. Upward(h, <<>>, 0, 0)'
    <3>1. Len(inbound'[h]) = 0 /\ Len(packetBuffer'[h]) = 0 /\ OfRequest(<<>>, asked'[h])
      BY <1>1, <1>5, <2>2, <2>3, EmptySeq DEF OfRequest
    <3>2. life'[h] = "open" => Len(Tail(q)) = 0
      BY <1>1, <1>10, <1>4, <1>5, <2>3
    <3>3. \A i \in 1 .. Len(Tail(q)) : Tail(q)[i].type = "stop"
      BY <1>6, <2>3
    <3>4. Len(Tail(q)) \in Nat
      BY <1>3, <1>1, TailElements
    <3>5. /\ Len(<<>>) = 0 /\ 0 <= 0 /\ 0 - 0 = 0 /\ 1 .. 0 = {} /\ 0 + 1 = 1 /\ 0 <= Len(Tail(q))
          /\ <<>> # <<>> => 0 < Len(<<>>) /\ asked'[h] = Len(got'[h]) + 1
      BY <3>4, EmptySeq
    <3> QED
      BY <2>2, <3>1, <3>2, <3>3, <3>4, <3>5 DEF Upward
  <2>6. Downward(h, <<>>)'
    <3>1. Data(Sorted(held)) \in Messages
      BY <2>4 DEF Data, Messages
    <3>2. ASSUME NEW t \in Later, NEW i \in Nat, IsData(h, t, i)'
          PROVE  t = "ResponseMessage" /\ i = m
      <4>1. CASE t # "ResponseMessage"
        BY <2>2, <3>2, <4>1, <1>7 DEF IsData, Later
      <4>2. CASE t = "ResponseMessage" /\ i # m
        <5>1. i \in 1 .. Len(r) /\ Append(r, Data(Sorted(held)))[i] = r[i]
          BY <1>3, <2>2, <3>1, <3>2, <4>2 DEF IsData
        <5>2. Append(r, Data(Sorted(held)))[i].type = "vendor-data"
          BY <2>2, <3>2, <4>2 DEF IsData
        <5>3. IsData(h, "ResponseMessage", i)
          BY <1>3, <5>1, <5>2 DEF IsData
        <5> QED
          BY <5>3, <1>7 DEF Later
      <4> QED
        BY <4>1, <4>2
    <3>3. Append(r, Data(Sorted(held)))[m] = Data(Sorted(held))
      BY <1>3, <3>1
    <3>4. IsRequest(queue'[h]["ResponseMessage"][m].text, asked'[h])
      BY <1>1, <2>2, <2>4, <3>3 DEF Data
    <3> QED
      BY <1>1, <1>5, <3>2, <3>4 DEF Downward
  <2>7. Flowing(h)'
    BY <1>1, <2>5, <2>6, EmptySeq DEF FlowAt, Flowing
  <2> QED
    BY <1>1, <2>7 DEF FlowAt, Living
<1>9. CASE ~Complete(held)
  <2>1. packetBuffer' = [packetBuffer EXCEPT ![h] = held] /\ queue' = Taken(h, "Receiver")
    BY <1>0, <1>9 DEF ReceivePacket
  <2>2. /\ packetBuffer'[h] = held /\ queue'[h]["Receiver"] = Tail(q)
        /\ \A t \in Later : queue'[h][t] = queue[h][t]
    BY <2>1 DEF TypeOK, Taken, Tasks, Later
  <2>3. Upward(h, packets, a + 1, b)'
    <3>1. a + 1 <= b /\ a + 1 < Len(packets) /\ b - (a + 1) <= Len(Tail(q))
      BY <1>10, <1>4, <1>5, <1>9
    <3>2. life[h] = "open" => Len(Tail(q)) = b - (a + 1)
      BY <1>4, <1>5
    <3>3. \A i \in 1 .. b - (a + 1) : Tail(q)[i] = Data(<<packets[(a + 1) + i]>>)
      <4> TAKE i \in 1 .. b - (a + 1)
      <4>1. i \in 1 .. Len(Tail(q)) /\ i + 1 \in 1 .. b - a /\ a + (i + 1) = (a + 1) + i
        BY <3>1, <1>4
      <4> QED
        BY <4>1, <1>4, <1>5
    <3>4. b - (a + 1) + 1 = b - a
      OBVIOUS
    <3>5. OfRequest(packets, asked'[h]) /\ asked'[h] = Len(got'[h]) + 1
      BY <1>1, <1>5
    <3>6. \A i \in b - (a + 1) + 1 .. Len(Tail(q)) : Tail(q)[i].type = "stop"
      BY <1>6, <3>4
    <3> QED
      BY <1>1, <1>10, <1>5, <2>2, <3>1, <3>2, <3>3, <3>5, <3>6 DEF Upward
  <2>4. Downward(h, packets)'
    BY <1>7, <2>2 DEF Downward, IsData
  <2>5. Flowing(h)'
    BY <1>1, <1>10, <2>3, <2>4 DEF FlowAt, Flowing
  <2> QED
    BY <1>1, <2>5 DEF FlowAt, Living
<1> QED
  BY <1>8, <1>9

\* A text goes from one task to the next.
LEMMA PassFlow ==
    ASSUME TypeOK, NEW h \in Handlers, FlowAt(h), Living(h),
           Respond(h) \/ AddMetaData(h)
    PROVE  FlowAt(h)'
<1>1. PICK t \in Later, u \in Later :
          /\ u # t /\ Gets(h, t, "vendor-data")
          /\ queue' = Passed(h, t, u, Head(queue[h][t]))
  BY DEF Respond, AddMetaData, Later
<1>2. UNCHANGED <<life, packetBuffer, asked, inbound, hungUp, got>>
  BY DEF Respond, AddMetaData, server, client
<1>3. PICK packets \in Seq(Packet), a \in Nat, b \in Nat :
          Upward(h, packets, a, b) /\ Downward(h, packets)
  BY DEF FlowAt, Flowing
<1>4. queue'[h]["Receiver"] = queue[h]["Receiver"]
  BY <1>1 DEF TypeOK, Passed, Later, Tasks
<1>5. IsData(h, t, 1)
  <2>1. queue[h][t] \in Seq(Messages) /\ queue[h][t] # <<>> /\ Head(queue[h][t]).type = "vendor-data"
    BY <1>1, TypesAt DEF Later, Tasks, Gets
  <2> QED
    BY <2>1 DEF IsData
<1>6. Upward(h, packets, a, b)'
  BY <1>2, <1>3, <1>4, UpwardKept
<1>7. Downward(h, packets)'
  BY <1>1, <1>2, <1>3, <1>5, DownwardPassed
<1>8. Flowing(h)'
  BY <1>2, <1>3, <1>6, <1>7 DEF FlowAt, Flowing
<1> QED
  BY <1>2, <1>8 DEF FlowAt, Living

\* The reply is sent.  It goes to the client of h, or is lost, or goes to one whose
\* handler could not be kept.
LEMMA SendFlow ==
    ASSUME TypeOK, OwnersInv, FlowInv, NEW h \in Handlers, Send(h)
    PROVE  FlowInv'
<1> USE StreamServerAssumption
<1>0. PICK g : g = peer[fdOf[h]]
  OBVIOUS
<1> DEFINE q == queue[h]["Sender"]
           r == [from |-> h, text |-> Head(q).text]
<1>1. /\ q # <<>> /\ Head(q).type = "vendor-data"
      /\ queue' = Taken(h, "Sender")
      /\ got' = IF g # None /\ ~hungUp[g] THEN [got EXCEPT ![g] = Append(@, r)] ELSE got
      /\ UNCHANGED <<life, packetBuffer, asked, inbound, hungUp>>
  BY <1>0 DEF Send, Gets, server, client
<1>2. Living(h) /\ fdOf[h] \in Fds /\ mConnections[fdOf[h]] = h
  BY DEF OwnersInv, ThreadsLive, Kept, Tasks, Send, Gets
<1>3. PICK packets \in Seq(Packet), a \in Nat, b \in Nat :
          Upward(h, packets, a, b) /\ Downward(h, packets)
  BY <1>2 DEF FlowInv, FlowAt, Flowing
<1>4. /\ q \in Seq(Messages) /\ asked[h] \in Nat
      /\ \A c \in Handlers : got[c] \in Seq([from : Handlers, text : Seq(Packet)])
  BY TypesAt DEF Tasks
<1>5. q[1] = Head(q) /\ IsData(h, "Sender", 1)
  BY <1>1, <1>4 DEF IsData
<1>6. /\ packets = <<>> /\ asked[h] = Len(got[h]) + 1 /\ IsRequest(r.text, asked[h])
      /\ \A t \in Later, i \in Nat : IsData(h, t, i) => t = "Sender" /\ i = 1
  BY <1>3, <1>5 DEF Downward, Later
<1>7. /\ queue'[h]["Sender"] = Tail(q)
      /\ \A t \in Tasks \ {"Sender"} : queue'[h][t] = queue[h][t]
      /\ \A c \in Handlers \ {h} : queue'[c] = queue[c]
  BY <1>1 DEF TypeOK, Taken, Tasks
<1>8. \A t \in Later, i \in Nat : ~IsData(h, t, i)'
  <2> SUFFICES ASSUME NEW t \in Later, NEW i \in Nat, IsData(h, t, i)' PROVE FALSE
    OBVIOUS
  <2>1. CASE t = "Sender"
    <3>1. i # 0 /\ IsData(h, "Sender", i + 1)
      BY <1>1, <1>7, <2>1, FrontTaken DEF Tasks
    <3> QED
      BY <3>1, <1>6, <2>1
  <2>2. CASE t # "Sender"
    BY <1>6, <1>7, <2>2 DEF IsData, Later, Tasks
  <2> QED
    BY <2>1, <2>2
<1>9. Upward(h, packets, a, b)' /\ Downward(h, packets)'
  <2>1. Upward(h, packets, a, b)'
    BY <1>1, <1>3, <1>6, <1>7, UpwardKept DEF Tasks
  <2>2. Downward(h, packets)'
    BY <1>8 DEF Downward
  <2> QED
    BY <2>1, <2>2
<1>10. CASE got' = got
  <2>1. Flowing(h)'
    BY <1>1, <1>2, <1>3, <1>9, <1>10 DEF FlowInv, FlowAt, Flowing
  <2>2. FlowAt(h)'
    BY <1>1, <1>2, <1>10, <2>1 DEF FlowInv, FlowAt, Living
  <2>3. ASSUME NEW c \in Handlers, c # h PROVE FlowAt(c)'
    BY <1>1, <1>7, <1>10, <2>3, Untouched DEF FlowInv
  <2> QED
    BY <2>2, <2>3 DEF FlowInv
<1>11. CASE g # None /\ got' = [got EXCEPT ![g] = Append(@, r)]
  <2>1. g \in Handlers /\ fdOf[g] = fdOf[h] /\ life[g] # "unused"
    BY <1>0, <1>2, <1>11 DEF TypeOK, OwnersInv, PeersOwn
  <2>2. Living(g) => g = h
    BY <1>2, <2>1 DEF OwnersInv, Kept
  <2>3. got'[g] = Append(got[g], r) /\ \A c \in Handlers \ {g} : got'[c] = got[c]
    BY <1>11, <2>1 DEF TypeOK
  <2>4. /\ Len(got'[g]) = Len(got[g]) + 1 /\ got'[g][Len(got[g]) + 1] = r
        /\ \A k \in 1 .. Len(got[g]) : got'[g][k] = got[g][k]
        /\ DOMAIN got'[g] = 1 .. Len(got[g]) + 1 /\ DOMAIN got[g] = 1 .. Len(got[g])
    BY <1>4, <2>1, <2>3
  <2>5. FlowAt(h)'
    <3>1. CASE g = h
      <4>1. Flowing(h)'
        <5>1. Len(got'[h]) <= asked'[h]
          BY <1>1, <1>4, <1>6, <2>4, <3>1
        <5>2. life'[h] = "ended" => hungUp'[h]
          BY <1>1, <1>2 DEF FlowInv, FlowAt, Flowing
        <5> QED
          BY <1>3, <1>9, <5>1, <5>2 DEF Flowing
      <4>2. ASSUME NEW k \in DOMAIN got'[h] PROVE IsRequest(got'[h][k].text, k)
        <5>1. CASE k \in 1 .. Len(got[h])
          BY <1>2, <2>4, <3>1, <5>1 DEF FlowInv, FlowAt
        <5>2. CASE k = Len(got[h]) + 1
          BY <1>6, <2>4, <3>1, <5>2
        <5> QED
          BY <1>4, <2>4, <3>1, <4>2, <5>1, <5>2
      <4> QED
        BY <1>1, <1>2, <4>1, <4>2 DEF FlowAt, Living
    <3>2. CASE g # h
      <4>1. got'[h] = got[h]
        BY <2>3, <3>2
      <4>2. Flowing(h)'
        BY <1>1, <1>2, <1>3, <1>9, <4>1 DEF FlowInv, FlowAt, Flowing
      <4> QED
        BY <1>1, <1>2, <4>1, <4>2 DEF FlowInv, FlowAt, Living
    <3> QED
      BY <3>1, <3>2
  <2>6. ASSUME NEW c \in Handlers, c # h, c # g PROVE FlowAt(c)'
    BY <1>1, <1>7, <2>3, <2>6, Untouched DEF FlowInv
  <2>7. ASSUME g # h PROVE FlowAt(g)'
    <3>1. life[g] = "deleted" /\ life'[g] = "deleted"
      BY <1>1, <2>1, <2>2, <2>7 DEF TypeOK, Living, Life
    <3>2. \A k \in DOMAIN got'[g] : got'[g][k].from # g
      <4> TAKE k \in DOMAIN got'[g]
      <4>1. k \in 1 .. Len(got[g]) \/ k = Len(got[g]) + 1
        BY <1>4, <2>1, <2>4
      <4> QED
        BY <2>1, <2>4, <2>7, <3>1, <4>1 DEF FlowInv, FlowAt
    <3> QED
      BY <3>1, <3>2 DEF FlowAt, Living
  <2> QED
    BY <2>1, <2>5, <2>6, <2>7 DEF FlowInv
<1> QED
  BY <1>1, <1>10, <1>11

\* A Stop is taken by task t of the stream, and put on by some.
LEMMA StopFlow ==
    ASSUME TypeOK, NEW h \in Handlers, FlowAt(h), Living(h),
           NEW t \in Tasks, NEW u \in Later, t # u, Gets(h, t, "stop"),
           queue' = Taken(h, t) \/ queue' = Passed(h, t, u, Stop),
           UNCHANGED <<life, packetBuffer, asked, inbound, hungUp, got>>
    PROVE  FlowAt(h)'
<1>1. PICK packets \in Seq(Packet), a \in Nat, b \in Nat :
          Upward(h, packets, a, b) /\ Downward(h, packets)
  BY DEF FlowAt, Flowing
<1>2. /\ queue[h][t] \in Seq(Messages) /\ queue[h][t] # <<>>
      /\ Head(queue[h][t]).type = "stop" /\ u \in Tasks
  BY TypesAt DEF Gets, Later, Tasks
<1>3. /\ queue'[h][t] = Tail(queue[h][t])
      /\ queue'[h][u] = queue[h][u] \/ queue'[h][u] = Append(queue[h][u], Stop)
      /\ \A s \in Tasks \ {t, u} : queue'[h][s] = queue[h][s]
  <2>1. CASE queue' = Taken(h, t)
    BY <1>2, <2>1 DEF TypeOK, Taken
  <2>2. CASE queue' = Passed(h, t, u, Stop)
    BY <1>2, <2>2 DEF TypeOK, Passed
  <2> QED
    BY <2>1, <2>2
<1>4. Upward(h, packets, a, b)'
  <2>1. CASE t # "Receiver"
    <3>1. queue'[h]["Receiver"] = queue[h]["Receiver"]
      BY <1>3, <2>1 DEF Later, Tasks
    <3> QED
      BY <1>1, <3>1, UpwardKept
  <2>2. CASE t = "Receiver"
    <3> DEFINE q == queue[h]["Receiver"]
    <3>1. /\ q \in Seq(Messages) /\ q # <<>> /\ q[1].type = "stop" /\ Len(q) \in Nat
          /\ Len(Tail(q)) = Len(q) - 1 /\ \A i \in 1 .. Len(Tail(q)) : Tail(q)[i] = q[i + 1]
      BY <1>2, <2>2, TailElements
    <3>2. b - a = 0
      <4>1. SUFFICES ASSUME a < b PROVE FALSE
        BY <1>1 DEF Upward
      <4>2. q[1] = Data(<<packets[a + 1]>>)
        BY <1>1, <4>1 DEF Upward
      <4> QED
        BY <3>1, <4>2 DEF Data
    <3>3. Len(q) >= 1 /\ life[h] # "open"
      BY <1>1, <3>1, <3>2 DEF Upward
    <3>4. \A i \in 1 .. Len(Tail(q)) : Tail(q)[i].type = "stop"
      <4> TAKE i \in 1 .. Len(Tail(q))
      <4>1. i + 1 \in b - a + 1 .. Len(q)
        BY <3>1, <3>2
      <4> QED
        BY <1>1, <3>1, <4>1 DEF Upward
    <3>5. b - a + 1 .. Len(Tail(q)) = 1 .. Len(Tail(q)) /\ b - a <= Len(Tail(q)) /\ 1 .. b - a = {}
      BY <3>1, <3>2, <3>3
    <3> QED
      BY <1>1, <1>3, <2>2, <3>3, <3>4, <3>5 DEF Upward
  <2> QED
    BY <2>1, <2>2
<1>5. Downward(h, packets)'
  <2> DEFINE shift == [s \in Later |-> IF s = t THEN 1 ELSE 0]
  <2>1. shift \in [Later -> {0, 1}]
    OBVIOUS
  <2>2. ASSUME NEW s \in Later, NEW i \in Nat, IsData(h, s, i)'
        PROVE  IsData(h, s, i + shift[s]) /\ queue'[h][s][i] = queue[h][s][i + shift[s]]
    <3>0. s \in Tasks
      BY DEF Later, Tasks
    <3>1. CASE s = t
      BY <1>2, <1>3, <2>2, <3>1, FrontTaken
    <3>2. CASE s # t /\ queue'[h][s] = queue[h][s]
      BY <2>2, <3>2 DEF IsData
    <3>3. CASE s # t /\ queue'[h][s] = Append(queue[h][s], Stop)
      <4>1. IsData(h, s, i) /\ queue'[h][s][i] = queue[h][s][i]
        BY <2>2, <3>0, <3>3, StopPut
      <4> QED
        BY <3>3, <4>1
    <3> QED
      BY <1>3, <3>0, <3>1, <3>2, <3>3
  <2> HIDE DEF shift
  <2> QED
    BY <1>1, <2>1, <2>2, DownwardKept
<1>6. Flowing(h)'
  BY <1>1, <1>4, <1>5 DEF FlowAt, Flowing
<1> QED
  BY <1>6 DEF FlowAt, Living

\* A new connection: nothing is on its way.
LEMMA AcceptFlow ==
    ASSUME TypeOK, UnusedGotNothing, NEW h \in Handlers, NEW f \in Fds, FlowAt(h),
           AcceptConnection(h, f)
    PROVE  FlowAt(h)'
<1>1. /\ life[h] = "unused" /\ life'[h] \in {"open", "deleted"}
      /\ UNCHANGED <<queue, packetBuffer, asked, inbound, hungUp, got>>
  BY DEF AcceptConnection, client, TypeOK
<1>2. Idle(h) /\ got[h] = <<>>
  BY <1>1 DEF FlowAt, UnusedGotNothing
<1>3. /\ Len(got[h]) = 0 /\ DOMAIN got[h] = {} /\ asked[h] = 0
      /\ Len(packetBuffer[h]) = 0 /\ Len(inbound[h]) = 0
      /\ \A t \in Tasks : Len(queue[h][t]) = 0 /\ DOMAIN queue[h][t] = {}
  BY <1>2 DEF Idle
<1>4. Upward(h, <<>>, 0, 0)'
  BY <1>1, <1>3 DEF Upward, OfRequest, Tasks
<1>5. Downward(h, <<>>)'
  BY <1>1, <1>3 DEF Downward, IsData, Later, Tasks
<1>6. Flowing(h)' \/ life'[h] = "deleted"
  <2>1. \E packets \in Seq(Packet), a \in Nat, b \in Nat :
            Upward(h, packets, a, b)' /\ Downward(h, packets)'
    BY <1>4, <1>5, EmptySeq
  <2>2. Len(got'[h]) <= asked'[h]
    BY <1>1, <1>3
  <2> QED
    BY <1>1, <2>1, <2>2 DEF Flowing
<1> QED
  BY <1>1, <1>3, <1>6 DEF FlowAt, Living

\* A client that closes its end.
LEMMA HangUpFlow ==
    ASSUME TypeOK, NEW h \in Handlers, FlowAt(h), HangUp(h)
    PROVE  FlowAt(h)'
<1>1. /\ hungUp'[h] /\ UNCHANGED <<life, queue, packetBuffer, asked, inbound, got>>
  BY DEF HangUp, server, stream, TypeOK
<1> QED
  BY <1>1, Untouched

LEMMA InitFlow == Init => FlowInv
BY DEF Init, FlowInv, FlowAt, Idle, Living

\* A step that is none of a Sender changes one handler at most.
LEMMA NextFlow == TypeOK /\ OwnersInv /\ FlowInv /\ [Next]_vars => FlowInv'
<1> SUFFICES ASSUME TypeOK, OwnersInv, FlowInv, [Next]_vars PROVE FlowInv'
  OBVIOUS
<1>0. /\ \A h \in Handlers : FlowAt(h)
      /\ \A h \in Handlers, t \in Tasks : worker[h][t] = "running" => Living(h)
      /\ UnusedGotNothing
  BY DEF FlowInv, OwnersInv, ThreadsLive
<1>1. CASE UNCHANGED vars \/ CallDeleted
  <2>1. UNCHANGED <<life, queue, packetBuffer, asked, inbound, hungUp, got>>
    BY <1>1 DEF vars, CallDeleted, server, stream, client
  <2> QED
    BY <1>0, <2>1, Untouched DEF FlowInv
<1>2. ASSUME NEW h \in Handlers, Ask(h) \/ HangUp(h) \/ ReadData(h) \/ ReadEnd(h)
      PROVE  FlowInv'
  <2>1. FlowAt(h)'
    BY <1>0, <1>2, AskFlow, HangUpFlow, ReadDataFlow, ReadEndFlow
  <2>2. ASSUME NEW c \in Handlers, c # h
        PROVE  /\ life'[c] = life[c] /\ queue'[c] = queue[c] /\ packetBuffer'[c] = packetBuffer[c]
               /\ inbound'[c] = inbound[c] /\ asked'[c] = asked[c] /\ got'[c] = got[c]
               /\ hungUp'[c] = hungUp[c]
    BY <1>2, <2>2 DEF TypeOK, Ask, HangUp, ReadData, ReadEnd, server, stream, client
  <2> QED
    BY <1>0, <2>1, <2>2, Untouched DEF FlowInv
<1>3. ASSUME NEW h \in Handlers, NEW f \in Fds, AcceptConnection(h, f)
      PROVE  FlowInv'
  <2>1. FlowAt(h)'
    BY <1>0, <1>3, AcceptFlow
  <2>2. ASSUME NEW c \in Handlers, c # h
        PROVE  /\ life'[c] = life[c] /\ queue'[c] = queue[c] /\ packetBuffer'[c] = packetBuffer[c]
               /\ inbound'[c] = inbound[c] /\ asked'[c] = asked[c] /\ got'[c] = got[c]
               /\ hungUp'[c] = hungUp[c]
    BY <1>3, <2>2 DEF TypeOK, AcceptConnection, client
  <2> QED
    BY <1>0, <2>1, <2>2, Untouched DEF FlowInv
<1>4. ASSUME NEW h \in Handlers, Work(h), ~Send(h)
      PROVE  FlowInv'
  <2>0. Living(h)
    BY <1>0, <1>4 DEF Work, ReceivePacket, Respond, AddMetaData, StopAndPass, StopAtEnd, Gets, Tasks
  <2>1. FlowAt(h)'
    <3>1. CASE ReceivePacket(h)
      BY <1>0, <2>0, <3>1, ReceiveFlow
    <3>2. CASE Respond(h) \/ AddMetaData(h)
      BY <1>0, <2>0, <3>2, PassFlow
    <3>3. CASE StopAndPass(h, "Receiver", "ResponseMessage")
      <4>1. /\ Gets(h, "Receiver", "stop") /\ queue' = Passed(h, "Receiver", "ResponseMessage", Stop)
            /\ UNCHANGED <<life, packetBuffer, asked, inbound, hungUp, got>>
        BY <3>3 DEF StopAndPass, StopPassed, server, client
      <4> QED
        BY <1>0, <2>0, <4>1, StopFlow DEF Tasks, Later
    <3>4. CASE StopAndPass(h, "MetaData", "Sender")
      <4>1. /\ Gets(h, "MetaData", "stop") /\ queue' = Passed(h, "MetaData", "Sender", Stop)
            /\ UNCHANGED <<life, packetBuffer, asked, inbound, hungUp, got>>
        BY <3>4 DEF StopAndPass, StopPassed, server, client
      <4> QED
        BY <1>0, <2>0, <4>1, StopFlow DEF Tasks, Later
    <3>5. ASSUME NEW t \in {"ResponseMessage", "Sender"}, StopAtEnd(h, t)
          PROVE  FlowAt(h)'
      <4>1. /\ Gets(h, t, "stop") /\ queue' = Taken(h, t) /\ t \in Tasks /\ t # "MetaData"
            /\ UNCHANGED <<life, packetBuffer, asked, inbound, hungUp, got>>
        BY <3>5 DEF StopAtEnd, server, client, Tasks
      <4> QED
        BY <1>0, <2>0, <4>1, StopFlow DEF Later
    <3> QED
      BY <1>4, <3>1, <3>2, <3>3, <3>4, <3>5 DEF Work
  <2>2. /\ UNCHANGED <<life, asked, inbound, hungUp, got>>
        /\ \A c \in Handlers \ {h} : queue'[c] = queue[c] /\ packetBuffer'[c] = packetBuffer[c]
    BY <1>4 DEF TypeOK, Work, ReceivePacket, Respond, AddMetaData, StopAndPass, StopAtEnd,
                StopPassed, Passed, Taken, server, client
  <2> QED
    BY <1>0, <2>1, <2>2, Untouched DEF FlowInv
<1>5. ASSUME NEW h \in Handlers, Work(h) PROVE FlowInv'
  BY <1>4, <1>5, SendFlow
<1> QED
  BY <1>1, <1>2, <1>3, <1>5 DEF Next, Serve

\* A stream's replies and what is on its way keep their types.
LEMMA NextTypes == TypeOK /\ OwnersInv /\ FlowInv /\ [Next]_vars => TypeOK'
<1> USE StreamServerAssumption
<1> SUFFICES ASSUME TypeOK, OwnersInv, FlowInv, [Next]_vars PROVE TypeOK'
  OBVIOUS
<1>1. CASE UNCHANGED vars
  BY <1>1 DEF vars, server, stream, client, TypeOK, HeldBack
<1>2. CASE CallDeleted
  BY <1>2 DEF CallDeleted, server, stream, client, TypeOK, HeldBack
<1>3. ASSUME NEW h \in Handlers, Ask(h) PROVE TypeOK'
  <2>1. PICK new \in Seq(Packet) : inbound' = [inbound EXCEPT ![h] = @ \o new]
    BY <1>3, Asked
  <2>2. /\ asked[h] < MaxRequests[h] /\ asked' = [asked EXCEPT ![h] = @ + 1]
        /\ UNCHANGED <<server, stream, hungUp, got, crashed>>
    BY <1>3 DEF Ask
  <2>3. inbound' \in [Handlers -> Seq(Packet)]
    BY <2>1 DEF TypeOK
  <2>4. asked' \in [Handlers -> Nat] /\ \A c \in Handlers : asked'[c] <= MaxRequests[c]
    BY <2>2 DEF TypeOK
  <2> QED
    BY <2>2, <2>3, <2>4 DEF server, stream, TypeOK, HeldBack
<1>4. ASSUME NEW h \in Handlers, HangUp(h) PROVE TypeOK'
  BY <1>4 DEF HangUp, server, stream, TypeOK, HeldBack
<1>5. ASSUME NEW h \in Handlers, NEW f \in Fds, AcceptConnection(h, f) PROVE TypeOK'
  <2>1. PICK l \in {"open", "deleted"}, w \in {"running", "done"} :
            life' = [life EXCEPT ![h] = l] /\ worker' = [worker EXCEPT ![h] = [t \in Tasks |-> w]]
    BY <1>5 DEF AcceptConnection
  <2>2. /\ fdOf' = [fdOf EXCEPT ![h] = f] /\ peer' = [peer EXCEPT ![f] = h]
        /\ repository' = [repository EXCEPT ![f] = IF @ = None THEN h ELSE @]
        /\ mConnections' = [mConnections EXCEPT ![f] = IF @ = None THEN h ELSE @]
        /\ UNCHANGED <<queue, packetBuffer, unread, client, got, crashed>>
    BY <1>5 DEF AcceptConnection, Emplaced
  <2>3. life' \in [Handlers -> Life] /\ worker' \in [Handlers -> [Tasks -> {"none", "running", "done"}]]
    BY <2>1 DEF TypeOK, Life
  <2>4. /\ fdOf' \in [Handlers -> Fds \cup {None}] /\ peer' \in [Fds -> Handlers \cup {None}]
        /\ repository' \in [Fds -> Handlers \cup {None}]
        /\ mConnections' \in [Fds -> Handlers \cup {None}]
    BY <2>2 DEF TypeOK
  <2> QED
    BY <2>2, <2>3, <2>4 DEF client, TypeOK, HeldBack
<1>6. ASSUME NEW h \in Handlers, ReadData(h) PROVE TypeOK'
  <2>1. PICK n \in 1 .. Len(inbound[h]) :
            /\ inbound' = [inbound EXCEPT ![h] = SubSeq(@, n + 1, Len(@))]
            /\ queue' = [queue EXCEPT
                   ![h]["Receiver"] = @ \o [i \in 1 .. n |-> Data(<<inbound[h][i]>>)]]
    BY <1>6 DEF ReadData
  <2>2. inbound[h] \in Seq(Packet) /\ queue[h]["Receiver"] \in Seq(Messages)
    BY TypesAt DEF Tasks
  <2>3. SubSeq(inbound[h], n + 1, Len(inbound[h])) \in Seq(Packet)
    BY <2>2
  <2>4. \A i \in 1 .. n : Data(<<inbound[h][i]>>) \in Messages
    <3>1. \A i \in 1 .. n : inbound[h][i] \in Packet
      BY <2>2
    <3> QED
      BY <3>1 DEF Data, Messages
  <2>5. [i \in 1 .. n |-> Data(<<inbound[h][i]>>)] \in Seq(Messages)
    BY <2>2, <2>4
  <2>6. queue[h]["Receiver"] \o [i \in 1 .. n |-> Data(<<inbound[h][i]>>)] \in Seq(Messages)
    BY <2>2, <2>5
  <2>7. inbound' \in [Handlers -> Seq(Packet)] /\ queue' \in [Handlers -> [Tasks -> Seq(Messages)]]
    BY <2>1, <2>3, <2>6 DEF TypeOK, Tasks
  <2> QED
    BY <1>6, <2>7 DEF ReadData, server, TypeOK, HeldBack
<1>7. \A m \in Messages, s \in Seq(Messages) : Append(s, m) \in Seq(Messages)
  OBVIOUS
<1>8. Stop \in Messages
  BY EmptySeq DEF Stop, Messages
<1>9. ASSUME NEW h \in Handlers, ReadEnd(h) PROVE TypeOK'
  <2>1. queue' \in [Handlers -> [Tasks -> Seq(Messages)]]
    BY <1>7, <1>8, <1>9 DEF ReadEnd, TypeOK, Tasks
  <2>2. /\ peer' \in [Fds -> Handlers \cup {None}] /\ repository' \in [Fds -> Handlers \cup {None}]
        /\ life' \in [Handlers -> Life]
    BY <1>9 DEF ReadEnd, TypeOK, Life
  <2> QED
    BY <1>9, <2>1, <2>2 DEF ReadEnd, client, TypeOK, HeldBack
<1>10. ASSUME NEW h \in Handlers, NEW t \in Tasks, queue[h][t] # <<>>
       PROVE  /\ Taken(h, t) \in [Handlers -> [Tasks -> Seq(Messages)]]
              /\ Head(queue[h][t]) \in Messages
              /\ \A u \in Tasks, m \in Messages :
                     Passed(h, t, u, m) \in [Handlers -> [Tasks -> Seq(Messages)]]
  <2>1. queue[h][t] \in Seq(Messages)
    BY TypesAt
  <2>2. Tail(queue[h][t]) \in Seq(Messages) /\ Head(queue[h][t]) \in Messages
    BY <1>10, <2>1
  <2>3. Taken(h, t) \in [Handlers -> [Tasks -> Seq(Messages)]]
    BY <2>2 DEF Taken, TypeOK
  <2>4. ASSUME NEW u \in Tasks, NEW m \in Messages
        PROVE  Passed(h, t, u, m) \in [Handlers -> [Tasks -> Seq(Messages)]]
    BY <1>7, <2>2 DEF Passed, TypeOK
  <2> QED
    BY <2>2, <2>3, <2>4
<1>11. ASSUME NEW h \in Handlers, ReceivePacket(h) PROVE TypeOK'
  <2>1. PICK held : held = packetBuffer[h] \o Head(queue[h]["Receiver"]).text
    OBVIOUS
  <2>2. /\ Gets(h, "Receiver", "vendor-data") /\ queue[h]["Receiver"] # <<>>
        /\ FlowAt(h) /\ Living(h)
        /\ UNCHANGED <<server, worker, unread, client, got, crashed>>
    BY <1>11 DEF ReceivePacket, Gets, FlowInv, OwnersInv, ThreadsLive, Tasks
  <2>3. PICK packets \in Seq(Packet), a \in Nat, b \in Nat : Received(h, held, packets, a, b)
    BY <2>1, <2>2, PacketReceived
  <2>4. /\ held \in Seq(Packet) /\ Len(held) = a + 1 /\ a < b /\ b <= Len(packets)
        /\ Len(packets) \in Nat /\ OfRequest(packets, asked[h])
        /\ \A i \in 1 .. a + 1 : held[i] = packets[i]
        /\ Complete(held) <=> Len(packets) = a + 1
    BY <2>3 DEF Received, Upward
  <2>5. CASE Complete(held)
    <3>1. /\ packetBuffer' = [packetBuffer EXCEPT ![h] = <<>>]
          /\ queue' = Passed(h, "Receiver", "ResponseMessage", Data(Sorted(held)))
      BY <1>11, <2>1, <2>5 DEF ReceivePacket, Emptied
    <3>2. held = packets /\ packets # <<>>
      <4>1. Len(held) = Len(packets) /\ \A i \in 1 .. Len(held) : held[i] = packets[i]
        BY <2>4, <2>5
      <4> QED
        BY <2>4, <4>1, SeqEqual
    <3>3. Sorted(held) \in Seq(Packet)
      BY <2>4, <3>2, SortedRequest
    <3>4. Data(Sorted(held)) \in Messages
      BY <3>3 DEF Data, Messages
    <3>5. queue' \in [Handlers -> [Tasks -> Seq(Messages)]]
      BY <1>10, <2>2, <3>1, <3>4 DEF Tasks
    <3>6. packetBuffer' \in [Handlers -> Seq(Packet)] /\ \A c \in Handlers : HeldBack(packetBuffer'[c])
      BY <3>1 DEF TypeOK, HeldBack
    <3> QED
      BY <2>2, <3>5, <3>6 DEF server, client, TypeOK
  <2>6. CASE ~Complete(held)
    <3>1. packetBuffer' = [packetBuffer EXCEPT ![h] = held] /\ queue' = Taken(h, "Receiver")
      BY <1>11, <2>1, <2>6 DEF ReceivePacket
    <3>2. HeldBack(held)
      <4> SUFFICES ASSUME NEW i \in DOMAIN held PROVE Len(held) < held[i].size
        BY DEF HeldBack
      <4>1. i \in 1 .. a + 1 /\ i \in 1 .. Len(packets) /\ a + 1 < Len(packets)
        BY <2>4, <2>6
      <4>2. held[i].size = Len(packets)
        <5>1. i \in DOMAIN packets /\ held[i] = packets[i]
          BY <2>4, <4>1
        <5> QED
          BY <2>4, <5>1 DEF OfRequest
      <4> QED
        BY <2>4, <4>1, <4>2
    <3>3. queue' \in [Handlers -> [Tasks -> Seq(Messages)]]
      BY <1>10, <2>2, <3>1 DEF Tasks
    <3>4. packetBuffer' \in [Handlers -> Seq(Packet)] /\ \A c \in Handlers : HeldBack(packetBuffer'[c])
      BY <2>4, <3>1, <3>2 DEF TypeOK
    <3> QED
      BY <2>2, <3>3, <3>4 DEF server, client, TypeOK
  <2> QED
    BY <2>5, <2>6
<1>12. ASSUME NEW h \in Handlers, Respond(h) \/ AddMetaData(h) PROVE TypeOK'
  <2>1. PICK t \in Tasks, u \in Tasks :
            queue[h][t] # <<>> /\ queue' = Passed(h, t, u, Head(queue[h][t]))
    BY <1>12 DEF Respond, AddMetaData, Gets, Tasks
  <2>2. queue' \in [Handlers -> [Tasks -> Seq(Messages)]]
    BY <1>10, <2>1
  <2>3. unread' \in [Handlers -> Nat]
    <3>1. unread' = unread \/ unread' = [unread EXCEPT ![h] = @ + 1]
      BY <1>12 DEF Respond, AddMetaData
    <3>2. unread \in [Handlers -> Nat]
      BY DEF TypeOK
    <3> QED
      BY <3>1, <3>2
  <2> QED
    BY <1>12, <2>2, <2>3 DEF Respond, AddMetaData, server, client, TypeOK, HeldBack
<1>13. ASSUME NEW h \in Handlers, Send(h) PROVE TypeOK'
  <2>1. PICK g : g = peer[fdOf[h]]
    OBVIOUS
  <2>2. PICK r : r = [from |-> h, text |-> Head(queue[h]["Sender"]).text]
    OBVIOUS
  <2>3. /\ queue[h]["Sender"] # <<>> /\ queue' = Taken(h, "Sender")
        /\ got' = IF g # None /\ ~hungUp[g] THEN [got EXCEPT ![g] = Append(@, r)] ELSE got
        /\ UNCHANGED <<server, worker, packetBuffer, unread, client, crashed>>
    BY <1>13, <2>1, <2>2 DEF Send, Gets
  <2>4. queue' \in [Handlers -> [Tasks -> Seq(Messages)]] /\ Head(queue[h]["Sender"]) \in Messages
    BY <1>10, <2>3 DEF Tasks
  <2>5. r \in [from : Handlers, text : Seq(Packet)]
    BY <2>2, <2>4 DEF Messages
  <2>6. Living(h) /\ fdOf[h] \in Fds
    BY <1>13 DEF OwnersInv, ThreadsLive, Kept, Tasks, Send, Gets
  <2>7. g # None => g \in Handlers
    BY <2>1, <2>6 DEF TypeOK
  <2>8. got' \in [Handlers -> Seq([from : Handlers, text : Seq(Packet)])]
    <3>1. CASE g # None /\ got' = [got EXCEPT ![g] = Append(@, r)]
      <4>1. g \in Handlers /\ got[g] \in Seq([from : Handlers, text : Seq(Packet)])
        BY <2>7, <3>1, TypesAt
      <4>2. Append(got[g], r) \in Seq([from : Handlers, text : Seq(Packet)])
        BY <2>5, <4>1
      <4> QED
        BY <3>1, <4>1, <4>2 DEF TypeOK
    <3>2. CASE got' = got
      BY <3>2 DEF TypeOK
    <3> QED
      BY <2>3, <3>1, <3>2
  <2> QED
    BY <2>3, <2>4, <2>8 DEF server, client, TypeOK, HeldBack
<1>14. ASSUME NEW h \in Handlers, NEW t \in Tasks, NEW u \in Tasks, StopAndPass(h, t, u)
       PROVE  TypeOK'
  <2>1. queue[h][t] # <<>> /\ queue' = Passed(h, t, u, Stop)
    BY <1>14 DEF StopAndPass, StopPassed, Gets
  <2>2. queue' \in [Handlers -> [Tasks -> Seq(Messages)]]
    BY <1>8, <1>10, <2>1
  <2>3. worker' \in [Handlers -> [Tasks -> {"none", "running", "done"}]]
    BY <1>14 DEF StopAndPass, TypeOK
  <2> QED
    BY <1>14, <2>2, <2>3 DEF StopAndPass, server, client, TypeOK, HeldBack
<1>15. ASSUME NEW h \in Handlers, NEW t \in Tasks, StopAtEnd(h, t) PROVE TypeOK'
  <2>1. queue[h][t] # <<>> /\ queue' = Taken(h, t)
    BY <1>15 DEF StopAtEnd, Gets
  <2>2. queue' \in [Handlers -> [Tasks -> Seq(Messages)]]
    BY <1>10, <2>1
  <2>3. worker' \in [Handlers -> [Tasks -> {"none", "running", "done"}]] /\ unread' \in [Handlers -> Nat]
    BY <1>15 DEF StopAtEnd, TypeOK
  <2> QED
    BY <1>15, <2>2, <2>3 DEF StopAtEnd, server, client, TypeOK, HeldBack
<1>16. ASSUME NEW h \in Handlers, Work(h) PROVE TypeOK'
  BY <1>11, <1>12, <1>13, <1>14, <1>15, <1>16 DEF Work, Tasks
<1>17. ASSUME NEW h \in Handlers, Serve(h) PROVE TypeOK'
  BY <1>6, <1>9, <1>17 DEF Serve
<1> QED
  BY <1>1, <1>2, <1>3, <1>4, <1>5, <1>16, <1>17 DEF Next

LEMMA InitTypes == Init => TypeOK
<1> USE StreamServerAssumption
<1> SUFFICES ASSUME Init PROVE TypeOK
  OBVIOUS
<1>1. /\ queue \in [Handlers -> [Tasks -> Seq(Messages)]]
      /\ packetBuffer \in [Handlers -> Seq(Packet)] /\ inbound \in [Handlers -> Seq(Packet)]
      /\ got \in [Handlers -> Seq([from : Handlers, text : Seq(Packet)])]
  BY EmptySeq DEF Init
<1>2. \A h \in Handlers : HeldBack(packetBuffer[h])
  BY DEF Init, HeldBack
<1>3. /\ life \in [Handlers -> Life] /\ worker \in [Handlers -> [Tasks -> {"none", "running", "done"}]]
      /\ fdOf \in [Handlers -> Fds \cup {None}] /\ peer \in [Fds -> Handlers \cup {None}]
      /\ repository \in [Fds -> Handlers \cup {None}]
      /\ mConnections \in [Fds -> Handlers \cup {None}]
  BY DEF Init, Life
<1>4. /\ unread \in [Handlers -> Nat] /\ hungUp \in [Handlers -> BOOLEAN] /\ crashed \in BOOLEAN
  BY DEF Init
<1>5. asked \in [Handlers -> Nat] /\ \A h \in Handlers : asked[h] <= MaxRequests[h]
  <2>1. asked = [h \in Handlers |-> 0] /\ \A h \in Handlers : MaxRequests[h] \in Nat
    BY DEF Init
  <2> QED
    BY <2>1
<1> QED
  BY <1>1, <1>2, <1>3, <1>4, <1>5 DEF TypeOK

ServerInv == TypeOK /\ OwnersInv /\ FlowInv

LEMMA ServerInvHolds == Spec => []ServerInv
<1>1. Init => ServerInv
  BY InitTypes, InitOwners, InitFlow DEF ServerInv
<1>2. ServerInv /\ [Next]_vars => ServerInv'
  BY NextTypes, NextOwners, NextFlow DEF ServerInv
<1> QED
  BY <1>1, <1>2, PTL DEF Spec

\* The state keeps its type, and no Receiver holds all packets of a request back
\* (Receiver.cpp:63-83): it is handed one request at a time.
THEOREM TypeCorrect == Spec => []TypeOK
<1>1. ServerInv => TypeOK
  BY DEF ServerInv
<1> QED
  BY <1>1, ServerInvHolds, PTL

\* The k-th reply of its own stream that a client gets is its k-th request, put
\* together in order from packets that came in any order (Receiver.cpp:66-82).
THEOREM EchoedHolds == Spec => []Echoed
<1>1. ServerInv => Echoed
  <2> SUFFICES ASSUME ServerInv, NEW h \in Handlers, NEW own, own = {k \in DOMAIN got[h] : got[h][k].from = h},
                      NEW k \in own
               PROVE  IsRequest(got[h][k].text, Cardinality({i \in own : i <= k}))
    BY DEF Echoed
  <2>1. life[h] \in Life /\ FlowAt(h) /\ UnusedGotNothing /\ LivingGetOwn
    BY DEF ServerInv, TypeOK, FlowInv, OwnersInv
  <2>2. k \in DOMAIN got[h] /\ got[h][k].from = h
    OBVIOUS
  <2>3. Living(h)
    BY <2>1, <2>2 DEF Life, Living, FlowAt, UnusedGotNothing
  <2>4. own = DOMAIN got[h]
    BY <2>1, <2>3 DEF LivingGetOwn
  <2>5. {i \in own : i <= k} = 1 .. k /\ k \in Nat
    <3>1. DOMAIN got[h] = 1 .. Len(got[h]) /\ Len(got[h]) \in Nat
      BY TypesAt DEF ServerInv
    <3> QED
      BY <2>2, <2>4, <3>1
  <2>6. Cardinality({i \in own : i <= k}) = k
    <3>1. Cardinality(1 .. k) = k
      BY <2>5, FS_Interval
    <3> QED
      BY <2>5, <3>1
  <2>7. IsRequest(got[h][k].text, k)
    BY <2>1, <2>2, <2>3 DEF FlowAt
  <2> QED
    BY <2>6, <2>7
<1> QED
  BY <1>1, ServerInvHolds, PTL
===============================================================================
