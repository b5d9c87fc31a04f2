------------------------------ MODULE Connections ------------------------------
(***************************************************************************)
(* What Acceptor and Connector promise the two programs that use them,     *)
(* with neither descriptors, reactors nor sockets: a handler that asks for *)
(* a connection is told that it has one, that it will have one or none     *)
(* later, or that it has none; and what is sent on a connection is         *)
(* answered, until the connection is ended from outside.                   *)
(***************************************************************************)
EXTENDS Naturals

CONSTANT Handlers

VARIABLES
    status,     \* how far each handler is
    owed        \* messages sent for each handler that are still to be answered

vars == <<status, owed>>

Init ==
    /\ status = [h \in Handlers |-> "idle"]
    /\ owed = [h \in Handlers |-> 0]

Ask(h) ==
    /\ status[h] \in {"idle", "timedout"}
    /\ status' = [status EXCEPT ![h] = "calling"]
    /\ UNCHANGED owed

Answer(h) ==
    /\ status[h] = "calling"
    /\ \E s \in {"active", "pending", "timedout", "failed"} : status' = [status EXCEPT ![h] = s]
    /\ UNCHANGED owed

\* A connection that was pending is there, or will never be.
Settle(h) ==
    /\ status[h] = "pending"
    /\ \E s \in {"active", "failed"} : status' = [status EXCEPT ![h] = s]
    /\ UNCHANGED owed

Send(h) ==
    /\ status[h] \in {"active", "pending", "timedout"}
    /\ owed' = [owed EXCEPT ![h] = @ + 1]
    /\ UNCHANGED status

\* One answer may be for several messages.
Reply(h) ==
    /\ status[h] = "active" /\ owed[h] > 0
    /\ \E n \in 0 .. owed[h] - 1 : owed' = [owed EXCEPT ![h] = n]
    /\ UNCHANGED status

\* Connections end with the program at the other end, or their own; one nobody was
\* told of yet may be found to be gone later.
End(H) ==
    /\ owed' = [h \in Handlers |-> IF h \in H THEN 0 ELSE owed[h]]
    /\ \E G \in SUBSET H :
           /\ \A h \in H \ G : status[h] # "active"
           /\ status' = [h \in Handlers |-> IF h \in G THEN "ended" ELSE status[h]]

Next ==
    \/ \E h \in Handlers : Ask(h) \/ Answer(h) \/ Settle(h) \/ Send(h) \/ Reply(h)
    \/ \E H \in SUBSET Handlers : End(H)

Spec == Init /\ [][Next]_vars

\* Every call returns, every pending connection is settled, every message answered.
FairSpec ==
    /\ Spec
    /\ \A h \in Handlers : WF_vars(Answer(h)) /\ WF_vars(Settle(h)) /\ WF_vars(Reply(h))
===============================================================================
