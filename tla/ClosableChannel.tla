--------------------------- MODULE ClosableChannel ---------------------------
(***************************************************************************)
(* What the message queue of a Task promises, with neither the lock nor    *)
(* the condition variable: a FIFO channel between any number of senders    *)
(* and receivers that can be closed once.  A closed channel refuses new    *)
(* messages, still hands out the ones it holds, and tells a receiver that  *)
(* it is over only when nothing is left.                                   *)
(***************************************************************************)
EXTENDS Naturals, Sequences

CONSTANTS
    Messages,   \* the messages that can be sent
    Receivers   \* the parties that receive

VARIABLES
    chan,       \* messages in transit, oldest first
    closed,     \* no message is accepted any more
    received,   \* history: messages handed out, in order
    ended       \* receivers that were told the channel is over

vars == <<chan, closed, received, ended>>

Init ==
    /\ chan = <<>>
    /\ closed = FALSE
    /\ received = <<>>
    /\ ended = {}

Send(m) ==
    /\ ~closed
    /\ chan' = Append(chan, m)
    /\ UNCHANGED <<closed, received, ended>>

Receive ==
    /\ chan # <<>>
    /\ chan' = Tail(chan)
    /\ received' = Append(received, Head(chan))
    /\ UNCHANGED <<closed, ended>>

Close ==
    /\ closed' = TRUE
    /\ UNCHANGED <<chan, received, ended>>

End(r) ==
    /\ closed
    /\ chan = <<>>
    /\ ended' = ended \cup {r}
    /\ UNCHANGED <<chan, closed, received>>

Next ==
    \/ \E m \in Messages : Send(m)
    \/ Receive
    \/ Close
    \/ \E r \in Receivers : End(r)

Spec == Init /\ [][Next]_vars

\* The channel never sits on a message, and every receiver of a closed
\* channel gets to know that it is over.
FairSpec ==
    /\ Spec
    /\ WF_vars(Receive)
    /\ \A r \in Receivers : WF_vars(End(r) /\ r \notin ended)
=============================================================================
