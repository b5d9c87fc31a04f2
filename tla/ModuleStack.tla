----------------------------- MODULE ModuleStack -----------------------------
(***************************************************************************)
(* What a Stream promises the one that builds it, with neither tasks,      *)
(* links nor threads: a stack of modules, taken apart from the top when    *)
(* the stream is closed.  A stream that is changed while messages are on   *)
(* their way is exposed: only such a one may break.                        *)
(***************************************************************************)
EXTENDS Sequences

CONSTANT Modules

VARIABLES
    stack,      \* the modules between head and tail, the top one first
    phase,      \* "open", "closing", "closed" or "broken"
    exposed     \* was the stream changed with messages on their way?

vars == <<stack, phase, exposed>>

Init == stack = <<>> /\ phase = "open" /\ exposed = FALSE

Push(m) ==
    /\ phase = "open"
    /\ stack' = <<m>> \o stack
    /\ UNCHANGED <<phase, exposed>>

Pop ==
    /\ phase \in {"open", "closing"} /\ stack # <<>>
    /\ stack' = Tail(stack)
    /\ UNCHANGED <<phase, exposed>>

BeginClose ==
    /\ phase = "open"
    /\ phase' = "closing"
    /\ exposed' \in {exposed, TRUE}
    /\ UNCHANGED stack

Close ==
    /\ phase = "closing" /\ stack = <<>>
    /\ phase' = "closed"
    /\ UNCHANGED <<stack, exposed>>

Expose ==
    /\ phase = "open"
    /\ exposed' = TRUE
    /\ UNCHANGED <<stack, phase>>

Break ==
    /\ exposed
    /\ phase' = "broken"
    /\ UNCHANGED <<stack, exposed>>

Dismantle == phase = "closing" /\ (Pop \/ Close)

Next == (\E m \in Modules : Push(m)) \/ Pop \/ BeginClose \/ Close \/ Expose \/ Break

Spec == Init /\ [][Next]_vars

\* close() returns, unless the stream breaks.
FairSpec == Spec /\ WF_vars(Dismantle)
===============================================================================
