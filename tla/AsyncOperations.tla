--------------------------- MODULE AsyncOperations ---------------------------
(***************************************************************************)
(* What a Proactor promises for an asynchronous operation, with neither    *)
(* tables, slots, counters nor threads: an operation that was started is   *)
(* finished by the operating system at some time of its own, and then its  *)
(* completion handler is called, once.                                     *)
(***************************************************************************)
CONSTANT Operations

VARIABLE op     \* the progress of each operation

vars == op

Init == op = [r \in Operations |-> "idle"]

Start(r) ==
    /\ op[r] = "idle"
    /\ op' = [op EXCEPT ![r] = "pending"]

\* The initiator is told at once that the operation cannot be started.
Reject(r) ==
    /\ op[r] = "idle"
    /\ op' = [op EXCEPT ![r] = "rejected"]

Complete(r) ==
    /\ op[r] = "pending"
    /\ op' = [op EXCEPT ![r] = "completed"]

Dispatch(r) ==
    /\ op[r] = "completed"
    /\ op' = [op EXCEPT ![r] = "dispatched"]

Next == \E r \in Operations : Start(r) \/ Reject(r) \/ Complete(r) \/ Dispatch(r)

Spec == Init /\ [][Next]_vars

FairSpec == Spec /\ \A r \in Operations : WF_vars(Dispatch(r))
=============================================================================
