------------------------- MODULE ActivationQueueProofs -------------------------
(***************************************************************************)
(* For any set of clients and any bound on the calls of enqueue(): the     *)
(* safety properties of ActivationQueue, for every interleaving of         *)
(* enqueue(), dequeue(), spurious wakeups and exit().                      *)
(***************************************************************************)
EXTENDS ActivationQueue, SequenceTheorems, TLAPS

\* Every reachable state is well typed.
THEOREM TypeCorrect == Spec => []TypeOK
<1>1. Init => TypeOK
  <2>1. <<>> \in Seq(Requests) /\ 0 \in 0 .. MaxEnqueue
    BY ActivationQueueAssumption
  <2> QED
    BY <2>1 DEF Init, TypeOK, SchedulerState, ExitState
<1>2. TypeOK /\ [Next]_vars => TypeOK'
  <2> SUFFICES ASSUME TypeOK, [Next]_vars
               PROVE  TypeOK'
    OBVIOUS
  <2> USE DEF TypeOK, SchedulerState, ExitState
  <2>1. ASSUME NEW c \in Clients, Enqueue(c)
        PROVE  TypeOK'
    <3>1. enqueues[c] \in 0 .. MaxEnqueue /\ enqueues[c] + 1 \in 1 .. MaxEnqueue
      BY <2>1, ActivationQueueAssumption DEF Enqueue
    <3>2. Request(c) \in Requests
      BY <3>1 DEF Request, Requests
    <3>3. /\ methodRequestQueue' \in Seq(Requests)
          /\ enqueued' \in Seq(Requests)
      BY <2>1, <3>2, AppendProperties DEF Enqueue, Pushed
    <3>4. enqueues' \in [Clients -> 0 .. MaxEnqueue]
      BY <2>1, <3>1, ActivationQueueAssumption DEF Enqueue
    <3>5. scheduler' \in SchedulerState /\ missed' \in Nat
      BY <2>1 DEF Enqueue, NotifyScheduler
    <3> QED
      BY <2>1, <3>3, <3>4, <3>5 DEF Enqueue
  <2>2. CASE TakeFront
    <3>1. CASE methodRequestQueue = <<>>
      BY <2>2, <3>1 DEF TakeFront
    <3>2. CASE methodRequestQueue # <<>>
      <4>1. /\ Head(methodRequestQueue) \in Requests
            /\ Tail(methodRequestQueue) \in Seq(Requests)
        BY <3>2, HeadTailProperties
      <4>2. called' \in Seq(Requests)
        <5>1. Append(called, Head(methodRequestQueue)) \in Seq(Requests)
          BY <4>1, AppendProperties
        <5> QED
          BY <2>2, <3>2, <5>1 DEF TakeFront
      <4>3. late' \in Nat
        BY <2>2, <3>2 DEF TakeFront
      <4> QED
        BY <2>2, <3>2, <4>1, <4>2, <4>3 DEF TakeFront
    <3> QED
      BY <3>1, <3>2
  <2>3. CASE Wait \/ SpuriousWakeup \/ TestState \/ CallReturns
    <3>1. scheduler' \in SchedulerState
      BY <2>3 DEF Wait, SpuriousWakeup, TestState, Tested, CallReturns
    <3> QED
      BY <2>3, <3>1 DEF Wait, SpuriousWakeup, TestState, CallReturns
  <2>4. CASE ExitSetState \/ ExitNotify
    BY <2>4 DEF ExitSetState, ExitNotify, NotifyScheduler
  <2>5. CASE UNCHANGED vars
    BY <2>5 DEF vars
  <2> QED
    BY <2>1, <2>2, <2>3, <2>4, <2>5 DEF Next
<1> QED
  BY <1>1, <1>2, PTL DEF Spec

-------------------------------------------------------------------------------
\* push_back() extends what was taken and what is queued, together, by the new element.
LEMMA PushBack ==
    ASSUME NEW S, NEW past \in Seq(S), NEW queue \in Seq(S), NEW m \in S
    PROVE  past \o Append(queue, m) = Append(past \o queue, m)
BY SMT

\* Moving the front from the queue to what was taken leaves the whole alone.
LEMMA PopFront ==
    ASSUME NEW S, NEW past \in Seq(S), NEW queue \in Seq(S), queue # <<>>
    PROVE  Append(past, Head(queue)) \o Tail(queue) = past \o queue
BY SMT

\* Requests are called in the order enqueue() took them, each at most once, and
\* none disappears: what was enqueued is what was called and what still waits.
THEOREM FifoHolds == Spec => []Fifo
<1>1. Init => Fifo
  BY DEF Init, Fifo
<1>2. TypeOK /\ Fifo /\ [Next]_vars => Fifo'
  <2> SUFFICES ASSUME TypeOK, Fifo, [Next]_vars
               PROVE  Fifo'
    OBVIOUS
  <2>1. ASSUME NEW c \in Clients, Enqueue(c)
        PROVE  Fifo'
    <3>1. enqueues[c] + 1 \in 1 .. MaxEnqueue
      BY <2>1, ActivationQueueAssumption DEF Enqueue, TypeOK
    <3>2. Request(c) \in Requests
      BY <3>1 DEF Request, Requests
    <3>3. called \o methodRequestQueue' = Append(called \o methodRequestQueue, Request(c))
      BY <2>1, <3>2, PushBack DEF Enqueue, Pushed, TypeOK
    <3> QED
      BY <2>1, <3>3 DEF Enqueue, Fifo
  <2>2. CASE TakeFront
    <3>1. CASE methodRequestQueue = <<>>
      BY <2>2, <3>1 DEF TakeFront, Fifo
    <3>2. CASE methodRequestQueue # <<>>
      <4>1. called' \o methodRequestQueue' = called \o methodRequestQueue
        BY <2>2, <3>2, PopFront DEF TakeFront, TypeOK
      <4> QED
        BY <2>2, <4>1 DEF TakeFront, Fifo
    <3> QED
      BY <3>1, <3>2
  <2>3. CASE UNCHANGED <<methodRequestQueue, called, enqueued>>
    BY <2>3 DEF Fifo
  <2> QED
    BY <2>1, <2>2, <2>3
    DEF Next, Wait, SpuriousWakeup, TestState, CallReturns, ExitSetState, ExitNotify, vars
<1> QED
  BY <1>1, <1>2, TypeCorrect, PTL DEF Spec

-------------------------------------------------------------------------------
\* The queue is never longer than the number of enqueue() notifications that
\* found nobody asleep, and one: a request falls behind for no other reason.
THEOREM BacklogHolds == Spec => []BacklogIsMissedNotifications
<1>1. Init => BacklogIsMissedNotifications
  BY DEF Init, BacklogIsMissedNotifications
<1>2. TypeOK /\ BacklogIsMissedNotifications /\ [Next]_vars
        => BacklogIsMissedNotifications'
  <2> SUFFICES ASSUME TypeOK, BacklogIsMissedNotifications, [Next]_vars
               PROVE  BacklogIsMissedNotifications'
    OBVIOUS
  <2> USE DEF BacklogIsMissedNotifications
  <2>1. Len(methodRequestQueue) \in Nat /\ missed \in Nat
    BY LenProperties DEF TypeOK
  <2>2. ASSUME NEW c \in Clients, Enqueue(c)
        PROVE  BacklogIsMissedNotifications'
    <3>1. Request(c) \in Requests
      BY <2>2, ActivationQueueAssumption DEF Enqueue, Request, Requests, TypeOK
    <3>2. Len(methodRequestQueue') = Len(methodRequestQueue) + 1
      BY <2>2, <3>1, AppendProperties DEF Enqueue, Pushed, TypeOK
    <3> QED
      BY <2>1, <2>2, <3>2 DEF Enqueue, NotifyScheduler
  <2>3. CASE TakeFront
    <3>1. CASE methodRequestQueue = <<>>
      BY <2>1, <2>3, <3>1 DEF TakeFront
    <3>2. CASE methodRequestQueue # <<>>
      <4>1. Len(methodRequestQueue') = Len(methodRequestQueue) - 1
        BY <2>3, <3>2, HeadTailProperties DEF TakeFront, TypeOK
      <4> QED
        BY <2>1, <2>3, <3>2, <4>1 DEF TakeFront
    <3> QED
      BY <3>1, <3>2
  <2>4. CASE Wait \/ SpuriousWakeup \/ TestState \/ CallReturns
    BY <2>1, <2>4 DEF Wait, SpuriousWakeup, TestState, Tested, CallReturns
  <2>5. CASE ExitSetState \/ ExitNotify
    BY <2>1, <2>5 DEF ExitSetState, ExitNotify, NotifyScheduler
  <2>6. CASE UNCHANGED vars
    BY <2>6 DEF vars
  <2> QED
    BY <2>2, <2>3, <2>4, <2>5, <2>6 DEF Next
<1> QED
  BY <1>1, <1>2, TypeCorrect, PTL DEF Spec

-------------------------------------------------------------------------------
\* A request taken after the shutdown was taken past a test made before it, and
\* no later test succeeds.
LateInv ==
    /\ late \in {0, 1}
    /\ state = "ACTIVE" => late = 0
    /\ late = 1 => scheduler # "tested"

\* The unsynchronised exit() lets at most one request through after mState is
\* SHUTDOWN, whatever the timing.
THEOREM AtMostOneAfterShutdownHolds == Spec => []AtMostOneAfterShutdown
<1>1. Init => LateInv
  BY DEF Init, LateInv
<1>2. TypeOK /\ LateInv /\ [Next]_vars => LateInv'
  <2> SUFFICES ASSUME TypeOK, LateInv, [Next]_vars
               PROVE  LateInv'
    OBVIOUS
  <2> USE DEF LateInv, TypeOK
  <2>1. ASSUME NEW c \in Clients, Enqueue(c)
        PROVE  LateInv'
    BY <2>1 DEF Enqueue, NotifyScheduler
  <2>2. CASE TakeFront
    BY <2>2 DEF TakeFront
  <2>3. CASE Wait \/ SpuriousWakeup \/ TestState \/ CallReturns
    BY <2>3 DEF Wait, SpuriousWakeup, TestState, Tested, CallReturns
  <2>4. CASE ExitSetState \/ ExitNotify
    BY <2>4 DEF ExitSetState, ExitNotify, NotifyScheduler
  <2>5. CASE UNCHANGED vars
    BY <2>5 DEF vars
  <2> QED
    BY <2>1, <2>2, <2>3, <2>4, <2>5 DEF Next
<1>3. LateInv => AtMostOneAfterShutdown
  BY DEF LateInv, AtMostOneAfterShutdown
<1> QED
  BY <1>1, <1>2, <1>3, TypeCorrect, PTL DEF Spec
===============================================================================
