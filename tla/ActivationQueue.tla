---------------------------- MODULE ActivationQueue ----------------------------
(***************************************************************************)
(* The queue of an Active Object and the thread that empties it            *)
(* (framework/active_object/1_0/ActivationQueue.cpp and                    *)
(* applications/example_active_object/ActObjScheduler.cpp).                *)
(*                                                                         *)
(* dequeue() waits on the condition variable without a predicate, so what  *)
(* wakes the scheduler, and when, decides what it does.  exit() writes     *)
(* mState without the mutex: it can fall between dequeue()'s test of       *)
(* mState and its removal of the front, which are therefore two steps.     *)
(* The queue itself is only touched under the mutex.                       *)
(***************************************************************************)
EXTENDS Naturals, Sequences

CONSTANTS
    Clients,        \* threads that call enqueue()
    MaxEnqueue      \* bound: calls of enqueue() by each client

ASSUME ActivationQueueAssumption == MaxEnqueue \in Nat

VARIABLES
    methodRequestQueue, \* mMethodRequestQueue
    state,              \* mState: "ACTIVE" or "SHUTDOWN"
    scheduler,          \* where ActObjScheduler::svc is, see SchedulerState
    exiting,            \* where the one call of exit() is, see ExitState
    enqueues,           \* calls of enqueue() each client has made
    enqueued,           \* history: requests handed to enqueue(), in order
    called,             \* history: requests svc() took and called, in order
    missed,             \* history: enqueue() notifications nobody was waiting for
    late                \* history: requests taken although mState was SHUTDOWN

vars == <<methodRequestQueue, state, scheduler, exiting, enqueues,
          enqueued, called, missed, late>>

Requests == Clients \X (1 .. MaxEnqueue)

\* "loop": about to enter dequeue(); "waiting": asleep on mQueueCondition;
\* "woken": has to take the mutex again; "tested": holds the mutex and has read
\* mState as ACTIVE; "calling": in request->call(); "exited": svc() returned.
SchedulerState == {"loop", "waiting", "woken", "tested", "calling", "exited"}

\* "notify": mState is set, mQueueCondition.notify_one() still to come.
ExitState == {"before", "notify", "after"}

\* Every step but exit()'s takes mQueueMutex, which a scheduler past the test
\* of mState holds.
MutexFree == scheduler # "tested"

TypeOK ==
    /\ methodRequestQueue \in Seq(Requests)
    /\ state \in {"ACTIVE", "SHUTDOWN"}
    /\ scheduler \in SchedulerState
    /\ exiting \in ExitState
    /\ enqueues \in [Clients -> 0 .. MaxEnqueue]
    /\ enqueued \in Seq(Requests)
    /\ called \in Seq(Requests)
    /\ missed \in Nat
    /\ late \in Nat

Init ==
    /\ methodRequestQueue = <<>>
    /\ state = "ACTIVE"
    /\ scheduler = "loop"
    /\ exiting = "before"
    /\ enqueues = [c \in Clients |-> 0]
    /\ enqueued = <<>>
    /\ called = <<>>
    /\ missed = 0
    /\ late = 0
-------------------------------------------------------------------------------
(* Operations.  Bug... are seeded errors, as in MessageQueue.              *)

\* The request the next enqueue() of c hands over: some object, here named for
\* the call.
Request(c) == <<c, enqueues[c] + 1>>

\* insert() at begin() for push_back().
BugPushed(r) == <<r>> \o methodRequestQueue

\* The queue after push_back().
Pushed(r) == Append(methodRequestQueue, r)

\* Forget to notify.
BugNotifyScheduler == UNCHANGED scheduler

\* mQueueCondition.notify_one(): it wakes the scheduler if it sleeps.
NotifyScheduler ==
    scheduler' = IF scheduler = "waiting" THEN "woken" ELSE scheduler

\* enqueue(): push_back and notify_one under the mutex; mState is not looked at.
Enqueue(c) ==
    /\ MutexFree
    /\ enqueues[c] < MaxEnqueue
    /\ methodRequestQueue' = Pushed(Request(c))
    /\ NotifyScheduler
    /\ enqueues' = [enqueues EXCEPT ![c] = @ + 1]
    /\ enqueued' = Append(enqueued, Request(c))
    /\ missed' = IF scheduler = "waiting" THEN missed ELSE missed + 1
    /\ UNCHANGED <<state, exiting, called, late>>

\* dequeue() takes the mutex and waits at once, whatever the queue holds and
\* whatever mState says.
Wait ==
    /\ scheduler = "loop"
    /\ scheduler' = "waiting"
    /\ UNCHANGED <<methodRequestQueue, state, exiting, enqueues, enqueued,
                   called, missed, late>>

\* The wait may end without a notification.
SpuriousWakeup ==
    /\ scheduler = "waiting"
    /\ scheduler' = "woken"
    /\ UNCHANGED <<methodRequestQueue, state, exiting, enqueues, enqueued,
                   called, missed, late>>

\* mState is not tested.
BugTested == "tested"

\* The test of mState is the wrong way round.
BugTestedNegated == IF state = "ACTIVE" THEN "exited" ELSE "tested"

\* Where the test of mState leads.
Tested == IF state = "SHUTDOWN" THEN "exited" ELSE "tested"

\* The wait returns with the mutex, and dequeue() reads mState: on SHUTDOWN it
\* returns nullptr, and svc() leaves its loop.
TestState ==
    /\ scheduler = "woken"
    /\ scheduler' = Tested
    /\ UNCHANGED <<methodRequestQueue, state, exiting, enqueues, enqueued,
                   called, missed, late>>

\* dequeue() does not look whether the queue is empty, as its wait does not: after a
\* wakeup with nothing in it, what stands for the front is called.
BugTakeFront ==
    /\ scheduler = "tested"
    /\ scheduler' = "calling"
    /\ methodRequestQueue' = SubSeq(methodRequestQueue, 2, Len(methodRequestQueue))
    /\ called' = Append(called, IF methodRequestQueue = <<>>
                                THEN <<>> ELSE Head(methodRequestQueue))
    /\ late' = IF state = "SHUTDOWN" THEN late + 1 ELSE late
    /\ UNCHANGED <<state, exiting, enqueues, enqueued, missed>>

\* The rest of dequeue(), and svc() up to call(): the front is removed and
\* called; nothing to remove is nullptr again, which ends svc().
TakeFront ==
    /\ scheduler = "tested"
    /\ IF methodRequestQueue = <<>>
       THEN /\ scheduler' = "exited"
            /\ UNCHANGED <<methodRequestQueue, called, late>>
       ELSE /\ scheduler' = "calling"
            /\ methodRequestQueue' = Tail(methodRequestQueue)
            /\ called' = Append(called, Head(methodRequestQueue))
            /\ late' = IF state = "SHUTDOWN" THEN late + 1 ELSE late
    /\ UNCHANGED <<state, exiting, enqueues, enqueued, missed>>

\* request->call() returns 0 and the request is deleted; call() never says -1.
CallReturns ==
    /\ scheduler = "calling"
    /\ scheduler' = "loop"
    /\ UNCHANGED <<methodRequestQueue, state, exiting, enqueues, enqueued,
                   called, missed, late>>

Svc == Wait \/ TestState \/ TakeFront \/ CallReturns

\* exit(), first statement, without the mutex.
ExitSetState ==
    /\ exiting = "before"
    /\ exiting' = "notify"
    /\ state' = "SHUTDOWN"
    /\ UNCHANGED <<methodRequestQueue, scheduler, enqueues, enqueued, called,
                   missed, late>>

\* exit(), second statement.
ExitNotify ==
    /\ exiting = "notify"
    /\ exiting' = "after"
    /\ NotifyScheduler
    /\ UNCHANGED <<methodRequestQueue, state, enqueues, enqueued, called, missed, late>>

Next ==
    \/ \E c \in Clients : Enqueue(c)
    \/ Wait \/ TestState \/ TakeFront \/ CallReturns
    \/ SpuriousWakeup
    \/ ExitSetState \/ ExitNotify

Spec == Init /\ [][Next]_vars

\* The scheduler thread runs when it can, and a thread inside exit() goes on.
FairSpec ==
    /\ Spec
    /\ WF_vars(Svc)
    /\ WF_vars(ExitNotify)
-------------------------------------------------------------------------------
(* Properties that hold.                                                   *)

\* Requests are called at most once, in the order enqueue() took them, and one
\* that was not called is still in the queue.
Fifo == enqueued = called \o methodRequestQueue

\* Requests fall behind only through missed notifications: the queue never
\* holds more than one request for each enqueue() that found the scheduler not
\* asleep, and the one a woken scheduler is about to take or left on a shutdown.
BacklogIsMissedNotifications ==
    Len(methodRequestQueue)
        <= missed + (IF scheduler \in {"woken", "tested", "exited"} THEN 1 ELSE 0)

\* However exit() races dequeue(), which reads mState without synchronisation,
\* at most one more request is called once mState is SHUTDOWN.
AtMostOneAfterShutdown == late <= 1

\* Once the scheduler is awake with a request in the queue, as after an
\* enqueue() that found it asleep, the front is called unless a shutdown comes.
AwakeServesFront ==
    \A r \in Requests :
        (scheduler = "woken" /\ methodRequestQueue # <<>> /\ Head(methodRequestQueue) = r)
            ~> (state = "SHUTDOWN" \/ \E i \in 1 .. Len(called) : called[i] = r)

\* A shutdown that finds the scheduler asleep ends it.
ShutdownEndsSleeper ==
    (exiting = "notify" /\ scheduler \in {"waiting", "woken"}) ~> scheduler = "exited"
-------------------------------------------------------------------------------
(* What ARCH_Active_Object_framework_and_application.md says of the queue  *)
(* and the scheduler, and the code does not do.                            *)

\* "Supports a shutdown state (STATE_SHUTDOWN) to gracefully exit the consumer
\* loop": after exit(), svc() returns.
ShutdownExits == state = "SHUTDOWN" ~> scheduler = "exited"
===============================================================================
