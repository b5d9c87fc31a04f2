----------------------------- MODULE MessageQueue -----------------------------
(***************************************************************************)
(* The message queue every Task carries (framework/task/1_0/Task.cpp and   *)
(* framework/task/2_0/Task.cpp): a vector of messages and a stop flag      *)
(* under one mutex, and one condition variable on which getQ() waits.      *)
(*                                                                         *)
(* The three operations are critical sections, so each is one step, except *)
(* where the code lets go of the mutex: getQ() inside the condition        *)
(* variable's wait, and requestStop() between setting the flag and         *)
(* notify_all().  Both versions of Task behave alike here; ~Task() of 1.0  *)
(* holds the statements 2.0 names requestStop().                           *)
(*                                                                         *)
(* A consumer is a thread that runs `while ( getQ( message ) == 0 )`: the  *)
(* Task's own worker in SyncService::svc and ActObjClient::svc, or any     *)
(* thread in Stream::get(), which reads the queue of a StreamHead.         *)
(***************************************************************************)
EXTENDS Integers, Sequences, FiniteSets

CONSTANTS
    Producers,  \* threads that call putQ()
    Consumers,  \* threads that call getQ() until it fails
    Stoppers,   \* threads that call requestStop()
    MaxPut      \* bound: calls of putQ() by each producer

ASSUME MessageQueueAssumption ==
    /\ IsFiniteSet(Consumers)
    /\ MaxPut \in Nat

VARIABLES
    messageQueue,   \* mMessageQueue
    stopRequested,  \* mStopRequested
    consumer,       \* where each consumer is, see ConsumerState
    stopper,        \* where each stopper is, see StopperState
    puts,           \* calls of putQ() each producer has made
    accepted,       \* history: messages putQ() answered 0 to, in order
    taken           \* history: messages getQ() returned, in order

vars == <<messageQueue, stopRequested, consumer, stopper, puts, accepted, taken>>

\* The n-th call of putQ() by producer p carries the message <<p, n>>.
Messages == Producers \X (1 .. MaxPut)

\* "svc": about to call getQ(); "waiting": asleep on mQueueCondition;
\* "woken": has to take the mutex again and look; "done": getQ() said -1.
ConsumerState == {"svc", "waiting", "woken", "done"}

\* "notify": between the unlock of mQueueMutex and notify_all().
StopperState == {"before", "notify", "after"}

Waiters == {c \in Consumers : consumer[c] = "waiting"}
Woken   == {c \in Consumers : consumer[c] = "woken"}

TypeOK ==
    /\ messageQueue \in Seq(Messages)
    /\ stopRequested \in BOOLEAN
    /\ consumer \in [Consumers -> ConsumerState]
    /\ stopper \in [Stoppers -> StopperState]
    /\ puts \in [Producers -> 0 .. MaxPut]
    /\ accepted \in Seq(Messages)
    /\ taken \in Seq(Messages)

Init ==
    /\ messageQueue = <<>>
    /\ stopRequested = FALSE
    /\ consumer = [c \in Consumers |-> "svc"]
    /\ stopper = [s \in Stoppers |-> "before"]
    /\ puts = [p \in Producers |-> 0]
    /\ accepted = <<>>
    /\ taken = <<>>
-------------------------------------------------------------------------------
(* Operations.  A definition named Bug... is a seeded error: what its      *)
(* successor would be had the code a plausible slip.  None is part of the  *)
(* specification; each shows that some property notices the slip.          *)

Wake(c) == consumer' = [consumer EXCEPT ![c] = "woken"]

\* Notify only on the transition from empty to non-empty.
BugNotifyOne ==
    IF Waiters = {} \/ messageQueue # <<>> THEN UNCHANGED consumer
                                          ELSE \E c \in Waiters : Wake(c)

\* mQueueCondition.notify_one(): one waiter, if there is any, whichever.
NotifyOne ==
    IF Waiters = {} THEN UNCHANGED consumer ELSE \E c \in Waiters : Wake(c)

\* notify_one() written for notify_all().
BugNotifyAllWaiters == NotifyOne

\* mQueueCondition.notify_all().
NotifyAllWaiters ==
    consumer' = [c \in Consumers |->
                    IF consumer[c] = "waiting" THEN "woken" ELSE consumer[c]]

\* putQ() does not look at the flag.
BugOpen == TRUE

\* The test of putQ().
Open == ~stopRequested

\* The argument of the next putQ() of p: some string, here named for the call.
Message(p) == <<p, puts[p] + 1>>

\* putQ() before a stop: push_back and notify_one with the mutex held.
PutQAccept(p) ==
    /\ puts[p] < MaxPut
    /\ Open
    /\ puts' = [puts EXCEPT ![p] = @ + 1]
    /\ messageQueue' = Append(messageQueue, Message(p))
    /\ accepted' = Append(accepted, Message(p))
    /\ NotifyOne
    /\ UNCHANGED <<stopRequested, stopper, taken>>

\* putQ() after a stop returns -1 and touches nothing.
PutQReject(p) ==
    /\ puts[p] < MaxPut
    /\ ~Open
    /\ puts' = [puts EXCEPT ![p] = @ + 1]
    /\ UNCHANGED <<messageQueue, stopRequested, consumer, stopper, accepted, taken>>

\* back() for front().
BugFront == messageQueue[Len(messageQueue)]

\* The message getQ() copies out before it erases begin().
Front == Head(messageQueue)

\* getQ() does not look at the queue after its wait, which ends on a stop too: it
\* returns the front of an empty vector, which is no message anybody put.
BugGetQTake(c) ==
    /\ consumer[c] \in {"svc", "woken"}
    /\ messageQueue # <<>> \/ stopRequested
    /\ messageQueue' = SubSeq(messageQueue, 2, Len(messageQueue))
    /\ taken' = Append(taken, IF messageQueue = <<>> THEN <<>> ELSE Front)
    /\ consumer' = [consumer EXCEPT ![c] = "svc"]
    /\ UNCHANGED <<stopRequested, stopper, puts, accepted>>

\* getQ(), on entry or back from a wait, finds a message.
GetQTake(c) ==
    /\ consumer[c] \in {"svc", "woken"}
    /\ messageQueue # <<>>
    /\ messageQueue' = Tail(messageQueue)
    /\ taken' = Append(taken, Front)
    /\ consumer' = [consumer EXCEPT ![c] = "svc"]
    /\ UNCHANGED <<stopRequested, stopper, puts, accepted>>

\* Fail as soon as a stop is requested, whatever the queue holds.
BugGetQFail(c) ==
    /\ consumer[c] \in {"svc", "woken"}
    /\ stopRequested
    /\ consumer' = [consumer EXCEPT ![c] = "done"]
    /\ UNCHANGED <<messageQueue, stopRequested, stopper, puts, accepted, taken>>

\* getQ() finds the queue empty and the stop flag set: it returns -1, and the
\* caller's loop is over.
GetQFail(c) ==
    /\ consumer[c] \in {"svc", "woken"}
    /\ messageQueue = <<>>
    /\ stopRequested
    /\ consumer' = [consumer EXCEPT ![c] = "done"]
    /\ UNCHANGED <<messageQueue, stopRequested, stopper, puts, accepted, taken>>

\* getQ() has nothing to look at: the wait releases the mutex and sleeps.
GetQWait(c) ==
    /\ consumer[c] \in {"svc", "woken"}
    /\ messageQueue = <<>>
    /\ ~stopRequested
    /\ consumer' = [consumer EXCEPT ![c] = "waiting"]
    /\ UNCHANGED <<messageQueue, stopRequested, stopper, puts, accepted, taken>>

GetQ(c) == GetQTake(c) \/ GetQFail(c) \/ GetQWait(c)

\* A condition variable may wake a waiter that nobody notified.
SpuriousWakeup(c) ==
    /\ consumer[c] = "waiting"
    /\ Wake(c)
    /\ UNCHANGED <<messageQueue, stopRequested, stopper, puts, accepted, taken>>

\* requestStop(), the part under the mutex.
RequestStop(s) ==
    /\ stopper[s] = "before"
    /\ stopper' = [stopper EXCEPT ![s] = "notify"]
    /\ stopRequested' = TRUE
    /\ UNCHANGED <<messageQueue, consumer, puts, accepted, taken>>

\* requestStop(), mQueueCondition.notify_all() after the unlock.
NotifyAll(s) ==
    /\ stopper[s] = "notify"
    /\ stopper' = [stopper EXCEPT ![s] = "after"]
    /\ NotifyAllWaiters
    /\ UNCHANGED <<messageQueue, stopRequested, puts, accepted, taken>>

Next ==
    \/ \E p \in Producers : PutQAccept(p) \/ PutQReject(p)
    \/ \E c \in Consumers : GetQ(c) \/ SpuriousWakeup(c)
    \/ \E s \in Stoppers : RequestStop(s) \/ NotifyAll(s)

Spec == Init /\ [][Next]_vars

\* A thread that can run does run: consumers keep calling getQ(), and a stopper
\* between its unlock and its notify_all() goes on.  Nobody has to put a
\* message or to request a stop, and no wakeup is spurious out of duty.
FairSpec ==
    /\ Spec
    /\ \A c \in Consumers : WF_vars(GetQ(c))
    /\ \A s \in Stoppers : WF_vars(NotifyAll(s))
-------------------------------------------------------------------------------
(* Properties.                                                             *)

\* While somebody sleeps in getQ(), every message in the queue has a consumer
\* already on its way to it: putQ() never leaves a message behind that only a
\* sleeping consumer could take.
NoLostWakeup ==
    Waiters # {} => Len(messageQueue) <= Cardinality(Woken)

\* After requestStop() set the flag, a consumer still asleep has a notify_all()
\* coming: nobody goes back to sleep behind the last notification.
StopReachesWaiters ==
    stopRequested /\ Waiters # {} => \E s \in Stoppers : stopper[s] = "notify"

\* putQ() and getQ() neither lose, duplicate nor reorder a message, over all
\* producers and consumers.
Fifo == accepted = taken \o messageQueue

\* getQ() answers -1 only when everything putQ() ever accepted was taken, and
\* nothing is accepted later: the loops on getQ() drain the queue on a stop.
DrainedBeforeExit ==
    (\E c \in Consumers : consumer[c] = "done") => taken = accepted

\* The queue with its lock and condition variable is a closable channel; with
\* threads that run, a message putQ() answered 0 to is taken, and requestStop(),
\* as ~Task() with it, gets every consumer out of its loop.
Channel == INSTANCE ClosableChannel WITH
    Receivers <- Consumers,
    chan      <- messageQueue,
    closed    <- stopRequested,
    received  <- taken,
    ended     <- {c \in Consumers : consumer[c] = "done"}

ImplementsChannel     == Channel!Spec
ImplementsFairChannel == Channel!FairSpec
===============================================================================
