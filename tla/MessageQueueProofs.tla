-------------------------- MODULE MessageQueueProofs --------------------------
(***************************************************************************)
(* For any sets of producers, consumers and stoppers and any bound on the  *)
(* calls of putQ(): the safety properties of MessageQueue, and that it     *)
(* implements a closable channel.                                          *)
(*                                                                         *)
(* Each property is inductive together with TypeOK, so the invariants are  *)
(* proved one after the other, each from those before it.                  *)
(***************************************************************************)
EXTENDS MessageQueue, FiniteSetTheorems, SequenceTheorems, TLAPS

\* Every state of the queue is well typed: what an action builds from a typed
\* state (a queue of messages, a thread state, a count up to MaxPut) is typed.
THEOREM TypeCorrect == Spec => []TypeOK
<1>1. Init => TypeOK
  <2>1. <<>> \in Seq(Messages) /\ 0 \in 0 .. MaxPut
    BY MessageQueueAssumption
  <2> QED
    BY <2>1 DEF Init, TypeOK, ConsumerState, StopperState
<1>2. TypeOK /\ [Next]_vars => TypeOK'
  <2> SUFFICES ASSUME TypeOK, [Next]_vars
               PROVE  TypeOK'
    OBVIOUS
  <2> USE DEF TypeOK, ConsumerState, StopperState
  <2>1. ASSUME NEW p \in Producers, PutQAccept(p)
        PROVE  TypeOK'
    <3>1. puts[p] \in 0 .. MaxPut /\ puts[p] + 1 \in 1 .. MaxPut
      BY <2>1, MessageQueueAssumption DEF PutQAccept
    <3>2. Message(p) \in Messages
      BY <3>1 DEF Message, Messages
    <3>3. /\ messageQueue' \in Seq(Messages)
          /\ accepted' \in Seq(Messages)
      BY <2>1, <3>2, AppendProperties DEF PutQAccept
    <3>4. consumer' \in [Consumers -> ConsumerState]
      BY <2>1 DEF PutQAccept, NotifyOne, Wake, Waiters
    <3>5. puts' \in [Producers -> 0 .. MaxPut]
      BY <2>1, <3>1, MessageQueueAssumption DEF PutQAccept
    <3> QED
      BY <2>1, <3>3, <3>4, <3>5 DEF PutQAccept
  <2>2. ASSUME NEW p \in Producers, PutQReject(p)
        PROVE  TypeOK'
    BY <2>2, MessageQueueAssumption DEF PutQReject
  <2>3. ASSUME NEW c \in Consumers, GetQTake(c)
        PROVE  TypeOK'
    <3>1. /\ Front \in Messages
          /\ Tail(messageQueue) \in Seq(Messages)
      BY <2>3, HeadTailProperties DEF GetQTake, Front
    <3>2. taken' \in Seq(Messages)
      BY <2>3, <3>1, AppendProperties DEF GetQTake
    <3> QED
      BY <2>3, <3>1, <3>2 DEF GetQTake
  <2>4. ASSUME NEW c \in Consumers, GetQFail(c) \/ GetQWait(c) \/ SpuriousWakeup(c)
        PROVE  TypeOK'
    BY <2>4 DEF GetQFail, GetQWait, SpuriousWakeup, Wake
  <2>5. ASSUME NEW s \in Stoppers, RequestStop(s) \/ NotifyAll(s)
        PROVE  TypeOK'
    BY <2>5 DEF RequestStop, NotifyAll, NotifyAllWaiters
  <2>6. CASE UNCHANGED vars
    BY <2>6 DEF vars
  <2> QED
    BY <2>1, <2>2, <2>3, <2>4, <2>5, <2>6 DEF Next, GetQ
<1> QED
  BY <1>1, <1>2, PTL DEF Spec

-------------------------------------------------------------------------------
\* push_back() extends what was taken and what is queued, together, by the new element.
LEMMA PushBack ==
    ASSUME NEW S, NEW past \in Seq(S), NEW queue \in Seq(S), NEW m \in S
    PROVE  past \o Append(queue, m) = Append(past \o queue, m)
BY SMT

\* Moving the front from the queue to what was taken leaves the whole alone.
LEMMA PopFront ==
    ASSUME NEW S, NEW past \in Seq(S), NEW queue \in Seq(S), queue # <<>>
    PROVE  Append(past, Head(queue)) \o Tail(queue) = past \o queue
BY SMT

\* The messages putQ() accepted are those getQ() returned followed by those
\* still queued, in one order: nothing is lost, duplicated or reordered.
THEOREM FifoHolds == Spec => []Fifo
<1>1. Init => Fifo
  BY DEF Init, Fifo
<1>2. TypeOK /\ Fifo /\ [Next]_vars => Fifo'
  <2> SUFFICES ASSUME TypeOK, Fifo, [Next]_vars
               PROVE  Fifo'
    OBVIOUS
  <2>1. ASSUME NEW p \in Producers, PutQAccept(p)
        PROVE  Fifo'
    <3>1. puts[p] + 1 \in 1 .. MaxPut
      BY <2>1, MessageQueueAssumption DEF PutQAccept, TypeOK
    <3>2. Message(p) \in Messages
      BY <3>1 DEF Message, Messages
    <3>3. taken \o messageQueue' = Append(taken \o messageQueue, Message(p))
      BY <2>1, <3>2, PushBack DEF PutQAccept, TypeOK
    <3> QED
      BY <2>1, <3>3 DEF PutQAccept, Fifo
  <2>2. ASSUME NEW c \in Consumers, GetQTake(c)
        PROVE  Fifo'
    <3>1. taken' \o messageQueue' = taken \o messageQueue
      BY <2>2, PopFront DEF GetQTake, Front, TypeOK
    <3> QED
      BY <2>2, <3>1 DEF GetQTake, Fifo
  <2>3. CASE UNCHANGED <<messageQueue, accepted, taken>>
    BY <2>3 DEF Fifo
  <2> QED
    BY <2>1, <2>2, <2>3
    DEF Next, GetQ, PutQReject, GetQFail, GetQWait, SpuriousWakeup,
        RequestStop, NotifyAll, vars
<1> QED
  BY <1>1, <1>2, TypeCorrect, PTL DEF Spec

-------------------------------------------------------------------------------
\* Waking one waiter makes one more woken consumer.
LEMMA WakeCountsOne ==
    ASSUME TypeOK, NEW c \in Waiters, Wake(c)
    PROVE  /\ Cardinality(Woken') = Cardinality(Woken) + 1
           /\ Cardinality(Woken) \in Nat
<1>1. IsFiniteSet(Woken)
  BY MessageQueueAssumption, FS_Subset DEF Woken
<1>2. Woken' = Woken \cup {c} /\ c \notin Woken
  BY DEF Woken, Waiters, Wake, TypeOK
<1> QED
  BY <1>1, <1>2, FS_AddElement, FS_CardinalityType

\* While a consumer sleeps, the queue holds no more messages than there are
\* consumers already woken: notify_one() under the mutex loses no wakeup.
THEOREM NoLostWakeupHolds == Spec => []NoLostWakeup
<1>1. Init => NoLostWakeup
  BY DEF Init, NoLostWakeup, Waiters
<1>2. TypeOK /\ NoLostWakeup /\ [Next]_vars => NoLostWakeup'
  <2> SUFFICES ASSUME TypeOK, NoLostWakeup, [Next]_vars, Waiters' # {}
               PROVE  Len(messageQueue') <= Cardinality(Woken')
    BY DEF NoLostWakeup
  <2>1. /\ IsFiniteSet(Woken) /\ Cardinality(Woken) \in Nat
        /\ Len(messageQueue) \in Nat
    BY MessageQueueAssumption, FS_Subset, FS_CardinalityType DEF Woken, TypeOK
  <2>2. IsFiniteSet(Woken') /\ Cardinality(Woken') \in Nat
    BY MessageQueueAssumption, FS_Subset, FS_CardinalityType DEF Woken
  <2>3. ASSUME NEW p \in Producers, PutQAccept(p)
        PROVE  Len(messageQueue') <= Cardinality(Woken')
    <3>1. Waiters # {}
      BY <2>3 DEF PutQAccept, NotifyOne, Waiters
    <3>2. PICK c \in Waiters : Wake(c)
      BY <2>3, <3>1 DEF PutQAccept, NotifyOne
    <3>3. Cardinality(Woken') = Cardinality(Woken) + 1
      BY <3>2, WakeCountsOne
    <3>4. Len(messageQueue') = Len(messageQueue) + 1
      BY <2>3 DEF PutQAccept, TypeOK
    <3> QED
      BY <2>1, <3>1, <3>3, <3>4 DEF NoLostWakeup
  <2>4. ASSUME NEW c \in Consumers, GetQTake(c)
        PROVE  Len(messageQueue') <= Cardinality(Woken')
    \* The queue loses a message, and Woken at most the consumer that took it.
    <3>1. Len(messageQueue') = Len(messageQueue) - 1
      BY <2>4 DEF GetQTake, TypeOK
    <3>2. Waiters # {}
      BY <2>4 DEF GetQTake, Waiters, TypeOK
    <3>3. Woken' = Woken \ {c}
      BY <2>4 DEF GetQTake, Woken, TypeOK
    <3>4. Cardinality(Woken') >= Cardinality(Woken) - 1
      BY <2>1, <3>3, FS_RemoveElement
    <3> QED
      BY <2>1, <2>2, <3>1, <3>2, <3>4 DEF NoLostWakeup
  <2>5. ASSUME messageQueue' = <<>>
        PROVE  Len(messageQueue') <= Cardinality(Woken')
    BY <2>2, <2>5
  <2>6. ASSUME NEW c \in Consumers, SpuriousWakeup(c)
        PROVE  Len(messageQueue') <= Cardinality(Woken')
    <3>1. c \in Waiters /\ messageQueue' = messageQueue
      BY <2>6 DEF SpuriousWakeup, Waiters
    <3>2. Cardinality(Woken') = Cardinality(Woken) + 1
      BY <2>6, <3>1, WakeCountsOne DEF SpuriousWakeup
    <3> QED
      BY <2>1, <3>1, <3>2 DEF NoLostWakeup
  <2>7. ASSUME NEW s \in Stoppers, NotifyAll(s)
        PROVE  FALSE
    BY <2>7 DEF NotifyAll, NotifyAllWaiters, Waiters, TypeOK
  <2>8. ASSUME UNCHANGED <<messageQueue, consumer>>
        PROVE  Len(messageQueue') <= Cardinality(Woken')
    BY <2>8 DEF NoLostWakeup, Waiters, Woken
  <2> QED
    BY <2>3, <2>4, <2>5, <2>6, <2>7, <2>8
    DEF Next, GetQ, PutQReject, GetQFail, GetQWait, RequestStop, vars
<1> QED
  BY <1>1, <1>2, TypeCorrect, PTL DEF Spec

-------------------------------------------------------------------------------
\* A consumer asleep after the stop flag was set has a notify_all() coming:
\* nobody starts to wait once the flag is set, and each stopper's notify_all()
\* leaves nobody waiting.
THEOREM StopReachesWaitersHolds == Spec => []StopReachesWaiters
<1>1. Init => StopReachesWaiters
  BY DEF Init, StopReachesWaiters
<1>2. TypeOK /\ StopReachesWaiters /\ [Next]_vars => StopReachesWaiters'
  <2> SUFFICES ASSUME TypeOK, StopReachesWaiters, [Next]_vars,
                      stopRequested', Waiters' # {}
               PROVE  \E s \in Stoppers : stopper'[s] = "notify"
    BY DEF StopReachesWaiters
  <2>1. ASSUME NEW s \in Stoppers, RequestStop(s)
        PROVE  \E t \in Stoppers : stopper'[t] = "notify"
    BY <2>1 DEF RequestStop, TypeOK
  <2>2. ASSUME NEW s \in Stoppers, NotifyAll(s)
        PROVE  FALSE
    BY <2>2 DEF NotifyAll, NotifyAllWaiters, Waiters, TypeOK
  <2>3. ASSUME NEW c \in Consumers, GetQWait(c)
        PROVE  FALSE
    BY <2>3 DEF GetQWait
  <2>4. ASSUME UNCHANGED <<stopRequested, stopper>>, Waiters' \subseteq Waiters
        PROVE  \E s \in Stoppers : stopper'[s] = "notify"
    BY <2>4 DEF StopReachesWaiters
  <2>5. ASSUME NEW p \in Producers, PutQAccept(p)
        PROVE  Waiters' \subseteq Waiters
    BY <2>5 DEF PutQAccept, NotifyOne, Wake, Waiters, TypeOK
  <2>6. ASSUME NEW c \in Consumers, GetQTake(c) \/ GetQFail(c) \/ SpuriousWakeup(c)
        PROVE  Waiters' \subseteq Waiters
    BY <2>6 DEF GetQTake, GetQFail, SpuriousWakeup, Wake, Waiters, TypeOK
  <2>7. ASSUME UNCHANGED consumer
        PROVE  Waiters' \subseteq Waiters
    BY <2>7 DEF Waiters
  <2> QED
    BY <2>1, <2>2, <2>3, <2>4, <2>5, <2>6, <2>7
    DEF Next, GetQ, PutQAccept, PutQReject, GetQTake, GetQFail, SpuriousWakeup, vars
<1> QED
  BY <1>1, <1>2, TypeCorrect, PTL DEF Spec

-------------------------------------------------------------------------------
\* Once some getQ() answered -1 the queue is empty and closed for good.
Drained ==
    (\E c \in Consumers : consumer[c] = "done") => stopRequested /\ messageQueue = <<>>

LEMMA DrainedHolds == Spec => []Drained
<1>1. Init => Drained
  BY DEF Init, Drained
<1>2. TypeOK /\ Drained /\ [Next]_vars => Drained'
  <2> SUFFICES ASSUME TypeOK, Drained, [Next]_vars,
                      NEW d \in Consumers, consumer'[d] = "done"
               PROVE  stopRequested' /\ messageQueue' = <<>>
    BY DEF Drained
  <2>1. ASSUME NEW p \in Producers, PutQAccept(p)
        PROVE  FALSE
    BY <2>1 DEF PutQAccept, Open, NotifyOne, Wake, Drained, TypeOK
  <2>2. ASSUME NEW c \in Consumers, GetQTake(c)
        PROVE  FALSE
    BY <2>2 DEF GetQTake, Drained, TypeOK
  <2>3. ASSUME NEW c \in Consumers, GetQFail(c) \/ GetQWait(c)
        PROVE  stopRequested' /\ messageQueue' = <<>>
    BY <2>3 DEF GetQFail, GetQWait, Drained, TypeOK
  <2>4. ASSUME NEW c \in Consumers, SpuriousWakeup(c)
        PROVE  stopRequested' /\ messageQueue' = <<>>
    BY <2>4 DEF SpuriousWakeup, Wake, Drained, TypeOK
  <2>5. ASSUME NEW s \in Stoppers, RequestStop(s) \/ NotifyAll(s)
        PROVE  stopRequested' /\ messageQueue' = <<>>
    BY <2>5 DEF RequestStop, NotifyAll, NotifyAllWaiters, Drained, TypeOK
  <2>6. ASSUME UNCHANGED <<messageQueue, stopRequested, consumer>>
        PROVE  stopRequested' /\ messageQueue' = <<>>
    BY <2>6 DEF Drained
  <2> QED
    BY <2>1, <2>2, <2>3, <2>4, <2>5, <2>6 DEF Next, GetQ, PutQReject, vars
<1> QED
  BY <1>1, <1>2, TypeCorrect, PTL DEF Spec

\* A loop on getQ() that ended has seen every message putQ() ever accepted
\* taken, so a stop loses nothing that was accepted.
THEOREM DrainedBeforeExitHolds == Spec => []DrainedBeforeExit
<1>1. TypeOK /\ Fifo /\ Drained => DrainedBeforeExit
  BY DEF TypeOK, Fifo, Drained, DrainedBeforeExit
<1> QED
  BY <1>1, TypeCorrect, FifoHolds, DrainedHolds, PTL

-------------------------------------------------------------------------------
\* The queue, its lock, its condition variable and its stop flag implement the
\* closable channel: each step is a step of the channel or leaves it alone.
THEOREM ImplementsChannelHolds == Spec => ImplementsChannel
<1> DEFINE Ended == {c \in Consumers : consumer[c] = "done"}
<1>1. Init => Channel!Init
  BY DEF Init, Channel!Init
<1>2. TypeOK /\ [Next]_vars => [Channel!Next]_Channel!vars
  <2> SUFFICES ASSUME TypeOK, [Next]_vars
               PROVE  [Channel!Next]_Channel!vars
    OBVIOUS
  <2> USE DEF TypeOK, Channel!vars
  <2>1. ASSUME NEW p \in Producers, PutQAccept(p)
        PROVE  Channel!Next
    <3>1. puts[p] + 1 \in 1 .. MaxPut
      BY <2>1, MessageQueueAssumption DEF PutQAccept
    <3>2. Message(p) \in Messages
      BY <3>1 DEF Message, Messages
    <3>3. Ended' = Ended
      BY <2>1 DEF PutQAccept, NotifyOne, Wake, Waiters
    <3>4. Channel!Send(Message(p))
      BY <2>1, <3>3 DEF PutQAccept, Open, Channel!Send
    <3> QED
      BY <3>2, <3>4 DEF Channel!Next
  <2>2. ASSUME NEW p \in Producers, PutQReject(p)
        PROVE  UNCHANGED Channel!vars
    BY <2>2 DEF PutQReject
  <2>3. ASSUME NEW c \in Consumers, GetQTake(c)
        PROVE  Channel!Next
    <3>1. Ended' = Ended
      BY <2>3 DEF GetQTake
    <3>2. Channel!Receive
      BY <2>3, <3>1 DEF GetQTake, Front, Channel!Receive
    <3> QED
      BY <3>2 DEF Channel!Next
  <2>4. ASSUME NEW c \in Consumers, GetQFail(c)
        PROVE  Channel!Next
    <3>1. Ended' = Ended \cup {c}
      BY <2>4 DEF GetQFail
    <3>2. Channel!End(c)
      BY <2>4, <3>1 DEF GetQFail, Channel!End
    <3> QED
      BY <3>2 DEF Channel!Next
  <2>5. ASSUME NEW c \in Consumers, GetQWait(c) \/ SpuriousWakeup(c)
        PROVE  UNCHANGED Channel!vars
    <3>1. Ended' = Ended
      BY <2>5 DEF GetQWait, SpuriousWakeup, Wake
    <3> QED
      BY <2>5, <3>1 DEF GetQWait, SpuriousWakeup
  <2>6. ASSUME NEW s \in Stoppers, RequestStop(s)
        PROVE  Channel!Next
    BY <2>6 DEF RequestStop, Channel!Close, Channel!Next
  <2>7. ASSUME NEW s \in Stoppers, NotifyAll(s)
        PROVE  UNCHANGED Channel!vars
    <3>1. Ended' = Ended
      BY <2>7 DEF NotifyAll, NotifyAllWaiters
    <3> QED
      BY <2>7, <3>1 DEF NotifyAll
  <2>8. CASE UNCHANGED vars
    BY <2>8 DEF vars
  <2> QED
    BY <2>1, <2>2, <2>3, <2>4, <2>5, <2>6, <2>7, <2>8 DEF Next, GetQ
<1> QED
  BY <1>1, <1>2, TypeCorrect, PTL DEF Spec, ImplementsChannel, Channel!Spec
===============================================================================
