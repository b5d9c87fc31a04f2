---------------------------- MODULE ProactorProofs ----------------------------
(***************************************************************************)
(* For any requests, any size of the tables, whatever the system answers   *)
(* and in whatever order it completes: the safety properties of Proactor,  *)
(* and that it implements AsyncOperations.                                 *)
(*                                                                         *)
(* Everything rests on one invariant, TablesInv, which ties the two tables *)
(* to what became of each result; the counters and the refinement are      *)
(* proved from it.                                                         *)
(***************************************************************************)
EXTENDS Proactor, FiniteSetTheorems, TLAPS

\* The tables: a started operation is in both at its slot and alive, a result in
\* mResultList only is deferred, no result is in two slots, and slot 0 holds the
\* read of the notify pipe and nothing else.
SlotsInv ==
    /\ \A i \in Active : /\ resultList[i] = aiocbList[i]
                         /\ life[aiocbList[i]] \in {"running", "done"}
    /\ \A i \in Deferred : life[resultList[i]] = "deferred"
    /\ \A i, j \in Occupied : resultList[i] = resultList[j] => i = j
    /\ \A i \in Occupied : resultList[i] = Notify <=> i = 0

\* r is in no slot.
InNoSlot(r) == \A i \in Slots : resultList[i] # r

\* The operation being dispatched is done and in no slot.
CurrentInv ==
    loop \in {"restart", "callback"} =>
        current \in Results /\ life[current] = "done" /\ InNoSlot(current)

\* A request is handled only on its way to being deleted.
CalledInv == \A r \in Requests : life[r] # "deleted" => called[r] = 0

TablesInv == SlotsInv /\ CurrentInv /\ SuspendedOnLive /\ CalledInv

-------------------------------------------------------------------------------
\* Every result startAio() handles is typed, whatever the system answers.
LEMMA StartResultTypes ==
    ASSUME TypeOK, NEW r \in Results, StartResult(r)
    PROVE  /\ aiocbList' \in [0 .. MaxSize -> Results \cup {NoResult}]
           /\ resultList' \in [0 .. MaxSize -> Results \cup {NoResult}]
           /\ curSize' \in Int /\ numDeferred' \in Int /\ numStarted' \in Int
           /\ life' \in [Results -> Life]
           /\ overflowed' \in BOOLEAN
<1>1. PICK i \in 0 .. MaxSize :
         /\ overflowed' = (overflowed \/ i = MaxSize)
         /\ \/ StartAioOK(r, i)    /\ life' = [life EXCEPT ![r] = "running"]
            \/ StartAioAgain(r, i) /\ life' = [life EXCEPT ![r] = "deferred"]
            \/ StartAioFail(r, i)  /\ life' = [life EXCEPT ![r] = "deleted"]
  BY DEF StartResult
<1>2. overflowed' \in BOOLEAN
  BY <1>1
<1>3. life' \in [Results -> Life]
  BY <1>1 DEF TypeOK, Life
<1>4. CASE StartAioOK(r, i)
  BY <1>2, <1>3, <1>4 DEF TypeOK, StartAioOK
<1>5. CASE StartAioAgain(r, i)
  BY <1>2, <1>3, <1>5 DEF TypeOK, StartAioAgain
<1>6. CASE StartAioFail(r, i)
  BY <1>2, <1>3, <1>6 DEF TypeOK, StartAioFail
<1> QED
  BY <1>1, <1>4, <1>5, <1>6

\* The constructor, whatever the system answers to its first read.
LEMMA TypeInit == Init => TypeOK
<1> SUFFICES ASSUME Init
             PROVE  TypeOK
  OBVIOUS
<1>1. PICK answer \in {"ok", "again", "fail"} :
         /\ aiocbList = [i \in 0 .. MaxSize |->
                            IF i = 0 /\ answer = "ok" THEN Notify ELSE NoResult]
         /\ resultList = [i \in 0 .. MaxSize |->
                            IF i = 0 /\ answer # "fail" THEN Notify ELSE NoResult]
         /\ curSize = (IF answer = "fail" THEN 0 ELSE 1)
         /\ numDeferred = (IF answer = "again" THEN 1 ELSE 0)
         /\ numStarted = (IF answer = "ok" THEN 1 ELSE 0)
         /\ life = [r \in Results |-> IF r = Notify THEN FirstRead(answer) ELSE "unused"]
  BY ProactorAssumption DEF Init
<1>2. <<>> \in Seq(Results) /\ Notify \in Results
  BY DEF Results
<1>3. aiocbList \in [0 .. MaxSize -> Results \cup {NoResult}]
  BY <1>1, <1>2
<1>4. resultList \in [0 .. MaxSize -> Results \cup {NoResult}]
  BY <1>1, <1>2
<1>5. FirstRead(answer) \in Life /\ "unused" \in Life
  BY <1>1 DEF FirstRead, Life
<1>6. life \in [Results -> Life] /\ called \in [Requests -> Nat]
  BY <1>1, <1>5 DEF Init
<1>7. curSize \in Int /\ numDeferred \in Int /\ numStarted \in Int
  BY <1>1
<1>8. notifying \in BOOLEAN /\ overflowed \in BOOLEAN
  BY DEF Init
<1> QED
  BY <1>2, <1>3, <1>4, <1>6, <1>7, <1>8, ProactorAssumption DEF Init, TypeOK, LoopState

\* What an action computes of a typed state is typed; the result it takes from the
\* table is one because the tables agree.
LEMMA TypeStep == TypeOK /\ TablesInv /\ [Next]_vars => TypeOK'
<1> SUFFICES ASSUME TypeOK, TablesInv, [Next]_vars
             PROVE  TypeOK'
  OBVIOUS
<1>1. ASSUME NEW r \in Opened, Open(r)
      PROVE  TypeOK'
  <2>1. r \in Results /\ StartResult(r)
    BY <1>1 DEF Open, Results, Requests
  <2> QED
    BY <1>1, <2>1, StartResultTypes DEF Open, TypeOK
<1>2. CASE NotifyOpened
  <2>1. notifying' \in BOOLEAN
    BY <1>2 DEF NotifyOpened
  <2>2. pipe' \in Nat
    BY <1>2 DEF NotifyOpened, NotifyByte, TypeOK
  <2> QED
    BY <1>2, <2>1, <2>2 DEF NotifyOpened, tables, TypeOK
<1>3. ASSUME NEW r \in Posted, PostCompletion(r)
      PROVE  TypeOK'
  <2>1. r \in Results
    BY DEF Results, Requests
  <2>2. resultQueue' \in Seq(Results)
    BY <1>3, <2>1 DEF PostCompletion, TypeOK
  <2> QED
    BY <1>3, <2>1, <2>2 DEF PostCompletion, NotifyByte, tables, TypeOK, Life
<1>4. ASSUME NEW r \in Requests, KernelCompletes(r)
      PROVE  TypeOK'
  BY <1>4 DEF KernelCompletes, tables, TypeOK, Life, Results
<1>5. CASE KernelReadsPipe
  <2>1. pipe' \in Nat
    BY <1>5, ProactorAssumption DEF KernelReadsPipe, TypeOK
  <2> QED
    BY <1>5, <2>1 DEF KernelReadsPipe, tables, TypeOK, Life, Results
<1>6. ASSUME NEW r \in Chained, HandlerStarts(r)
      PROVE  TypeOK'
  <2>1. r \in Results /\ StartResult(r)
    BY <1>6 DEF HandlerStarts, Results, Requests
  <2> QED
    BY <1>6, <2>1, StartResultTypes DEF HandlerStarts, TypeOK
<1>7. CASE SuspendInterrupted \/ Exit \/ Suspended \/ FindNothing
  BY <1>7, ProactorAssumption
  DEF SuspendInterrupted, Exit, Suspended, FindNothing, tables, TypeOK, LoopState
<1>8. CASE BuildActiveList
  <2>1. activeList' \subseteq Results
    BY <1>8, ProactorAssumption DEF BuildActiveList, Active, Slots, TypeOK
  <2> QED
    BY <1>8, <2>1 DEF BuildActiveList, tables, TypeOK, LoopState
<1>9. CASE FindCompletedAio
  <2>1. PICK i \in Completed :
           /\ current' = resultList[i]
           /\ aiocbList' = Taken(aiocbList, i)
           /\ resultList' = Taken(resultList, i)
           /\ index' = i + 1
    BY <1>9 DEF FindCompletedAio, Found
  <2>2. i \in 0 .. MaxSize - 1
    BY DEF Completed, Active, Slots
  <2>3. resultList[i] \in Results
    BY <2>2, ProactorAssumption DEF Completed, Active, TablesInv, SlotsInv, TypeOK
  <2> QED
    BY <1>9, <2>1, <2>2, <2>3, ProactorAssumption
    DEF FindCompletedAio, Taken, TypeOK, LoopState
<1>10. CASE NoDeferredAio \/ DeferredAioAgain \/ DeferredAioMissing
  BY <1>10
  DEF NoDeferredAio, DeferredAioAgain, DeferredAioMissing, tables, TypeOK, LoopState
<1>11. CASE DeferredAioOK
  BY <1>11, ProactorAssumption
  DEF DeferredAioOK, Deferred, Slots, NotifyByte, TypeOK, LoopState, Life
<1>12. CASE DeferredAioFail
  <2>1. PICK i \in Deferred :
           /\ resultList' = Taken(resultList, i)
           /\ life' = [life EXCEPT ![resultList[i]] = "queued"]
           /\ resultQueue' = Append(resultQueue, resultList[i])
    BY <1>12 DEF DeferredAioFail
  <2>2. i \in 0 .. MaxSize /\ resultList[i] \in Results
    BY ProactorAssumption DEF Deferred, Slots, TypeOK
  <2>3. resultQueue' \in Seq(Results)
    BY <2>1, <2>2 DEF TypeOK
  <2>4. life' \in [Results -> Life]
    BY <2>1, <2>2 DEF TypeOK, Life
  <2>5. resultList' \in [0 .. MaxSize -> Results \cup {NoResult}]
    BY <2>1 DEF Taken, TypeOK
  <2> QED
    BY <1>12, <2>3, <2>4, <2>5 DEF DeferredAioFail, NotifyByte, TypeOK, LoopState
<1>13. CASE HandlerReturns
  <2>1. life' \in [Results -> Life]
    BY <1>13 DEF HandlerReturns, TypeOK, Life
  <2>2. called' \in [Requests -> Nat]
    <3>1. CASE current \in Requests
      BY <1>13, <3>1 DEF HandlerReturns, TypeOK
    <3>2. CASE current \notin Requests
      BY <1>13, <3>2 DEF HandlerReturns, TypeOK
    <3> QED
      BY <3>1, <3>2
  <2> QED
    BY <1>13, <2>1, <2>2 DEF HandlerReturns, tables, TypeOK, LoopState
<1>14. CASE NotifyReturns
  <2>1. Notify \in Results /\ StartResult(Notify)
    BY <1>14 DEF NotifyReturns, Results
  <2> QED
    BY <1>14, <2>1, StartResultTypes DEF NotifyReturns, TypeOK, LoopState
<1>15. CASE UNCHANGED vars
  BY <1>15 DEF vars, TypeOK
<1> QED
  BY <1>1, <1>2, <1>3, <1>4, <1>5, <1>6, <1>7, <1>8, <1>9, <1>10, <1>11, <1>12,
     <1>13, <1>14, <1>15
  DEF Next, EventLoop, StartDeferredAio
-------------------------------------------------------------------------------
\* allocateAioSlot() never finds the slot of a started operation, and the slot
\* of the notify pipe is free when the pipe is to be read again.
LEMMA AllocatedIsFree ==
    ASSUME TypeOK, SlotsInv, NEW r \in Results, InNoSlot(r),
           NEW i \in 0 .. MaxSize, AllocateAioSlot(r, i)
    PROVE  /\ i \in Slots => aiocbList[i] = NoResult
           /\ i \in Slots => (r = Notify <=> i = 0)
           /\ i \notin Slots => i = MaxSize /\ r # Notify
<1>1. CASE r = Notify
  <2>1. i = 0 /\ i \in Slots
    BY <1>1, ProactorAssumption DEF AllocateAioSlot, Slots
  <2>2. aiocbList[0] # NoResult => resultList[0] = Notify
    BY <2>1, ProactorAssumption DEF SlotsInv, Active, Occupied, TypeOK
  <2> QED
    BY <1>1, <2>1, <2>2 DEF InNoSlot
<1>2. CASE r # Notify
  BY <1>2, ProactorAssumption DEF AllocateAioSlot, IsFirst, FreeSlots, Slots
<1> QED
  BY <1>1, <1>2

\* startAio() of a result that is in no slot keeps the tables in order, whatever
\* the system answers.
LEMMA StartResultSlots ==
    ASSUME TypeOK, SlotsInv, NEW r \in Results, InNoSlot(r), StartResult(r)
    PROVE  SlotsInv'
<1>1. PICK i \in 0 .. MaxSize :
         /\ AllocateAioSlot(r, i)
         /\ \/ StartAioOK(r, i)    /\ life' = [life EXCEPT ![r] = "running"]
            \/ StartAioAgain(r, i) /\ life' = [life EXCEPT ![r] = "deferred"]
            \/ StartAioFail(r, i)  /\ life' = [life EXCEPT ![r] = "deleted"]
  BY DEF StartResult
<1>2. /\ i \in Slots => aiocbList[i] = NoResult
      /\ i \in Slots => (r = Notify <=> i = 0)
  BY <1>1, AllocatedIsFree
<1>3. \A j \in Slots : /\ j \in 0 .. MaxSize
                       /\ aiocbList[j] \in Results \cup {NoResult}
                       /\ resultList[j] \in Results \cup {NoResult}
                       /\ resultList[j] # r
                       /\ aiocbList[j] # r
  BY ProactorAssumption DEF Slots, TypeOK, InNoSlot, SlotsInv, Active
<1>4. r # NoResult
  BY ProactorAssumption
<1>5. CASE StartAioOK(r, i) /\ life' = [life EXCEPT ![r] = "running"]
  BY <1>2, <1>3, <1>4, <1>5
  DEF StartAioOK, SlotsInv, Active, Deferred, Occupied, TypeOK
<1>6. CASE StartAioAgain(r, i) /\ life' = [life EXCEPT ![r] = "deferred"]
  BY <1>2, <1>3, <1>4, <1>6
  DEF StartAioAgain, SlotsInv, Active, Deferred, Occupied, TypeOK
<1>7. CASE StartAioFail(r, i) /\ life' = [life EXCEPT ![r] = "deleted"]
  BY <1>2, <1>3, <1>4, <1>7
  DEF StartAioFail, SlotsInv, Active, Deferred, Occupied, TypeOK
<1> QED
  BY <1>1, <1>5, <1>6, <1>7

\* A result no operation was started with is in no slot.
LEMMA UnusedInNoSlot ==
    ASSUME TypeOK, SlotsInv, NEW r \in Results,
           life[r] \notin {"running", "done", "deferred"}
    PROVE  InNoSlot(r)
  BY ProactorAssumption
  DEF InNoSlot, SlotsInv, Active, Deferred, Occupied, Slots, TypeOK

\* What startAio() of a new request leaves alone.
LEMMA StartRequest ==
    ASSUME TypeOK, TablesInv, NEW r \in Requests, life[r] = "unused", StartResult(r),
           UNCHANGED <<loop, activeList, current, called>>
    PROVE  TablesInv'
<1>1. r \in Results /\ InNoSlot(r)
  BY UnusedInNoSlot DEF Results, TablesInv
<1>2. SlotsInv'
  BY <1>1, StartResultSlots DEF TablesInv
<1>3. PICK i \in 0 .. MaxSize, state \in {"running", "deferred", "deleted"} :
         /\ resultList' \in {[resultList EXCEPT ![i] = r], [resultList EXCEPT ![i] = NoResult]}
         /\ life' = [life EXCEPT ![r] = state]
  BY DEF StartResult, StartAioOK, StartAioAgain, StartAioFail
<1>4. CurrentInv'
  BY <1>1, <1>3, ProactorAssumption DEF TablesInv, CurrentInv, InNoSlot, Slots, TypeOK
<1>5. SuspendedOnLive'
  BY <1>3 DEF TablesInv, SuspendedOnLive, TypeOK
<1>6. CalledInv'
  BY <1>1, <1>3 DEF TablesInv, CalledInv, TypeOK
<1> QED
  BY <1>2, <1>4, <1>5, <1>6 DEF TablesInv

\* The system finishes an operation.
LEMMA CompletionKeepsTables ==
    ASSUME TypeOK, TablesInv, NEW r \in Results, life[r] = "running",
           life' = [life EXCEPT ![r] = "done"],
           UNCHANGED <<aiocbList, resultList, loop, activeList, current, called>>
    PROVE  TablesInv'
<1>1. SlotsInv'
  BY ProactorAssumption
  DEF TablesInv, SlotsInv, Active, Deferred, Occupied, Slots, TypeOK
<1>2. CurrentInv' /\ SuspendedOnLive' /\ CalledInv'
  BY DEF TablesInv, CurrentInv, InNoSlot, SuspendedOnLive, CalledInv, TypeOK, Results
<1> QED
  BY <1>1, <1>2 DEF TablesInv

\* The constructor leaves the read of the notify pipe started, deferred or in no
\* table, and the counters as they should be.
LEMMA TablesInit ==
    ASSUME Init
    PROVE  /\ TablesInv
           /\ \/ /\ Active = {0} /\ Occupied = {0} /\ Deferred = {}
                 /\ numStarted = 1 /\ curSize = 1 /\ numDeferred = 0
              \/ /\ Active = {} /\ Occupied = {0} /\ Deferred = {0}
                 /\ numStarted = 0 /\ curSize = 1 /\ numDeferred = 1
              \/ /\ Active = {} /\ Occupied = {} /\ Deferred = {}
                 /\ numStarted = 0 /\ curSize = 0 /\ numDeferred = 0
<1>1. PICK answer \in {"ok", "again", "fail"} :
         /\ aiocbList = [i \in 0 .. MaxSize |->
                            IF i = 0 /\ answer = "ok" THEN Notify ELSE NoResult]
         /\ resultList = [i \in 0 .. MaxSize |->
                            IF i = 0 /\ answer # "fail" THEN Notify ELSE NoResult]
         /\ curSize = (IF answer = "fail" THEN 0 ELSE 1)
         /\ numDeferred = (IF answer = "again" THEN 1 ELSE 0)
         /\ numStarted = (IF answer = "ok" THEN 1 ELSE 0)
         /\ life = [r \in Results |-> IF r = Notify THEN FirstRead(answer) ELSE "unused"]
  BY ProactorAssumption DEF Init
<1>2. /\ 0 \in Slots /\ Notify \in Results /\ Notify # NoResult
      /\ \A i \in Slots : i \in 0 .. MaxSize
  BY ProactorAssumption DEF Slots, Results
<1>3. CurrentInv /\ SuspendedOnLive /\ CalledInv
  BY DEF Init, CurrentInv, SuspendedOnLive, CalledInv
<1>4. CASE answer = "ok"
  <2>1. \A i \in Slots : /\ aiocbList[i] = IF i = 0 THEN Notify ELSE NoResult
                         /\ resultList[i] = aiocbList[i]
    BY <1>1, <1>2, <1>4
  <2>2. Active = {0} /\ Occupied = {0} /\ Deferred = {}
    BY <1>2, <2>1 DEF Active, Occupied, Deferred
  <2>3. life[Notify] = "running"
    BY <1>1, <1>2, <1>4 DEF FirstRead
  <2>4. SlotsInv
    BY <1>2, <2>1, <2>2, <2>3 DEF SlotsInv
  <2> QED
    BY <1>1, <1>3, <1>4, <2>2, <2>4 DEF TablesInv
<1>5. CASE answer = "again"
  <2>1. \A i \in Slots : /\ resultList[i] = IF i = 0 THEN Notify ELSE NoResult
                         /\ aiocbList[i] = NoResult
    BY <1>1, <1>2, <1>5
  <2>2. Active = {} /\ Occupied = {0} /\ Deferred = {0}
    BY <1>2, <2>1 DEF Active, Occupied, Deferred
  <2>3. life[Notify] = "deferred"
    BY <1>1, <1>2, <1>5 DEF FirstRead
  <2>4. SlotsInv
    BY <1>2, <2>1, <2>2, <2>3 DEF SlotsInv
  <2> QED
    BY <1>1, <1>3, <1>5, <2>2, <2>4 DEF TablesInv
<1>6. CASE answer = "fail"
  <2>1. \A i \in Slots : aiocbList[i] = NoResult /\ resultList[i] = NoResult
    BY <1>1, <1>2, <1>6
  <2>2. Active = {} /\ Occupied = {} /\ Deferred = {}
    BY <2>1 DEF Active, Occupied, Deferred
  <2>3. SlotsInv
    BY <2>2 DEF SlotsInv
  <2> QED
    BY <1>1, <1>3, <1>6, <2>2, <2>3 DEF TablesInv
<1> QED
  BY <1>1, <1>4, <1>5, <1>6

\* Every step keeps the tables and the lives of the results in agreement.
LEMMA TablesStep == TypeOK /\ TablesInv /\ [Next]_vars => TablesInv'
<1> SUFFICES ASSUME TypeOK, TablesInv, [Next]_vars
             PROVE  TablesInv'
  OBVIOUS
<1>1. ASSUME NEW r \in Opened, Open(r)
      PROVE  TablesInv'
  <2>1. r \in Requests
    BY DEF Requests
  <2> QED
    BY <1>1, <2>1, StartRequest DEF Open
<1>2. ASSUME NEW r \in Chained, HandlerStarts(r)
      PROVE  TablesInv'
  <2>1. r \in Requests
    BY DEF Requests
  <2> QED
    BY <1>2, <2>1, StartRequest DEF HandlerStarts
<1>3. ASSUME NEW r \in Posted, PostCompletion(r)
      PROVE  TablesInv'
  <2>1. r \in Results /\ r \in Requests /\ life[r] = "unused"
    BY <1>3 DEF PostCompletion, Results, Requests
  <2>2. InNoSlot(r)
    BY <2>1, UnusedInNoSlot DEF TablesInv
  <2>3. SlotsInv'
    BY <1>3, <2>1, <2>2, ProactorAssumption
    DEF PostCompletion, tables, TablesInv, SlotsInv, InNoSlot, Active, Deferred,
        Occupied, Slots, TypeOK
  <2>4. CurrentInv' /\ SuspendedOnLive' /\ CalledInv'
    BY <1>3, <2>1
    DEF PostCompletion, tables, TablesInv, CurrentInv, InNoSlot, SuspendedOnLive,
        CalledInv, TypeOK
  <2> QED
    BY <2>3, <2>4 DEF TablesInv
<1>4. ASSUME NEW r \in Requests, KernelCompletes(r)
      PROVE  TablesInv'
  BY <1>4, CompletionKeepsTables DEF KernelCompletes, tables, Results
<1>5. CASE KernelReadsPipe
  BY <1>5, CompletionKeepsTables DEF KernelReadsPipe, tables, Results
<1>6. ASSUME UNCHANGED <<tables, life, activeList, current, called>>,
             loop' = "suspend" => loop = "suspend",
             loop' \in {"restart", "callback"} => loop \in {"restart", "callback"}
      PROVE  TablesInv'
  BY <1>6
  DEF tables, TablesInv, SlotsInv, CurrentInv, InNoSlot, SuspendedOnLive, CalledInv,
      Active, Deferred, Occupied
<1>7. CASE NotifyOpened \/ SuspendInterrupted \/ Exit \/ Suspended \/ FindNothing
  BY <1>6, <1>7
  DEF NotifyOpened, SuspendInterrupted, Exit, Suspended, FindNothing, tables
<1>8. CASE NoDeferredAio \/ DeferredAioAgain \/ DeferredAioMissing
  BY <1>6, <1>8 DEF NoDeferredAio, DeferredAioAgain, DeferredAioMissing, tables
<1>9. CASE BuildActiveList
  BY <1>9
  DEF BuildActiveList, tables, TablesInv, SlotsInv, CurrentInv, SuspendedOnLive,
      CalledInv, Active, Deferred, Occupied
<1>10. CASE FindCompletedAio
  <2>1. PICK i \in Completed :
           /\ current' = resultList[i]
           /\ aiocbList' = Taken(aiocbList, i)
           /\ resultList' = Taken(resultList, i)
    BY <1>10 DEF FindCompletedAio, Found
  <2>2. /\ i \in Active /\ i \in Occupied
        /\ resultList[i] \in Results
        /\ life[resultList[i]] = "done"
    BY ProactorAssumption
    DEF Completed, Active, Occupied, Slots, TypeOK, TablesInv, SlotsInv
  <2>3. UNCHANGED <<life, activeList, called>> /\ loop' = "restart"
    BY <1>10 DEF FindCompletedAio
  <2>4. SlotsInv'
    BY <2>1, <2>2, <2>3, ProactorAssumption
    DEF Taken, TablesInv, SlotsInv, Active, Deferred, Occupied, Slots, TypeOK
  <2>5. CurrentInv'
    BY <2>1, <2>2, <2>3, ProactorAssumption
    DEF Taken, TablesInv, SlotsInv, CurrentInv, InNoSlot, Occupied, Slots, TypeOK
  <2> QED
    BY <2>3, <2>4, <2>5 DEF TablesInv, SuspendedOnLive, CalledInv
<1>11. CASE DeferredAioOK
  <2>1. PICK i \in Deferred :
           /\ aiocbList' = [aiocbList EXCEPT ![i] = resultList[i]]
           /\ life' = [life EXCEPT ![resultList[i]] = "running"]
    BY <1>11 DEF DeferredAioOK
  <2>2. /\ i \in Occupied /\ resultList[i] \in Results
        /\ resultList[i] # current
        /\ life[resultList[i]] = "deferred"
    BY <1>11, ProactorAssumption
    DEF DeferredAioOK, Deferred, Occupied, Slots, TypeOK, TablesInv, SlotsInv,
        CurrentInv, InNoSlot
  <2>3. UNCHANGED <<resultList, activeList, current, called>>
        /\ loop = "restart" /\ loop' = "callback"
    BY <1>11 DEF DeferredAioOK
  <2>4. SlotsInv'
    BY <2>1, <2>2, <2>3, ProactorAssumption
    DEF TablesInv, SlotsInv, Active, Deferred, Occupied, Slots, TypeOK
  <2> QED
    BY <2>1, <2>2, <2>3, <2>4
    DEF TablesInv, CurrentInv, InNoSlot, SuspendedOnLive, CalledInv, TypeOK
<1>12. CASE DeferredAioFail
  <2>1. PICK i \in Deferred :
           /\ resultList' = Taken(resultList, i)
           /\ life' = [life EXCEPT ![resultList[i]] = "queued"]
    BY <1>12 DEF DeferredAioFail
  <2>2. /\ i \in Occupied /\ i \notin Active /\ resultList[i] \in Results
        /\ resultList[i] # current
        /\ life[resultList[i]] = "deferred"
    BY <1>12, ProactorAssumption
    DEF DeferredAioFail, Active, Deferred, Occupied, Slots, TypeOK, TablesInv,
        SlotsInv, CurrentInv, InNoSlot
  <2>3. UNCHANGED <<aiocbList, activeList, current, called>>
        /\ loop = "restart" /\ loop' = "callback"
    BY <1>12 DEF DeferredAioFail
  <2>4. SlotsInv'
    BY <2>1, <2>2, <2>3, ProactorAssumption
    DEF Taken, TablesInv, SlotsInv, Active, Deferred, Occupied, Slots, TypeOK
  <2>5. CurrentInv'
    BY <2>1, <2>2, <2>3, ProactorAssumption
    DEF Taken, TablesInv, CurrentInv, InNoSlot, Slots, TypeOK
  <2> QED
    BY <2>1, <2>2, <2>3, <2>4, <2>5
    DEF TablesInv, SuspendedOnLive, CalledInv, TypeOK
<1>13. CASE HandlerReturns
  <2>1. current \in Requests /\ life[current] = "done" /\ InNoSlot(current)
    BY <1>13 DEF HandlerReturns, TablesInv, CurrentInv, Results
  <2>2. SlotsInv'
    BY <1>13, <2>1, ProactorAssumption
    DEF HandlerReturns, tables, TablesInv, SlotsInv, InNoSlot, Active, Deferred,
        Occupied, Slots, TypeOK
  <2>3. CurrentInv' /\ SuspendedOnLive'
    BY <1>13 DEF HandlerReturns, CurrentInv, SuspendedOnLive
  <2>4. CalledInv'
    BY <1>13, <2>1 DEF HandlerReturns, TablesInv, CalledInv, TypeOK, Results
  <2> QED
    BY <2>2, <2>3, <2>4 DEF TablesInv
<1>14. CASE NotifyReturns
  <2>1. Notify \in Results /\ InNoSlot(Notify) /\ StartResult(Notify)
    BY <1>14 DEF NotifyReturns, TablesInv, CurrentInv, Results
  <2>2. SlotsInv'
    BY <2>1, StartResultSlots DEF TablesInv
  <2>3. PICK state : life' = [life EXCEPT ![Notify] = state]
    BY <2>1 DEF StartResult
  <2>4. CurrentInv' /\ SuspendedOnLive'
    BY <1>14 DEF NotifyReturns, CurrentInv, SuspendedOnLive
  <2>5. CalledInv'
    BY <1>14, <2>3, ProactorAssumption
    DEF NotifyReturns, TablesInv, CalledInv, TypeOK, Results
  <2> QED
    BY <2>2, <2>4, <2>5 DEF TablesInv
<1>15. CASE UNCHANGED vars
  BY <1>6, <1>15 DEF vars, tables
<1> QED
  BY <1>1, <1>2, <1>3, <1>4, <1>5, <1>7, <1>8, <1>9, <1>10, <1>11, <1>12, <1>13,
     <1>14, <1>15
  DEF Next, EventLoop, StartDeferredAio

\* Every state of the Proactor is well typed: a slot holds a result or nothing, and
\* between taking a completed operation out of the tables and the return of its
\* handler the loop has a result in hand, never the null pointer the slot is left with.
THEOREM TypeCorrect == Spec => []TypeOK
<1>1. Init => TypeOK /\ TablesInv
  BY TypeInit, TablesInit
<1>2. TypeOK /\ TablesInv /\ [Next]_vars => (TypeOK /\ TablesInv)'
  BY TypeStep, TablesStep
<1> QED
  BY <1>1, <1>2, PTL DEF Spec

\* The tables and the lives of the results agree in every state, through lost
\* deferred operations and stores past the end of the tables alike.
THEOREM TablesInvHolds == Spec => []TablesInv
<1>1. Init => TablesInv
  BY TablesInit
<1>2. TypeOK /\ TablesInv /\ [Next]_vars => TablesInv'
  BY TablesStep
<1> QED
  BY <1>1, <1>2, TypeCorrect, PTL DEF Spec

\* A started operation is in both tables at its slot and alive, and no result is
\* in two slots.
THEOREM TablesAgreeHolds == Spec => []TablesAgree
<1>1. TablesInv => TablesAgree
  BY DEF TablesInv, SlotsInv, TablesAgree
<1> QED
  BY <1>1, TablesInvHolds, PTL

\* aio_suspend() waits on live results only.
THEOREM SuspendedOnLiveHolds == Spec => []SuspendedOnLive
<1>1. TablesInv => SuspendedOnLive
  BY DEF TablesInv
<1> QED
  BY <1>1, TablesInvHolds, PTL

\* The completion handler is called for an operation that is done and forgotten
\* by both tables, and for none a second time.
THEOREM DispatchedOnceHolds == Spec => []DispatchedOnce
<1>1. TypeOK /\ TablesInv => DispatchedOnce
  BY ProactorAssumption
  DEF TypeOK, TablesInv, SlotsInv, CurrentInv, CalledInv, InNoSlot, DispatchedOnce,
      Active, Slots
<1> QED
  BY <1>1, TypeCorrect, TablesInvHolds, PTL

-------------------------------------------------------------------------------
\* The tables are finite, and so is whatever is selected from them.
LEMMA SlotSetFinite ==
    ASSUME NEW S \in SUBSET Slots
    PROVE  IsFiniteSet(S) /\ Cardinality(S) \in Nat
<1>1. IsFiniteSet(Slots)
  BY ProactorAssumption, FS_Interval DEF Slots
<1> QED
  BY <1>1, FS_Subset, FS_CardinalityType

\* One more slot counts one more, or was there already.
LEMMA OneMore ==
    ASSUME NEW S, NEW x, IsFiniteSet(S)
    PROVE  /\ IsFiniteSet(S \cup {x})
           /\ Cardinality(S) \in Nat /\ Cardinality(S \cup {x}) \in Nat
           /\ Cardinality(S \cup {x}) <= Cardinality(S) + 1
           /\ x \notin S => Cardinality(S \cup {x}) = Cardinality(S) + 1
<1>1. IsFiniteSet(S \cup {x})
  BY FS_AddElement
<1>2. Cardinality(S) \in Nat /\ Cardinality(S \cup {x}) \in Nat
  BY <1>1, FS_CardinalityType
<1>3. Cardinality(S \cup {x}) = IF x \in S THEN Cardinality(S) ELSE Cardinality(S) + 1
  BY FS_AddElement
<1> QED
  BY <1>1, <1>2, <1>3

\* One slot less counts one less.
LEMMA OneLess ==
    ASSUME NEW S, NEW x \in S, IsFiniteSet(S)
    PROVE  /\ IsFiniteSet(S \ {x})
           /\ Cardinality(S) \in Nat /\ Cardinality(S \ {x}) \in Nat
           /\ Cardinality(S \ {x}) = Cardinality(S) - 1
<1>1. IsFiniteSet(S \ {x})
  BY FS_RemoveElement
<1>2. Cardinality(S) \in Nat /\ Cardinality(S \ {x}) \in Nat
  BY <1>1, FS_CardinalityType
<1>3. Cardinality(S \ {x}) = Cardinality(S) - 1
  BY FS_RemoveElement
<1> QED
  BY <1>1, <1>2, <1>3

\* The two properties of the counters, which are inductive together.
CountInv == StartedCounted /\ NoUnderflow

\* What startAio() does to the counters.
LEMMA StartResultCounts ==
    ASSUME TypeOK, SlotsInv, CountInv, NEW r \in Results, InNoSlot(r), StartResult(r)
    PROVE  CountInv'
<1>1. PICK i \in 0 .. MaxSize :
         /\ AllocateAioSlot(r, i)
         /\ overflowed' = (overflowed \/ i = MaxSize)
         /\ StartAioOK(r, i) \/ StartAioAgain(r, i) \/ StartAioFail(r, i)
  BY DEF StartResult
<1>2. /\ i \in Slots => aiocbList[i] = NoResult
      /\ i \notin Slots => i = MaxSize
  BY <1>1, AllocatedIsFree
<1>3. /\ Active \in SUBSET Slots /\ Occupied \in SUBSET Slots
      /\ Active' \in SUBSET Slots /\ Occupied' \in SUBSET Slots
      /\ \A j \in Slots : j \in 0 .. MaxSize
  BY ProactorAssumption DEF Active, Occupied, Slots
<1>4. /\ IsFiniteSet(Active) /\ Cardinality(Active) \in Nat
      /\ IsFiniteSet(Occupied) /\ Cardinality(Occupied) \in Nat
  BY <1>3, SlotSetFinite
<1>5. /\ curSize \in Int /\ numStarted \in Int /\ numDeferred \in Int
      /\ curSize >= Cardinality(Occupied)
      /\ numStarted >= Cardinality(Active)
      /\ numDeferred >= 0
  BY DEF TypeOK, CountInv, NoUnderflow
<1>6. r # NoResult
  BY ProactorAssumption
<1>7. CASE StartAioOK(r, i) /\ i \in Slots
  <2>1. Active' = Active \cup {i} /\ i \notin Active /\ Occupied' = Occupied \cup {i}
    BY <1>2, <1>3, <1>6, <1>7 DEF StartAioOK, Active, Occupied, TypeOK
  <2>2. /\ Cardinality(Active') = Cardinality(Active) + 1
        /\ Cardinality(Occupied') <= Cardinality(Occupied) + 1
        /\ Cardinality(Occupied') \in Nat
    BY <1>4, <2>1, OneMore
  <2>3. numStarted = Cardinality(Active) => numStarted' = Cardinality(Active')
    BY <1>7, <2>2 DEF StartAioOK
  <2>4. NoUnderflow'
    BY <1>4, <1>5, <1>7, <2>2 DEF StartAioOK, NoUnderflow
  <2> QED
    BY <1>1, <2>3, <2>4 DEF CountInv, StartedCounted
<1>8. CASE StartAioOK(r, i) /\ i \notin Slots
  <2>1. Active' = Active /\ Occupied' = Occupied
    BY <1>3, <1>8 DEF StartAioOK, Active, Occupied, TypeOK
  <2>2. NoUnderflow'
    BY <1>4, <1>5, <1>8, <2>1 DEF StartAioOK, NoUnderflow
  <2> QED
    BY <1>1, <1>2, <1>8, <2>2 DEF CountInv, StartedCounted
<1>9. CASE StartAioAgain(r, i)
  <2>1. Active' = Active /\ Occupied' \subseteq Occupied \cup {i}
    BY <1>3, <1>9 DEF StartAioAgain, Active, Occupied, TypeOK
  <2>2. /\ IsFiniteSet(Occupied \cup {i})
        /\ Cardinality(Occupied \cup {i}) \in Nat
        /\ Cardinality(Occupied \cup {i}) <= Cardinality(Occupied) + 1
    BY <1>4, OneMore
  <2>3. /\ Cardinality(Occupied') <= Cardinality(Occupied \cup {i})
        /\ Cardinality(Occupied') \in Nat
    BY <2>1, <2>2, FS_Subset, FS_CardinalityType
  <2>4. NoUnderflow'
    BY <1>4, <1>5, <1>9, <2>1, <2>2, <2>3 DEF StartAioAgain, NoUnderflow
  <2> QED
    BY <1>1, <1>9, <2>1, <2>4 DEF StartAioAgain, CountInv, StartedCounted
<1>10. CASE StartAioFail(r, i)
  <2>1. Active' = Active /\ Occupied' \subseteq Occupied
    BY <1>3, <1>10 DEF StartAioFail, Active, Occupied, TypeOK
  <2>2. Cardinality(Occupied') <= Cardinality(Occupied) /\ Cardinality(Occupied') \in Nat
    BY <1>4, <2>1, FS_Subset, FS_CardinalityType
  <2>3. NoUnderflow'
    BY <1>4, <1>5, <1>10, <2>1, <2>2 DEF StartAioFail, NoUnderflow
  <2> QED
    BY <1>1, <1>10, <2>1, <2>3 DEF StartAioFail, CountInv, StartedCounted
<1> QED
  BY <1>1, <1>7, <1>8, <1>9, <1>10

\* The count of started operations is exact until a store leaves the tables, and
\* no counter ever falls below what the tables hold.
LEMMA CountInvHolds == Spec => []CountInv
<1>1. Init => CountInv
  <2> SUFFICES ASSUME Init
               PROVE  CountInv
    OBVIOUS
  <2>1. Cardinality({0}) = 1 /\ Cardinality({}) = 0
    BY FS_Singleton, FS_EmptySet
  <2> QED
    BY <2>1, TablesInit DEF CountInv, StartedCounted, NoUnderflow
<1>2. TypeOK /\ TablesInv /\ CountInv /\ [Next]_vars => CountInv'
  <2> SUFFICES ASSUME TypeOK, TablesInv, CountInv, [Next]_vars
               PROVE  CountInv'
    OBVIOUS
  <2> DEFINE Untouched == UNCHANGED <<aiocbList, resultList, curSize, numDeferred, numStarted, overflowed>>
  <2>1. ASSUME NEW r \in Requests, life[r] = "unused", StartResult(r)
        PROVE  CountInv'
    <3>1. r \in Results /\ InNoSlot(r)
      BY <2>1, UnusedInNoSlot DEF Results, TablesInv
    <3> QED
      BY <2>1, <3>1, StartResultCounts DEF TablesInv
  <2>2. ASSUME NEW r \in Opened, Open(r)
        PROVE  CountInv'
    BY <2>1, <2>2 DEF Open, Requests
  <2>3. ASSUME NEW r \in Chained, HandlerStarts(r)
        PROVE  CountInv'
    BY <2>1, <2>3 DEF HandlerStarts, Requests
  <2>4. CASE NotifyReturns
    <3>1. Notify \in Results /\ InNoSlot(Notify) /\ StartResult(Notify)
      BY <2>4 DEF NotifyReturns, TablesInv, CurrentInv, Results
    <3> QED
      BY <3>1, StartResultCounts DEF TablesInv
  <2>5. CASE Untouched
    BY <2>5 DEF CountInv, StartedCounted, NoUnderflow, Active, Occupied
  <2>6. ASSUME NEW r \in Requests, KernelCompletes(r) \/ (r \in Posted /\ PostCompletion(r))
        PROVE  CountInv'
    BY <2>5, <2>6 DEF KernelCompletes, PostCompletion, tables
  <2>7. CASE \/ NotifyOpened \/ KernelReadsPipe \/ SuspendInterrupted \/ Exit
             \/ BuildActiveList \/ Suspended \/ FindNothing
    BY <2>5, <2>7
    DEF NotifyOpened, KernelReadsPipe, SuspendInterrupted, Exit, BuildActiveList,
        Suspended, FindNothing, tables
  <2>8. CASE NoDeferredAio \/ DeferredAioAgain \/ DeferredAioMissing \/ HandlerReturns
    BY <2>5, <2>8
    DEF NoDeferredAio, DeferredAioAgain, DeferredAioMissing, HandlerReturns, tables
  <2>9. /\ Active \in SUBSET Slots /\ Occupied \in SUBSET Slots
        /\ \A j \in Slots : j \in 0 .. MaxSize
    BY ProactorAssumption DEF Active, Occupied, Slots
  <2>10. /\ IsFiniteSet(Active) /\ Cardinality(Active) \in Nat
         /\ IsFiniteSet(Occupied) /\ Cardinality(Occupied) \in Nat
    BY <2>9, SlotSetFinite
  <2>11. /\ curSize \in Int /\ numStarted \in Int /\ numDeferred \in Int
         /\ curSize >= Cardinality(Occupied)
         /\ numStarted >= Cardinality(Active)
         /\ numDeferred >= 0
    BY DEF TypeOK, CountInv, NoUnderflow
  <2>12. CASE FindCompletedAio
    <3>1. PICK i \in Completed :
             aiocbList' = Taken(aiocbList, i) /\ resultList' = Taken(resultList, i)
      BY <2>12 DEF FindCompletedAio
    <3>2. i \in Active /\ i \in Occupied
      BY <2>9, ProactorAssumption
      DEF Completed, Active, Occupied, TypeOK, TablesInv, SlotsInv
    <3>3. Active' = Active \ {i} /\ Occupied' = Occupied \ {i}
      BY <2>9, <3>1, <3>2 DEF Taken, Active, Occupied, TypeOK
    <3>4. /\ Cardinality(Active') = Cardinality(Active) - 1
          /\ Cardinality(Occupied') = Cardinality(Occupied) - 1
      BY <2>10, <3>2, <3>3, OneLess
    <3>5. numStarted = Cardinality(Active) => numStarted' = Cardinality(Active')
      BY <2>12, <3>4 DEF FindCompletedAio
    <3>6. NoUnderflow'
      BY <2>10, <2>11, <2>12, <3>4 DEF FindCompletedAio, NoUnderflow
    <3> QED
      BY <2>12, <3>5, <3>6 DEF FindCompletedAio, CountInv, StartedCounted
  <2>13. CASE DeferredAioOK
    <3>1. PICK i \in Deferred : aiocbList' = [aiocbList EXCEPT ![i] = resultList[i]]
      BY <2>13 DEF DeferredAioOK
    <3>2. Active' = Active \cup {i} /\ i \notin Active /\ Occupied' = Occupied
      BY <2>9, <2>13, <3>1 DEF DeferredAioOK, Deferred, Active, Occupied, TypeOK
    <3>3. Cardinality(Active') = Cardinality(Active) + 1
      BY <2>10, <3>2, OneMore
    <3>4. numStarted = Cardinality(Active) => numStarted' = Cardinality(Active')
      BY <2>13, <3>3 DEF DeferredAioOK
    <3>5. NoUnderflow'
      BY <2>10, <2>11, <2>13, <3>2, <3>3 DEF DeferredAioOK, NoUnderflow
    <3> QED
      BY <2>13, <3>4, <3>5 DEF DeferredAioOK, CountInv, StartedCounted
  <2>14. CASE DeferredAioFail
    <3>1. PICK i \in Deferred : resultList' = Taken(resultList, i)
      BY <2>14 DEF DeferredAioFail
    <3>2. i \in Occupied /\ Occupied' = Occupied \ {i} /\ Active' = Active
      BY <2>9, <2>14, <3>1 DEF DeferredAioFail, Taken, Deferred, Active, Occupied, TypeOK
    <3>3. Cardinality(Occupied') = Cardinality(Occupied) - 1
      BY <2>10, <3>2, OneLess
    <3>4. NoUnderflow'
      BY <2>10, <2>11, <2>14, <3>2, <3>3 DEF DeferredAioFail, NoUnderflow
    <3> QED
      BY <2>14, <3>2, <3>4 DEF DeferredAioFail, CountInv, StartedCounted
  <2>15. CASE UNCHANGED vars
    BY <2>5, <2>15 DEF vars
  <2> QED
    BY <2>2, <2>3, <2>4, <2>6, <2>7, <2>8, <2>12, <2>13, <2>14, <2>15
    DEF Next, EventLoop, StartDeferredAio, Requests
<1> QED
  BY <1>1, <1>2, TypeCorrect, TablesInvHolds, PTL DEF Spec

\* mNumStartedAio, for which findCompletedAio() skips the whole table when it is
\* 0, is the number of started operations unless a store left the tables.
THEOREM StartedCountedHolds == Spec => []StartedCounted
<1>1. CountInv => StartedCounted
  BY DEF CountInv
<1> QED
  BY <1>1, CountInvHolds, PTL

\* None of the three unsigned counters is ever taken below zero.
THEOREM NoUnderflowHolds == Spec => []NoUnderflow
<1>1. CountInv => NoUnderflow
  BY DEF CountInv
<1> QED
  BY <1>1, CountInvHolds, PTL

-------------------------------------------------------------------------------
\* startAio() of one result does not find another one that was lost.
LEMMA StartLeavesLost ==
    ASSUME TypeOK, NEW r \in Results, NEW q \in Results, q # r, StartResult(r), Lost(q)
    PROVE  Lost(q)'
<1>1. PICK i \in 0 .. MaxSize, state \in {"running", "deferred", "deleted"} :
         /\ \/ resultList' = [resultList EXCEPT ![i] = r]
            \/ resultList' = [resultList EXCEPT ![i] = NoResult]
         /\ life' = [life EXCEPT ![r] = state]
  BY DEF StartResult, StartAioOK, StartAioAgain, StartAioFail
<1>2. life'[q] = "deferred"
  BY <1>1 DEF Lost, TypeOK
<1>3. \A j \in Slots : j \in 0 .. MaxSize /\ (resultList[j] # NoResult => resultList[j] # q)
  BY ProactorAssumption DEF Lost, Occupied, Slots
<1>4. \A j \in Slots : resultList'[j] # NoResult => resultList'[j] # q
  BY <1>1, <1>3 DEF TypeOK
<1> QED
  BY <1>2, <1>4 DEF Lost, Occupied

\* A deferred result that no table knows is never found again.
LEMMA LostStays ==
    ASSUME TypeOK, TablesInv, [Next]_vars, NEW q \in Results, Lost(q)
    PROVE  Lost(q)'
<1>1. life[q] = "deferred" /\ \A j \in Slots : resultList[j] # NoResult => resultList[j] # q
  BY DEF Lost, Occupied
<1>2. ASSUME UNCHANGED resultList, life'[q] = life[q]
      PROVE  Lost(q)'
  BY <1>2 DEF Lost, Occupied
<1>3. ASSUME NEW r \in Results, StartResult(r), life[r] # "deferred"
      PROVE  Lost(q)'
  BY <1>1, <1>3, StartLeavesLost
<1>4. ASSUME NEW r \in Opened, Open(r)
      PROVE  Lost(q)'
  BY <1>3, <1>4 DEF Open, Results, Requests
<1>5. ASSUME NEW r \in Chained, HandlerStarts(r)
      PROVE  Lost(q)'
  BY <1>3, <1>5 DEF HandlerStarts, Results, Requests
<1>6. CASE NotifyReturns
  BY <1>3, <1>6 DEF NotifyReturns, Results, TablesInv, CurrentInv
<1>7. ASSUME NEW r \in Results, life[r] # "deferred", NEW state,
             life' = [life EXCEPT ![r] = state], UNCHANGED resultList
      PROVE  Lost(q)'
  BY <1>1, <1>2, <1>7 DEF TypeOK
<1>8. ASSUME NEW r \in Requests, KernelCompletes(r) \/ (r \in Posted /\ PostCompletion(r))
      PROVE  Lost(q)'
  BY <1>7, <1>8 DEF KernelCompletes, PostCompletion, tables, Results
<1>9. CASE KernelReadsPipe
  BY <1>7, <1>9 DEF KernelReadsPipe, tables, Results
<1>10. CASE HandlerReturns
  BY <1>7, <1>10 DEF HandlerReturns, tables, TablesInv, CurrentInv
<1>11. CASE FindCompletedAio
  <2>1. PICK i \in Completed : resultList' = Taken(resultList, i)
    BY <1>11 DEF FindCompletedAio
  <2>2. \A j \in Slots : j \in 0 .. MaxSize
    BY ProactorAssumption DEF Slots
  <2>3. \A j \in Slots : resultList'[j] # NoResult => resultList'[j] # q
    BY <1>1, <2>1, <2>2 DEF Taken, TypeOK
  <2>4. life'[q] = "deferred"
    BY <1>1, <1>11 DEF FindCompletedAio
  <2> QED
    BY <2>3, <2>4 DEF Lost, Occupied
<1>12. CASE DeferredAioOK \/ DeferredAioFail
  <2>1. PICK i \in Deferred, state \in {"running", "queued"} :
           /\ resultList' = resultList \/ resultList' = Taken(resultList, i)
           /\ life' = [life EXCEPT ![resultList[i]] = state]
    BY <1>12 DEF DeferredAioOK, DeferredAioFail
  <2>2. resultList[i] # q /\ \A j \in Slots : j \in 0 .. MaxSize
    BY <1>1, ProactorAssumption DEF Deferred, Slots
  <2>3. life'[q] = "deferred"
    BY <1>1, <2>1, <2>2 DEF TypeOK
  <2>4. \A j \in Slots : resultList'[j] # NoResult => resultList'[j] # q
    BY <1>1, <2>1, <2>2 DEF Taken, TypeOK
  <2> QED
    BY <2>3, <2>4 DEF Lost, Occupied
<1>13. CASE \/ NotifyOpened \/ SuspendInterrupted \/ Exit \/ BuildActiveList \/ Suspended
            \/ FindNothing \/ NoDeferredAio \/ DeferredAioAgain \/ DeferredAioMissing
  BY <1>2, <1>13
  DEF NotifyOpened, SuspendInterrupted, Exit, BuildActiveList, Suspended, FindNothing,
      NoDeferredAio, DeferredAioAgain, DeferredAioMissing, tables
<1>14. CASE UNCHANGED vars
  BY <1>2, <1>14 DEF vars
<1> QED
  BY <1>4, <1>5, <1>6, <1>8, <1>9, <1>10, <1>11, <1>12, <1>13, <1>14
  DEF Next, EventLoop, StartDeferredAio, Requests

\* allocateAioSlot() takes the slot of a deferred result, which aiocbList does not
\* show, and that result is lost; where none is, the slot is free in both tables.
LEMMA SlotWasEmpty ==
    ASSUME TypeOK, SlotsInv, NEW r \in Results, InNoSlot(r), life[r] # "deferred",
           StartResult(r), \A q \in Results : ~Lost(q)', ~overflowed'
    PROVE  \E i \in Slots :
              /\ resultList[i] = NoResult /\ aiocbList[i] = NoResult
              /\ StartAioOK(r, i) \/ StartAioAgain(r, i) \/ StartAioFail(r, i)
<1>1. PICK i \in 0 .. MaxSize, state \in {"running", "deferred", "deleted"} :
         /\ AllocateAioSlot(r, i)
         /\ overflowed' = (overflowed \/ i = MaxSize)
         /\ StartAioOK(r, i) \/ StartAioAgain(r, i) \/ StartAioFail(r, i)
         /\ life' = [life EXCEPT ![r] = state]
  BY DEF StartResult
<1>2. i \in Slots /\ aiocbList[i] = NoResult
  BY <1>1, AllocatedIsFree, ProactorAssumption DEF Slots
<1>3. ASSUME resultList[i] # NoResult
      PROVE  FALSE
  <2>1. PICK q \in Results : q = resultList[i] /\ q # r /\ life[q] = "deferred"
    BY <1>2, <1>3, ProactorAssumption DEF SlotsInv, Deferred, InNoSlot, Slots, TypeOK
  <2>2. \A j \in Slots : j # i => resultList[j] # q
    BY <1>2, <1>3, <2>1 DEF SlotsInv, Occupied
  <2>3. \A j \in Slots : /\ j \in 0 .. MaxSize
                         /\ j # i => resultList'[j] = resultList[j]
                         /\ resultList'[i] \in {r, NoResult}
    BY <1>1, ProactorAssumption DEF StartAioOK, StartAioAgain, StartAioFail, Slots, TypeOK
  <2>4. \A j \in Slots : resultList'[j] # q
    BY <1>3, <2>1, <2>2, <2>3
  <2>5. life'[q] = "deferred"
    BY <1>1, <2>1 DEF TypeOK
  <2>6. Lost(q)'
    BY <2>4, <2>5 DEF Lost, Occupied
  <2> QED
    BY <2>1, <2>6
<1> QED
  BY <1>1, <1>2, <1>3

\* What startAio() does to the other two counters.
LEMMA StartResultExact ==
    ASSUME TypeOK, SlotsInv, NEW r \in Results, InNoSlot(r), life[r] # "deferred",
           StartResult(r), \A q \in Results : ~Lost(q)', ~overflowed',
           curSize = Cardinality(Occupied), numDeferred = Cardinality(Deferred)
    PROVE  curSize' = Cardinality(Occupied') /\ numDeferred' = Cardinality(Deferred')
<1>1. PICK i \in Slots :
         /\ resultList[i] = NoResult /\ aiocbList[i] = NoResult
         /\ StartAioOK(r, i) \/ StartAioAgain(r, i) \/ StartAioFail(r, i)
  BY SlotWasEmpty
<1>2. i \notin Occupied /\ i \notin Deferred
  BY <1>1 DEF Occupied, Deferred
<1>3. /\ Occupied \in SUBSET Slots /\ Deferred \in SUBSET Slots
      /\ \A j \in Slots : j \in 0 .. MaxSize
  BY ProactorAssumption DEF Occupied, Deferred, Slots
<1>4. /\ Cardinality(Occupied \cup {i}) = Cardinality(Occupied) + 1
      /\ Cardinality(Deferred \cup {i}) = Cardinality(Deferred) + 1
  BY <1>2, <1>3, SlotSetFinite, OneMore
<1>5. r # NoResult
  BY ProactorAssumption
<1>6. CASE StartAioOK(r, i)
  <2>1. Occupied' = Occupied \cup {i} /\ Deferred' = Deferred
    BY <1>1, <1>3, <1>5, <1>6 DEF StartAioOK, Occupied, Deferred, TypeOK
  <2> QED
    BY <1>4, <1>6, <2>1 DEF StartAioOK
<1>7. CASE StartAioAgain(r, i)
  <2>1. Occupied' = Occupied \cup {i} /\ Deferred' = Deferred \cup {i}
    BY <1>1, <1>3, <1>5, <1>7 DEF StartAioAgain, Occupied, Deferred, TypeOK
  <2> QED
    BY <1>4, <1>7, <2>1 DEF StartAioAgain
<1>8. CASE StartAioFail(r, i)
  <2>1. Occupied' = Occupied /\ Deferred' = Deferred
    BY <1>1, <1>3, <1>5, <1>8 DEF StartAioFail, Occupied, Deferred, TypeOK
  <2> QED
    BY <1>8, <2>1 DEF StartAioFail
<1> QED
  BY <1>1, <1>6, <1>7, <1>8

\* mAiocbListCurSize and mNumDeferredAiocb are what the tables hold until a deferred
\* operation is lost or a store leaves the tables.
THEOREM CountersExactHolds == Spec => []CountersExact
<1>1. Init => CountersExact
  <2> SUFFICES ASSUME Init
               PROVE  CountersExact
    OBVIOUS
  <2>1. Cardinality({0}) = 1 /\ Cardinality({}) = 0
    BY FS_Singleton, FS_EmptySet
  <2> QED
    BY <2>1, TablesInit DEF CountersExact
<1>2. TypeOK /\ TablesInv /\ CountersExact /\ [Next]_vars => CountersExact'
  <2> DEFINE Exact == curSize = Cardinality(Occupied) /\ numDeferred = Cardinality(Deferred)
  <2> SUFFICES ASSUME TypeOK, TablesInv, CountersExact, [Next]_vars,
                      ~overflowed', \A q \in Results : ~Lost(q)'
               PROVE  Exact'
    BY DEF CountersExact
  <2>1. ~overflowed
    BY DEF Next, EventLoop, StartDeferredAio, Open, NotifyOpened, PostCompletion,
           KernelCompletes, KernelReadsPipe, HandlerStarts, StartResult, SuspendInterrupted,
           Exit, BuildActiveList, Suspended, FindNothing, FindCompletedAio, NoDeferredAio,
           DeferredAioOK, DeferredAioAgain, DeferredAioFail, DeferredAioMissing,
           HandlerReturns, NotifyReturns, vars
  <2>2. Exact
    BY <2>1, LostStays DEF CountersExact
  <2> HIDE DEF Exact
  <2>3. ASSUME NEW r \in Results, InNoSlot(r), life[r] # "deferred", StartResult(r)
        PROVE  Exact'
    BY <2>2, <2>3, StartResultExact DEF Exact, TablesInv
  <2>4. ASSUME NEW r \in Requests, life[r] = "unused", StartResult(r)
        PROVE  Exact'
    BY <2>3, <2>4, UnusedInNoSlot DEF Results, TablesInv
  <2>5. ASSUME NEW r \in Opened, Open(r)
        PROVE  Exact'
    BY <2>4, <2>5 DEF Open, Requests
  <2>6. ASSUME NEW r \in Chained, HandlerStarts(r)
        PROVE  Exact'
    BY <2>4, <2>6 DEF HandlerStarts, Requests
  <2>7. CASE NotifyReturns
    BY <2>3, <2>7 DEF NotifyReturns, TablesInv, CurrentInv, Results
  <2>8. CASE UNCHANGED <<aiocbList, resultList, curSize, numDeferred>>
    BY <2>2, <2>8 DEF Exact, Occupied, Deferred
  <2>9. ASSUME NEW r \in Requests, KernelCompletes(r) \/ (r \in Posted /\ PostCompletion(r))
        PROVE  Exact'
    BY <2>8, <2>9 DEF KernelCompletes, PostCompletion, tables
  <2>10. CASE \/ NotifyOpened \/ KernelReadsPipe \/ SuspendInterrupted \/ Exit
              \/ BuildActiveList \/ Suspended \/ FindNothing
    BY <2>8, <2>10
    DEF NotifyOpened, KernelReadsPipe, SuspendInterrupted, Exit, BuildActiveList,
        Suspended, FindNothing, tables
  <2>11. CASE NoDeferredAio \/ DeferredAioAgain \/ DeferredAioMissing \/ HandlerReturns
    BY <2>8, <2>11
    DEF NoDeferredAio, DeferredAioAgain, DeferredAioMissing, HandlerReturns, tables
  <2>12. /\ Occupied \in SUBSET Slots /\ Deferred \in SUBSET Slots
         /\ \A j \in Slots : j \in 0 .. MaxSize
    BY ProactorAssumption DEF Occupied, Deferred, Slots
  <2>13. IsFiniteSet(Occupied) /\ IsFiniteSet(Deferred)
    BY <2>12, SlotSetFinite
  <2>14. CASE FindCompletedAio
    <3>1. PICK i \in Completed :
             aiocbList' = Taken(aiocbList, i) /\ resultList' = Taken(resultList, i)
      BY <2>14 DEF FindCompletedAio
    <3>2. i \in Occupied /\ i \notin Deferred
      BY <2>12, ProactorAssumption
      DEF Completed, Active, Occupied, Deferred, TypeOK, TablesInv, SlotsInv
    <3>3. Occupied' = Occupied \ {i} /\ Deferred' = Deferred
      BY <2>12, <3>1, <3>2 DEF Taken, Occupied, Deferred, TypeOK
    <3> QED
      BY <2>2, <2>13, <2>14, <3>2, <3>3, OneLess DEF Exact, FindCompletedAio
  <2>15. CASE DeferredAioOK
    <3>1. PICK i \in Deferred : aiocbList' = [aiocbList EXCEPT ![i] = resultList[i]]
      BY <2>15 DEF DeferredAioOK
    <3>2. Occupied' = Occupied /\ Deferred' = Deferred \ {i}
      BY <2>12, <2>15, <3>1 DEF DeferredAioOK, Occupied, Deferred, TypeOK
    <3> QED
      BY <2>2, <2>13, <2>15, <3>1, <3>2, OneLess DEF Exact, DeferredAioOK
  <2>16. CASE DeferredAioFail
    <3>1. PICK i \in Deferred : resultList' = Taken(resultList, i)
      BY <2>16 DEF DeferredAioFail
    <3>2. i \in Occupied /\ Occupied' = Occupied \ {i} /\ Deferred' = Deferred \ {i}
      BY <2>12, <2>16, <3>1 DEF DeferredAioFail, Taken, Occupied, Deferred, TypeOK
    <3> QED
      BY <2>2, <2>13, <2>16, <3>1, <3>2, OneLess DEF Exact, DeferredAioFail
  <2>17. CASE UNCHANGED vars
    BY <2>8, <2>17 DEF vars
  <2> QED
    BY <2>5, <2>6, <2>7, <2>9, <2>10, <2>11, <2>14, <2>15, <2>16, <2>17
    DEF Next, EventLoop, StartDeferredAio, Requests
<1> QED
  BY <1>1, <1>2, TypeCorrect, TablesInvHolds, PTL DEF Spec

-------------------------------------------------------------------------------
\* An operation started too late for the list aio_suspend() sleeps on has a
\* wakeup on its way, as long as the list holds the read of the notify pipe.
THEOREM WakeupPendingHolds == Spec => []WakeupPending
<1>1. Init => WakeupPending
  BY DEF Init, WakeupPending
<1>2. TypeOK /\ WakeupPending /\ [Next]_vars => WakeupPending'
  <2> SUFFICES ASSUME TypeOK, WakeupPending, [Next]_vars, loop' = "suspend"
               PROVE  WakeupPending'
    BY DEF WakeupPending
  <2>1. ASSUME NEW r \in Opened, Open(r)
        PROVE  WakeupPending'
    BY <2>1 DEF Open, WakeupPending
  <2>2. CASE NotifyOpened \/ \E r \in Posted : PostCompletion(r)
    <3>1. pipe' = pipe + 1 /\ pipe \in Nat
      BY <2>2 DEF NotifyOpened, PostCompletion, NotifyByte, TypeOK
    <3>2. pipe' > 0
      BY <3>1
    <3> QED
      BY <3>2 DEF WakeupPending
  <2>3. ASSUME NEW r \in Requests, KernelCompletes(r)
        PROVE  WakeupPending'
    <3>1. life'[Notify] = life[Notify]
      BY <2>3, ProactorAssumption DEF KernelCompletes, TypeOK, Results
    <3> QED
      BY <2>3, <3>1 DEF KernelCompletes, tables, WakeupPending, Active
  <2>4. CASE KernelReadsPipe
    <3>1. life'[Notify] = "done"
      BY <2>4 DEF KernelReadsPipe, TypeOK, Results
    <3> QED
      BY <3>1 DEF WakeupPending
  <2>5. CASE BuildActiveList
    <3>1. \A i \in Active' : aiocbList'[i] \in activeList'
      BY <2>5 DEF BuildActiveList, tables, Active
    <3> QED
      BY <3>1 DEF WakeupPending
  <2>6. CASE \/ SuspendInterrupted \/ Exit \/ Suspended \/ FindNothing
             \/ FindCompletedAio \/ HandlerReturns \/ NotifyReturns
             \/ \E r \in Chained : HandlerStarts(r)
    BY <2>6
    DEF SuspendInterrupted, Exit, Suspended, FindNothing, FindCompletedAio,
        HandlerReturns, NotifyReturns, HandlerStarts
  <2>7. CASE StartDeferredAio
    BY <2>7
    DEF StartDeferredAio, NoDeferredAio, DeferredAioOK, DeferredAioAgain,
        DeferredAioFail, DeferredAioMissing
  <2>8. CASE UNCHANGED vars
    BY <2>8 DEF vars, WakeupPending, Active
  <2> QED
    BY <2>1, <2>2, <2>3, <2>4, <2>5, <2>6, <2>7, <2>8 DEF Next, EventLoop
<1> QED
  BY <1>1, <1>2, TypeCorrect, PTL DEF Spec

-------------------------------------------------------------------------------
\* A change of one request's progress is a change of the abstract operation.
LEMMA OneProgress ==
    ASSUME TypeOK, NEW r \in Requests, NEW state,
           \A q \in Requests \ {r} : life'[q] = life[q] /\ called'[q] = called[q],
           Progress(r)' = state
    PROVE  [q \in Requests |-> Progress(q)]'
              = [[q \in Requests |-> Progress(q)] EXCEPT ![r] = state]
<1>1. \A q \in Requests \ {r} : Progress(q)' = Progress(q)
  BY DEF Progress
<1> QED
  BY <1>1

\* Whatever the tables, the counters and the threads do, a request is started,
\* completed by the system and handled once, in this order, or refused.
THEOREM ImplementsOperationsHolds == Spec => ImplementsOperations
<1>1. Init => Operations!Init
  BY ProactorAssumption DEF Init, Operations!Init, Progress, Results
<1>2. TypeOK /\ TablesInv /\ [Next]_vars => [Operations!Next]_(Operations!vars)
  <2> SUFFICES ASSUME TypeOK, TablesInv, [Next]_vars
               PROVE  Operations!Next \/ UNCHANGED Operations!vars
    OBVIOUS
  <2>1. ASSUME NEW r \in Requests, life[r] = "unused", StartResult(r), UNCHANGED called
        PROVE  Operations!Start(r) \/ Operations!Reject(r)
    <3>1. PICK state \in {"running", "deferred", "deleted"} :
             life' = [life EXCEPT ![r] = state]
      BY <2>1 DEF StartResult
    <3>2. called[r] = 0 /\ Progress(r) = "idle"
      BY <2>1 DEF TablesInv, CalledInv, Progress
    <3>3. \A q \in Requests \ {r} : life'[q] = life[q] /\ called'[q] = called[q]
      BY <2>1, <3>1 DEF TypeOK, Results
    <3>4. CASE state # "deleted"
      <4>1. Progress(r)' = "pending"
        BY <3>1, <3>4 DEF Progress, TypeOK, Results
      <4> QED
        BY <3>2, <3>3, <4>1, OneProgress DEF Operations!Start
    <3>5. CASE state = "deleted"
      <4>1. Progress(r)' = "rejected"
        BY <2>1, <3>1, <3>2, <3>5 DEF Progress, TypeOK, Results
      <4> QED
        BY <3>2, <3>3, <4>1, OneProgress DEF Operations!Reject
    <3> QED
      BY <3>4, <3>5
  <2>2. ASSUME NEW r \in Opened, Open(r)
        PROVE  Operations!Next
    BY <2>1, <2>2 DEF Open, Requests, Operations!Next
  <2>3. ASSUME NEW r \in Chained, HandlerStarts(r)
        PROVE  Operations!Next
    BY <2>1, <2>3 DEF HandlerStarts, Requests, Operations!Next
  <2>4. ASSUME NEW r \in Posted, PostCompletion(r)
        PROVE  Operations!Next
    <3>1. /\ r \in Requests /\ Progress(r) = "idle"
          /\ \A q \in Requests \ {r} : life'[q] = life[q] /\ called'[q] = called[q]
          /\ Progress(r)' = "pending"
      BY <2>4 DEF PostCompletion, Progress, TypeOK, Results, Requests
    <3> QED
      BY <3>1, OneProgress DEF Operations!Start, Operations!Next
  <2>5. ASSUME NEW r \in Requests, KernelCompletes(r)
        PROVE  Operations!Next
    <3>1. /\ Progress(r) = "pending"
          /\ \A q \in Requests \ {r} : life'[q] = life[q] /\ called'[q] = called[q]
          /\ Progress(r)' = "completed"
      BY <2>5 DEF KernelCompletes, Progress, TypeOK, Results
    <3> QED
      BY <3>1, OneProgress DEF Operations!Complete, Operations!Next
  <2>6. CASE HandlerReturns
    <3>1. PICK r \in Requests : r = current /\ life[r] = "done" /\ called[r] = 0
      BY <2>6 DEF HandlerReturns, TablesInv, CurrentInv, CalledInv, Results
    <3>2. /\ Progress(r) = "completed"
          /\ \A q \in Requests \ {r} : life'[q] = life[q] /\ called'[q] = called[q]
          /\ life'[r] = "deleted" /\ called'[r] = 1
      BY <2>6, <3>1 DEF HandlerReturns, Progress, TypeOK, Results
    <3>3. Progress(r)' = "dispatched"
      BY <3>2 DEF Progress
    <3> QED
      BY <3>2, <3>3, OneProgress DEF Operations!Dispatch, Operations!Next
  <2>7. ASSUME \A r \in Requests : Progress(r)' = Progress(r)
        PROVE  UNCHANGED Operations!vars
    BY <2>7 DEF Operations!vars
  <2>8. CASE UNCHANGED <<life, called>>
    BY <2>7, <2>8 DEF Progress
  <2>9. CASE KernelReadsPipe \/ NotifyReturns
    <3>1. PICK state : life' = [life EXCEPT ![Notify] = state]
      BY <2>9 DEF KernelReadsPipe, NotifyReturns, StartResult
    <3>2. \A r \in Requests : life'[r] = life[r] /\ called'[r] = called[r]
      BY <2>9, <3>1, ProactorAssumption DEF KernelReadsPipe, NotifyReturns, TypeOK, Results
    <3> QED
      BY <2>7, <3>2 DEF Progress
  <2>10. CASE DeferredAioOK \/ DeferredAioFail
    <3>1. PICK i \in Deferred, state \in {"running", "queued"} :
             life' = [life EXCEPT ![resultList[i]] = state]
      BY <2>10 DEF DeferredAioOK, DeferredAioFail
    <3>2. life[resultList[i]] = "deferred" /\ UNCHANGED called
      BY <2>10 DEF DeferredAioOK, DeferredAioFail, TablesInv, SlotsInv
    <3>3. \A r \in Requests : \/ life'[r] = life[r]
                              \/ life[r] = "deferred" /\ life'[r] \in {"running", "queued"}
      BY <3>1, <3>2 DEF TypeOK, Results
    <3> QED
      BY <2>7, <3>2, <3>3 DEF Progress
  <2>11. CASE \/ NotifyOpened \/ SuspendInterrupted \/ Exit \/ BuildActiveList
              \/ Suspended \/ FindNothing \/ FindCompletedAio
              \/ NoDeferredAio \/ DeferredAioAgain \/ DeferredAioMissing
    BY <2>8, <2>11
    DEF NotifyOpened, SuspendInterrupted, Exit, BuildActiveList, Suspended, FindNothing,
        FindCompletedAio, NoDeferredAio, DeferredAioAgain, DeferredAioMissing
  <2>12. CASE UNCHANGED vars
    BY <2>8, <2>12 DEF vars
  <2> QED
    BY <2>2, <2>3, <2>4, <2>5, <2>6, <2>9, <2>10, <2>11, <2>12
    DEF Next, EventLoop, StartDeferredAio
<1> QED
  BY <1>1, <1>2, TypeCorrect, TablesInvHolds, PTL
  DEF Spec, ImplementsOperations, Operations!Spec
===============================================================================
