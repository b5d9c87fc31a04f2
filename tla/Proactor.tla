------------------------------- MODULE Proactor -------------------------------
(***************************************************************************)
(* The Proactor (framework/proactor/1_0/Proactor.cpp): the two parallel    *)
(* tables of asynchronous operations and their counters, the event loop    *)
(* that dispatches completions, and the notify pipe that gets the loop out *)
(* of aio_suspend() (NotifyPipeManager.cpp).                               *)
(*                                                                         *)
(* Threads: the one thread in proactorRunEventLoop(), and the reactor      *)
(* thread, whose Acceptor starts the first read of each connection and     *)
(* then calls notifyCompletion().  The operating system, outside src/,     *)
(* finishes what aio_read() and aio_write() accepted, in any order.        *)
(*                                                                         *)
(* Each critical section of mRecursiveMutex is one step, but for           *)
(* findCompletedAio(), which is two: it hands on to startDeferredAio()     *)
(* with the mutex held.                                                    *)
(***************************************************************************)
EXTENDS Integers, Sequences, FiniteSets

CONSTANTS
    Opened,         \* operations the reactor thread starts (Acceptor::handleInput)
    Chained,        \* operations completion handlers start (ServerEventHandler)
    Posted,         \* results handed to postCompletion()
    Notify,         \* the read of the notify pipe
    NoResult,       \* a null pointer in a table
    MaxSize,        \* mAiocbListMaxSize
    BufferSize,     \* size of mNotifyBuffer, the bytes one read can take
    Outcomes,       \* what aio_read()/aio_write() may answer, see startAioI()
    EndFlags        \* values mEndEventLoop may have: the constructor sets none

Requests == Opened \cup Chained \cup Posted
Results  == Requests \cup {Notify}

ASSUME ProactorAssumption ==
    /\ IsFiniteSet(Requests)
    /\ Opened \cap Chained = {} /\ Opened \cap Posted = {} /\ Chained \cap Posted = {}
    /\ Notify \notin Requests
    /\ NoResult \notin Results
    /\ MaxSize \in Nat \ {0}
    /\ BufferSize \in Nat \ {0}
    /\ Outcomes \subseteq {"ok", "again", "fail"}
    /\ EndFlags \subseteq {0, 1}

VARIABLES
    aiocbList,      \* mAiocbList, with the cell past its end
    resultList,     \* mResultList, with the cell past its end
    curSize,        \* mAiocbListCurSize
    numDeferred,    \* mNumDeferredAiocb
    numStarted,     \* mNumStartedAio
    resultQueue,    \* mResultQueue
    endEventLoop,   \* mEndEventLoop
    loop,           \* where the event loop is, see LoopState
    activeList,     \* handleEvents: what was passed to aio_suspend()
    index,          \* handleEvents: the slot the next scan starts from
    current,        \* the result whose completion is being handled
    notifying,      \* the reactor thread is about to call notifyCompletion()
    pipe,           \* bytes in the notify pipe
    life,           \* what became of each result object, see Life
    called,         \* history: completion handler calls of each request
    overflowed      \* history: some result was put past the end of the tables

tables == <<aiocbList, resultList, curSize, numDeferred, numStarted>>
vars == <<aiocbList, resultList, curSize, numDeferred, numStarted, resultQueue,
          endEventLoop, loop, activeList, index, current, notifying, pipe, life,
          called, overflowed>>

Slots == 0 .. MaxSize - 1

\* "check": at the top of the loop; "suspend": in aio_suspend(); "scan": about
\* to call findCompletedAio(); "restart": in startDeferredAio(), holding the
\* mutex; "callback": in applicationSpecificCode(); "crashed": past an access
\* through a pointer that is none.
LoopState == {"check", "suspend", "scan", "restart", "callback", "exited", "crashed"}

\* "running": the system works on it; "done": it has finished; "deferred": the
\* system would not take it now; "queued": in mResultQueue.
Life == {"unused", "running", "done", "deferred", "queued", "deleted"}

TypeOK ==
    /\ aiocbList \in [0 .. MaxSize -> Results \cup {NoResult}]
    /\ resultList \in [0 .. MaxSize -> Results \cup {NoResult}]
    /\ curSize \in Int /\ numDeferred \in Int /\ numStarted \in Int
    /\ resultQueue \in Seq(Results)
    /\ endEventLoop \in EndFlags
    /\ loop \in LoopState
    /\ activeList \subseteq Results
    /\ index \in 0 .. MaxSize
    /\ current \in Results \cup {NoResult}
    /\ loop \in {"restart", "callback"} => current # NoResult
    /\ notifying \in BOOLEAN
    /\ pipe \in Nat
    /\ life \in [Results -> Life]
    /\ called \in [Requests -> Nat]
    /\ overflowed \in BOOLEAN

\* What the constructor's startAio() makes of the read of the notify pipe, which
\* gets the slot reserved for it; without a pipe there is no read, as if refused.
FirstRead(answer) ==
    CASE answer = "ok" -> "running" [] answer = "again" -> "deferred"
      [] answer = "fail" -> "deleted"

\* The constructor: empty tables but for the read of the notify pipe, which the
\* system may take, put off or refuse as any other, and one byte written.
Init ==
    /\ \E answer \in Outcomes :
           /\ aiocbList = [i \in 0 .. MaxSize |->
                              IF i = 0 /\ answer = "ok" THEN Notify ELSE NoResult]
           /\ resultList = [i \in 0 .. MaxSize |->
                              IF i = 0 /\ answer # "fail" THEN Notify ELSE NoResult]
           /\ curSize = (IF answer = "fail" THEN 0 ELSE 1)
           /\ numDeferred = (IF answer = "again" THEN 1 ELSE 0)
           /\ numStarted = (IF answer = "ok" THEN 1 ELSE 0)
           /\ life = [r \in Results |->
                         IF r = Notify THEN FirstRead(answer) ELSE "unused"]
    /\ resultQueue = <<>>
    /\ endEventLoop \in EndFlags
    /\ loop = "check"
    /\ activeList = {}
    /\ index = 0
    /\ current = NoResult
    /\ notifying = FALSE
    /\ pipe = 1
    /\ called = [r \in Requests |-> 0]
    /\ overflowed = FALSE
-------------------------------------------------------------------------------
(* Starting an operation: startAio() and what it calls.                    *)

\* i is where a search through S in increasing order stops.
IsFirst(i, S) == i \in S /\ \A j \in S : i <= j

\* The mutex, held across findCompletedAio()'s call of startDeferredAio(); and
\* no thread runs in a process that crashed.
MutexFree == loop \notin {"restart", "crashed"}

\* The search includes the slot of the notify pipe.
BugFreeSlots == {i \in Slots : aiocbList[i] = NoResult}

FreeSlots == {i \in 1 .. MaxSize - 1 : aiocbList[i] = NoResult}

\* allocateAioSlot() returns i for r: slot 0 for the notify pipe.  When no slot
\* is free it logs an error and returns mAiocbListMaxSize all the same.
AllocateAioSlot(r, i) ==
    IF r = Notify THEN i = 0
    ELSE IF FreeSlots = {} THEN i = MaxSize ELSE IsFirst(i, FreeSlots)

\* startAio() when the system takes the operation.
StartAioOK(r, i) ==
    /\ "ok" \in Outcomes
    /\ resultList' = [resultList EXCEPT ![i] = r]
    /\ aiocbList' = [aiocbList EXCEPT ![i] = r]
    /\ curSize' = curSize + 1
    /\ numStarted' = numStarted + 1
    /\ UNCHANGED numDeferred

\* startAio() when the system has no room (EAGAIN, ENOMEM): the result stays in
\* its slot of mResultList, to be started later.
StartAioAgain(r, i) ==
    /\ "again" \in Outcomes
    /\ resultList' = [resultList EXCEPT ![i] = r]
    /\ curSize' = curSize + 1
    /\ numDeferred' = numDeferred + 1
    /\ UNCHANGED <<aiocbList, numStarted>>

\* mAiocbListCurSize is not taken back.
BugStartAioFail(r, i) ==
    /\ "fail" \in Outcomes
    /\ resultList' = [resultList EXCEPT ![i] = NoResult]
    /\ curSize' = curSize + 1
    /\ UNCHANGED <<aiocbList, numDeferred, numStarted>>

\* startAio() when the system refuses for good: the slot is cleared again.
StartAioFail(r, i) ==
    /\ "fail" \in Outcomes
    /\ resultList' = [resultList EXCEPT ![i] = NoResult]
    /\ UNCHANGED <<aiocbList, curSize, numDeferred, numStarted>>

\* AsynchReadStream::read() and AsynchWriteStream::write() of a new result r: the
\* caller deletes a result that could not be started.
StartResult(r) ==
    \E i \in 0 .. MaxSize :
        /\ AllocateAioSlot(r, i)
        /\ overflowed' = (overflowed \/ i = MaxSize)
        /\ \/ StartAioOK(r, i)    /\ life' = [life EXCEPT ![r] = "running"]
           \/ StartAioAgain(r, i) /\ life' = [life EXCEPT ![r] = "deferred"]
           \/ StartAioFail(r, i)  /\ life' = [life EXCEPT ![r] = "deleted"]

\* Acceptor::handleInput up to open(): the first read of a new connection.
Open(r) ==
    /\ MutexFree
    /\ ~notifying
    /\ life[r] = "unused"
    /\ StartResult(r)
    /\ notifying' = TRUE
    /\ UNCHANGED <<resultQueue, endEventLoop, loop, activeList, index, current,
                   pipe, called>>

\* notifyCompletion() is left out of Acceptor::handleInput.
BugNotifyByte == UNCHANGED pipe

\* NotifyPipeManager::notify() writes one byte.
NotifyByte == pipe' = pipe + 1

\* Acceptor::handleInput, notifyCompletion().
NotifyOpened ==
    /\ loop # "crashed"
    /\ notifying
    /\ notifying' = FALSE
    /\ NotifyByte
    /\ UNCHANGED <<tables, resultQueue, endEventLoop, loop, activeList, index,
                   current, life, called, overflowed>>

\* postCompletion() and putqResult().
PostCompletion(r) ==
    /\ MutexFree
    /\ life[r] = "unused"
    /\ life' = [life EXCEPT ![r] = "queued"]
    /\ resultQueue' = Append(resultQueue, r)
    /\ NotifyByte
    /\ UNCHANGED <<tables, endEventLoop, loop, activeList, index, current,
                   notifying, called, overflowed>>
-------------------------------------------------------------------------------
(* The operating system.                                                   *)

\* Data or an end of file arrives for an operation it works on.
KernelCompletes(r) ==
    /\ life[r] = "running"
    /\ life' = [life EXCEPT ![r] = "done"]
    /\ UNCHANGED <<tables, resultQueue, endEventLoop, loop, activeList, index,
                   current, notifying, pipe, called, overflowed>>

\* The read of the notify pipe takes what is there, up to the buffer's size.
KernelReadsPipe ==
    /\ life[Notify] = "running"
    /\ pipe > 0
    /\ life' = [life EXCEPT ![Notify] = "done"]
    /\ pipe' = IF pipe > BufferSize THEN pipe - BufferSize ELSE 0
    /\ UNCHANGED <<tables, resultQueue, endEventLoop, loop, activeList, index,
                   current, notifying, called, overflowed>>
-------------------------------------------------------------------------------
(* The event loop: proactorRunEventLoop(), handleEvents() and below.       *)

\* mEndEventLoop is non-zero: the loop is left, or never entered.
Exit ==
    /\ loop = "check"
    /\ endEventLoop # 0
    /\ loop' = "exited"
    /\ UNCHANGED <<tables, resultQueue, endEventLoop, activeList, index, current,
                   notifying, pipe, life, called, overflowed>>

Active == {i \in Slots : aiocbList[i] # NoResult}

\* handleEvents(), the list of the operations to wait for, under the mutex.
BuildActiveList ==
    /\ loop = "check"
    /\ endEventLoop = 0
    /\ activeList' = {aiocbList[i] : i \in Active}
    /\ loop' = "suspend"
    /\ UNCHANGED <<tables, resultQueue, endEventLoop, index, current, notifying,
                   pipe, life, called, overflowed>>

\* aio_suspend() returns once an operation of its list is done, or at once if
\* the list is empty.
SuspendOver == activeList = {} \/ \E r \in activeList : life[r] = "done"

Suspended ==
    /\ loop = "suspend"
    /\ SuspendOver
    /\ loop' = "scan"
    /\ index' = 0
    /\ UNCHANGED <<tables, resultQueue, endEventLoop, activeList, current,
                   notifying, pipe, life, called, overflowed>>

\* A signal interrupts the wait: the scan is skipped.
SuspendInterrupted ==
    /\ loop = "suspend"
    /\ ~SuspendOver
    /\ loop' = "check"
    /\ UNCHANGED <<tables, resultQueue, endEventLoop, activeList, index, current,
                   notifying, pipe, life, called, overflowed>>

\* The scan takes a started operation for a finished one.
BugCompleted == {i \in Active : i >= index}

\* The slots from index on whose operation is done.  index and count of the
\* code move together, so that a scan goes once through the table.
Completed == {i \in Active : i >= index /\ life[resultList[i]] = "done"}

\* findCompletedAio() returns null: handleEvents() is over.
FindNothing ==
    /\ loop = "scan"
    /\ numStarted = 0 \/ Completed = {}
    /\ loop' = "check"
    /\ UNCHANGED <<tables, resultQueue, endEventLoop, activeList, index, current,
                   notifying, pipe, life, called, overflowed>>

\* The result stays in mResultList.
BugTaken(table, i) == table

\* A table without the entry of slot i.
Taken(table, i) == [table EXCEPT ![i] = NoResult]

\* The result is read from its slot after the slot was cleared.
BugFound(i) == Taken(resultList, i)[i]

\* The result findCompletedAio() returns for slot i, read before it clears the slot.
Found(i) == resultList[i]

\* findCompletedAio(), up to its call of startDeferredAio().
FindCompletedAio ==
    /\ loop = "scan"
    /\ numStarted # 0
    /\ \E i \in Completed :
           /\ IsFirst(i, Completed)
           /\ current' = Found(i)
           /\ aiocbList' = Taken(aiocbList, i)
           /\ resultList' = Taken(resultList, i)
           /\ index' = i + 1
    /\ curSize' = curSize - 1
    /\ numStarted' = numStarted - 1
    /\ loop' = "restart"
    /\ UNCHANGED <<numDeferred, resultQueue, endEventLoop, activeList, notifying,
                   pipe, life, called, overflowed>>

Deferred == {i \in Slots : resultList[i] # NoResult /\ aiocbList[i] = NoResult}

\* startDeferredAio() has nothing to start.
NoDeferredAio ==
    /\ loop = "restart"
    /\ numDeferred = 0
    /\ loop' = "callback"
    /\ UNCHANGED <<tables, resultQueue, endEventLoop, activeList, index, current,
                   notifying, pipe, life, called, overflowed>>

\* startDeferredAio() starts the first deferred operation.
DeferredAioOK ==
    /\ loop = "restart"
    /\ numDeferred # 0
    /\ "ok" \in Outcomes
    /\ \E i \in Deferred :
           /\ IsFirst(i, Deferred)
           /\ aiocbList' = [aiocbList EXCEPT ![i] = resultList[i]]
           /\ life' = [life EXCEPT ![resultList[i]] = "running"]
    /\ numStarted' = numStarted + 1
    /\ numDeferred' = numDeferred - 1
    /\ NotifyByte
    /\ loop' = "callback"
    /\ UNCHANGED <<resultList, curSize, resultQueue, endEventLoop, activeList,
                   index, current, notifying, called, overflowed>>

\* startDeferredAio() finds that the system still has no room.
DeferredAioAgain ==
    /\ loop = "restart"
    /\ numDeferred # 0 /\ Deferred # {}
    /\ "again" \in Outcomes
    /\ loop' = "callback"
    /\ UNCHANGED <<tables, resultQueue, endEventLoop, activeList, index, current,
                   notifying, pipe, life, called, overflowed>>

\* startDeferredAio() gives the first deferred operation up: to mResultQueue.
DeferredAioFail ==
    /\ loop = "restart"
    /\ numDeferred # 0
    /\ "fail" \in Outcomes
    /\ \E i \in Deferred :
           /\ IsFirst(i, Deferred)
           /\ resultList' = Taken(resultList, i)
           /\ life' = [life EXCEPT ![resultList[i]] = "queued"]
           /\ resultQueue' = Append(resultQueue, resultList[i])
    /\ curSize' = curSize - 1
    /\ numDeferred' = numDeferred - 1
    /\ NotifyByte
    /\ loop' = "callback"
    /\ UNCHANGED <<aiocbList, numStarted, endEventLoop, activeList, index,
                   current, notifying, called, overflowed>>

\* startDeferredAio() counts a deferred operation that is in no slot.  It goes on
\* with the cell past the end; nothing is said of the program from there.
DeferredAioMissing ==
    /\ loop = "restart"
    /\ numDeferred # 0 /\ Deferred = {}
    /\ loop' = "crashed"
    /\ UNCHANGED <<tables, resultQueue, endEventLoop, activeList, index, current,
                   notifying, pipe, life, called, overflowed>>

StartDeferredAio ==
    \/ NoDeferredAio
    \/ DeferredAioOK \/ DeferredAioAgain \/ DeferredAioFail
    \/ DeferredAioMissing

\* The completion handler of an operation starts another one.
HandlerStarts(r) ==
    /\ loop = "callback"
    /\ current # Notify
    /\ life[r] = "unused"
    /\ StartResult(r)
    /\ UNCHANGED <<resultQueue, endEventLoop, loop, activeList, index, current,
                   notifying, pipe, called>>

\* The completion handler returns, and the result is deleted.
HandlerReturns ==
    /\ loop = "callback"
    /\ current # Notify
    /\ called' = [called EXCEPT ![current] = @ + 1]
    /\ life' = [life EXCEPT ![current] = "deleted"]
    /\ current' = NoResult
    /\ loop' = "scan"
    /\ UNCHANGED <<tables, resultQueue, endEventLoop, activeList, index,
                   notifying, pipe, overflowed>>

\* NotifyPipeManager::handleReadStream() reads the pipe again, with a new result.
NotifyReturns ==
    /\ loop = "callback"
    /\ current = Notify
    /\ StartResult(Notify)
    /\ current' = NoResult
    /\ loop' = "scan"
    /\ UNCHANGED <<resultQueue, endEventLoop, activeList, index, notifying, pipe,
                   called>>

EventLoop ==
    \/ Exit \/ BuildActiveList \/ Suspended
    \/ FindNothing \/ FindCompletedAio \/ StartDeferredAio
    \/ HandlerReturns \/ NotifyReturns

Next ==
    \/ \E r \in Opened : Open(r)
    \/ NotifyOpened
    \/ \E r \in Posted : PostCompletion(r)
    \/ \E r \in Requests : KernelCompletes(r)
    \/ KernelReadsPipe
    \/ \E r \in Chained : HandlerStarts(r)
    \/ SuspendInterrupted
    \/ EventLoop

Spec == Init /\ [][Next]_vars

\* The event loop thread runs when it can, the reactor thread gets from open()
\* to notifyCompletion(), and the system completes a read of a pipe that holds
\* a byte.  No connection ever has to send anything.
FairSpec ==
    /\ Spec
    /\ WF_vars(EventLoop)
    /\ WF_vars(NotifyOpened)
    /\ WF_vars(KernelReadsPipe)
-------------------------------------------------------------------------------
(* Properties that hold.                                                   *)

Occupied == {i \in Slots : resultList[i] # NoResult}

\* Every started operation is at its slot in both tables, alive, and in no
\* other slot: the scan asks for the status of the operation it will dispatch.
TablesAgree ==
    /\ \A i \in Active : /\ resultList[i] = aiocbList[i]
                         /\ life[aiocbList[i]] \in {"running", "done"}
    /\ \A i, j \in Occupied : resultList[i] = resultList[j] => i = j

\* The number of started operations, on which findCompletedAio() decides not to
\* look at the table at all, is right as long as the table was large enough.
StartedCounted == ~overflowed => numStarted = Cardinality(Active)

\* Whatever went wrong before, the counters, which are size_t, never fall below
\* what the tables hold, and so never wrap around zero.
NoUnderflow ==
    /\ curSize >= Cardinality(Occupied)
    /\ numStarted >= Cardinality(Active)
    /\ numDeferred >= 0

\* A deferred operation no table knows any more.
Lost(r) == life[r] = "deferred" /\ \A i \in Occupied : resultList[i] # r

\* The other two counters are right as long as no deferred operation was lost.
CountersExact ==
    ~overflowed /\ (\A r \in Results : ~Lost(r)) =>
        /\ curSize = Cardinality(Occupied)
        /\ numDeferred = Cardinality(Deferred)

\* aio_suspend() never waits on the memory of a result that was deleted.
SuspendedOnLive ==
    loop = "suspend" => \A r \in activeList : life[r] \in {"running", "done"}

\* While the loop is suspended on a list with the read of the notify pipe in it,
\* an operation that was started too late for the list has a wakeup coming: the
\* starter has yet to notify, or a byte is in the pipe, or the read of it is done.
WakeupPending ==
    (/\ loop = "suspend"
     /\ Notify \in activeList
     /\ \E i \in Active : aiocbList[i] \notin activeList)
    => notifying \/ pipe > 0 \/ life[Notify] = "done"

\* A completion handler is called for an operation that is done, that neither
\* table knows any more, and that was not handled before.
DispatchedOnce ==
    loop = "callback" =>
        /\ life[current] = "done"
        /\ \A i \in Slots : aiocbList[i] # current /\ resultList[i] # current
        /\ current \in Requests => called[current] = 0

\* How far a request is, for a caller that sees no table.
Progress(r) ==
    CASE life[r] = "unused" -> "idle"
      [] life[r] \in {"running", "deferred", "queued"} -> "pending"
      [] life[r] = "done" -> "completed"
      [] life[r] = "deleted" -> IF called[r] = 0 THEN "rejected" ELSE "dispatched"

\* The Proactor implements asynchronous operations that complete once; with
\* enough slots and a system that takes what it is given, an operation that is
\* done gets its handler called, even if it was started while the loop was
\* suspended on others.
Operations == INSTANCE AsyncOperations WITH
    Operations <- Requests,
    op         <- [r \in Requests |-> Progress(r)]

ImplementsOperations     == Operations!Spec
ImplementsFairOperations == Operations!FairSpec
-------------------------------------------------------------------------------
(* What comments and documents say, and the code does not do.              *)

\* "Number of ACE_POSIX_Asynch_Result's waiting for start" (Proactor.hpp): the
\* counter counts the results that wait in the table.
DeferredCounted == ~overflowed => numDeferred = Cardinality(Deferred)

\* mAiocbListMaxSize is "the maximum size of the array" (Proactor.hpp): nothing
\* is stored past it.
WithinBounds == ~overflowed
===============================================================================
