# ACE design patterns, verified

TLA+ models of the C++ framework in `src/framework` (Reactor, Proactor, Task,
Active Object, Acceptor/Connector, Stream) and of the example programs in
`src/applications` that drive it; TLC runs over small instances; and proofs,
checked by TLAPS, for any number of threads, messages, slots and descriptors.
Line numbers refer to the files under `src/`.

## 1. The system

The repository is a study of the patterns of the ACE library. Each pattern is a
small framework, and most have an echo server or a pipeline built on them. Nothing
is stored on disk; nothing is replicated. What is hard is concurrency: a thread
in `select()`, a thread in `aio_suspend()`, worker threads on condition
variables, and shared tables that are read under a mutex and used after it was
released.

| Component | State | Operations | Meets |
|---|---|---|---|
| **Task** (`task/1_0`, `task/2_0`) | `mMessageQueue`, `mStopRequested`, one mutex, one condition variable, a vector of threads | `putQ`, `getQ`, `requestStop`, `activate`, `wait`, destructor | SyncService, ActObjClient, ActObjScheduler, the Stream's tasks run `svc()` on it |
| **ActivationQueue, ActObjScheduler** (`active_object/1_0`, `example_active_object`) | `mMethodRequestQueue`, `mState`, mutex, condition variable | `enqueue`, `dequeue`, `exit`; `svc` loop | the proxy enqueues from a client's thread, the scheduler calls the servant |
| **Future** (`active_object/1_0/Future.cpp`) | `mValue`, `mObserverCollection`, mutex, condition variable, per shared FutureRep | `set`, `get` with timeout, `attach`, `detach`, `cancle` | the servant's request sets, clients get, `CallbackGetReturnMessage` observes |
| **Proactor** (`proactor/1_0/Proactor.cpp`, `NotifyPipeManager.cpp`) | `mAiocbList`, `mResultList`, three counters, `mResultQueue`, `mEndEventLoop`, the notify pipe | `startAio`, `startDeferredAio`, `handleEvents`, `findCompletedAio`, `postCompletion`, `notifyCompletion` | called by the reactor thread (Acceptor) and by handlers in its own loop; the system finishes operations |
| **Asynchronous streams, results, handlers** | one result object per operation | `read`, `write`, `complete`, dispatch to the handler | start through Proactor |
| **Reactor** (`reactor/1_0/Reactor.cpp`) | `mEventHandlerRepository` (descriptor to handler and mask), the wakeup pipe, a recursive mutex | `registerHandler`, `removeHandler`, `handleEvents` | any thread registers; the loop's thread calls handlers, who register and remove |
| **Acceptor/Connector** (`acceptor_connector/1_0`, `example_acceptor_connector`) | per handler a descriptor, `O_NONBLOCK`, an entry in the Reactor | `Acceptor::open`, `handleInput`; `Connector::connect`, `SockConnector::connect`, `NonBlockingConnectHandler::handleOutput` | a client's main thread calls `connect` and sends, the Reactor's thread completes and reads |
| **Stream** (`stream/1_0`) | `Module::mNext`, `Task::mNext` in two lists, one each way | `push`, `pop`, `close`, `put`, `get` | its owner's thread, and the threads of Task 2.0, which follow the links without a lock |
| **Stream server** (`example_stream`) | `mConnections`, per connection a `Stream` with four threads and their queues, `mPacketBuffer` | accept, read, end; receive, respond, add metadata, send | Reactor calls its handlers, which put messages to the tasks |
| **Other example servers and clients** | tables of connections, buffers | accept, echo, parse, respond | all of the above |
| **Common** | none | key-value formatting, logging, errno | everything |

### What is hard, and what makes each part correct

* **Task queue.** Several producers, consumers and stoppers. `putQ` wakes one
  thread per message, `requestStop` sets the flag under the mutex and notifies
  after it. *Correct:* no message is lost, duplicated, reordered or left beside
  a sleeping consumer; a stop drains the queue and then ends every loop.
* **Activation queue.** `dequeue` waits without a predicate, `exit` writes
  `mState` without the mutex. *Correct:* order; a bound on what falls behind; a
  bound on what is executed after the shutdown.
* **Future.** `set` and `get` look at `mValue` without the mutex before they take
  it; a timeout races the value. *Correct:* no lost wakeup, a 0 comes with a
  value, each observer is told once for each value stored.
* **Proactor.** Two parallel tables and three counters that three outcomes of
  `startAioI` update differently; `aio_suspend` on a stale copy of the table; a
  slot given up before its handler runs. *Correct:* the tables agree, no counter
  wraps, no operation is dispatched twice or from freed memory, no operation is
  missed by a suspended loop.
* **Reactor.** The sets of `select()` are stale as soon as they are built;
  handlers are called through pointers copied from the repository; descriptors
  are closed before they are unregistered, and reused. *Correct:* a stale
  `select()` is woken, no removed handler is called, an entry always belongs to
  the handler its descriptor belongs to, no call blocks the loop.
* **Acceptor/Connector.** errno, the timeout and `O_NONBLOCK` decide what a call of
  `connect` does; the answer may come after the timeout; two event handlers, the
  wrapper and the wrapped, follow each other on one descriptor; descriptors are
  reused, and `close` keeps the number. *Correct:* every call is answered; a handler
  that was activated has a connection, its own; the Reactor has the right handler
  for it; a pending connection is settled; what is sent is answered.
* **Stream.** `push`, `pop` and `close` set one link after the other, and delete
  modules, while the threads of the tasks follow the links; `putNext` reads a link
  twice. *Correct:* between two operations the two lists mirror each other and lead to
  no deleted task; nothing is lost while the stream is left alone; `close` ends with
  every thread joined.
* **Stream server.** The reactor thread closes a descriptor while the threads of
  its stream still work; Stop goes down the stream beside replies; packets of a
  request come in any order. *Correct:* a request is put together and answered, to
  the client that sent it; all four threads of a stream end with their connection.
* **Lifetimes.** Base class destructors join threads that use members the derived
  class has destroyed; handlers delete themselves with operations in flight.

`PROJECT.json` lists every hazard with its line and the properties aimed at it. Some
hazards have no property but a note: where the code does go wrong and no line of the
repository says it should not (`putNext` through a link that is cut, a failed `accept()`,
a failed `select()`), where the programs that exist do not get there (a handler that
removes another one, `connect()` after a failure), or where a property would have to
excuse exactly what it is to catch (a late Sender whose new reader's handler was refused).

## 2. Modules

```
ClosableChannel <- MessageQueue   <- MCMessageQueue        (TLC)
                        ^--------- MessageQueueProofs      (TLAPS)
ActivationQueue                   <- MCActivationQueue
                        ^--------- ActivationQueueProofs
Future                            <- MCFuture
                        ^--------- FutureProofs
AsyncOperations <- Proactor       <- MCProactor
                        ^--------- ProactorProofs
Reactor                           <- MCReactor
                        ^--------- ReactorProofs
StreamServer                      <- MCStreamServer
                        ^--------- StreamServerProofs
ModuleStack <- StreamLinks        <- MCStreamLinks
                        ^--------- StreamLinksProofs
Connections <- AcceptorConnector  <- MCAcceptorConnector
                        ^--------- AcceptorConnectorProofs
```

Conventions. Variables are named after the members they stand for, without the
`m` where that reads better; *history* variables exist in no code and record what
a property needs. One critical section of a mutex is one step; it is split where
the code gives the mutex up or where code that does not take the mutex can see
the middle. A blocked thread is an action that is not enabled. A definition
`Bug...` is a plausible slip of the code next to the definition it would replace;
it is not part of a specification, and serves to show that a property notices.

### MessageQueue (abstract: ClosableChannel)

`consumer[c]` is where a thread that runs `while ( getQ( m ) == 0 )` is: about to
call, asleep, woken without the mutex yet, or out of its loop (`SyncService::svc`,
`ActObjClient::svc`, `Stream::get`). `PutQAccept`/`PutQReject` are `putQ` before
and after a stop, `GetQTake`/`GetQFail`/`GetQWait` the three ways through `getQ`,
`SpuriousWakeup` the condition variable's licence. `RequestStop` and `NotifyAll`
are the two halves of `requestStop` (Task.cpp 2.0:37-43; in 1.0 they stand in the
destructor), between which every other thread may run. `ClosableChannel` is what
a user wants: a FIFO that may be closed, which refuses new messages then and ends
its receivers once it is empty.

### ActivationQueue

One scheduler, any number of clients, one call of `exit`. `Wait` is unconditional
as in the code (ActivationQueue.cpp:31). Because `exit` does not take the mutex,
`TestState` (line 32) and `TakeFront` (lines 39-54) are two steps, with the mutex
held between them (`MutexFree`). `missed` counts the notifications of `enqueue`
that found nobody asleep, `late` the requests taken although `mState` was set.

### Future

`SetTest`, `GetTest` and `GetCopy` are the unlocked accesses of lines 38, 59-61
and 75-79; `SetStore`, `SetUpdate`, `SetNotify` split the critical section of
`set` at each observer's call. `Timeout` may happen at any time of the wait, and
`TimedOutResult` is the predicate's value at that time. The unlocked reads race a
locked write of a pointer; they are modelled as reading the old or the new one.

### Proactor (abstract: AsyncOperations)

The tables have one cell more than `MaxSize`, because the code stores there when
no slot is free (Proactor.cpp:157); what is stored there is not looked at again,
and `overflowed` remembers it happened. `StartAioOK`, `StartAioAgain` and
`StartAioFail` are the three outcomes of `startAioI`; `Outcomes` says which the
system may choose. `BuildActiveList` copies the table, `Suspended` is
`aio_suspend` returning, `FindCompletedAio` gives up the slot and keeps the mutex
(`loop = "restart"`) for `StartDeferredAio`; then the handler runs with the mutex
released and may start operations (`HandlerStarts`). The reactor thread's `Open`
starts a read and, in a later step, notifies (`NotifyOpened`). `crashed` is where
`startDeferredAio` follows a pointer from past the table. The constructor's read of the
notify pipe is the first operation (`FirstRead`): taken, put off or refused as `Outcomes`
allows, and where `pipe()` fails there is none, which is as if it were refused. What
`findCompletedAio` hands on is never null (a clause of `TypeOK`). `AsyncOperations` is
what a user wants: an operation is started or rejected, completes, and is
dispatched once.

### Reactor

Handlers are listeners, connections and connectors: the roles the applications'
handlers play (see `CONSTANTS`). `Build`, `Select`, `Drain`, `Snapshot`, the calls
and the ends of the two lists are `handleEvents` in the order of its lines; each
call is one step with everything the handler does, but for a connection's end,
which is two, because between `close()` and `removeHandler` (ServerEventHandler.cpp
:51-52) the system may hand out the descriptor again. `SelectFails` is an error
return, after which the code goes on with the sets as they were. The wakeup pipe
counts its bytes, `DrainSize` of which (64 in the code) one read takes.
A call whose `read` or `accept` would block is not enabled: the loop stands still,
as the program does.

### StreamServer

A handler is a `ServerEventHandler` with its stream. The tasks with a thread are
Receiver, ResponseMessage, MetaData and Sender; their `mMessageQueue`s are FIFO
channels, which is what `MessageQueue` is proved to implement. StreamHead,
StreamThrough and StreamTail have no thread: what they do (hand on, keep for ever
in the head's queue, drop) is part of the step of the thread that put the message.
`AcceptConnection` is `Acceptor::handleInput` with `open()`, `emplace` and, when
`emplace` fails, the destruction of the handler and its stream. `ReadData` and
`ReadEnd` are the two branches of `ServerEventHandler::handleInput`; `sleep(1)` is no
synchronisation and is not modelled. `Send` writes to whoever has the descriptor
now. `CallDeleted` is the Reactor's loop reaching the entry of a handler that was
destroyed; whether the program then crashes is undefined, so the step may be taken
or not. The clients are those of `MainClient.cpp`: one request at a time, its packets
shuffled, and they may leave at any time. A blank line, which makes no packet and
leaves the client waiting in `read`, is left out.

### StreamLinks (abstract: ModuleStack)

`next` is `Module::mNext`, the owner's list; `nextTask` is `Task::mNext`, which the
threads follow. The owner (the thread that has the Stream) is a program: `step` says
which link it sets next, and each of `push` (Stream.cpp:153-172: `PushReader`,
`PushWriter`, `Link`, `LinkReader`), `pop` (Stream.cpp:124-147 with
Module.cpp:170-192: `Pop`, then `StopTask`, `Unlink`, `Join` for the reader and for
the writer, `RelinkWriter`, `RelinkReader`) and `close` (`Pop` again and again, then
`CloseEnds`) is cut where another thread may see the middle. Reads and writes of
`mNext` race; each is modelled as seeing the old pointer or the new one. A message
is where its thread is: `hop[p]` says in which task's `put`/`putNext`, before the
test of `mNext` (`TestNext`) or before the call through it (`CallNext`); `Put` is the
`put` of each kind of task: with a thread (`Active`) it queues, without it hands on,
StreamHead's reader queues, StreamTail drops. `Reply` is ResponseMessage's call of its
sibling. `worker` is the loop of `svc` (`TestStop`, `GetQ`). `crashed` is the use of a
null pointer or a deleted task, `lost` a message that was dropped: by a null link, by
a stopped task, or with the queue of a deleted one; `disturbed` remembers that an
operation began with a message on its way. `open()` is the initial state: no thread
runs by then. What a task's queue does inside is MessageQueue's matter.

### AcceptorConnector (abstract: Connections)

A handler is a `Client`'s OutputHandler: `handle` is its descriptor, `outcome` what its
last `connect` came to. `call` is the call the main thread is in, with the steps of
SockConnector.cpp: `Connect` is the socket and `connectStart` (:30-100),
`SysConnect` the system's `::connect`, `Unblocked` its return in a blocking socket,
`TimedComplete` the `select` with the caller's timeout (:151-181), `Finish` is
`connectFinish` and what Connector.cpp does with errno: `FinishConnected`
(`activateSvcHandler`), `FinishWouldBlock` (`nonblockingConnect`), a timeout, or an
error, which closes the socket. `HandleOutput` is `NonBlockingConnectHandler` in the
Reactor's thread, `HandleInput` the OutputHandler, `Accept`, `AcceptFails` and `Echo` the
server. `socket` is the system's side of a descriptor, as far as the programs ask for
it: under way, connected, refused, or its other end gone, orderly ("hungup") or not
("reset"). `::connect` may fail at once, as without a route. Where a failed call closes a
socket that was connected after all, the server's end goes with it (`WithoutEnd`):
`InputHandler` removes itself at the end of the stream. Everything the server's program keeps ends with it (`Dies`), and it may be
started again. The Reactor is taken for what the module Reactor shows of it: a
registered handler is called once its descriptor is ready. `Connections` is what the
two programs want: a handler that asks is answered, once; a pending one is settled; a
message is answered unless an end of the connection is gone.

Of the callers, `Connect` is called for a handler that has no descriptor yet, or again
after a timeout. A call after a failure is left out: see Observations.

## 3. Runs

| Run | What it asks | Result |
|---|---|---|
| `MessageQueue` | 2 producers of 2 messages, 3 consumers, 2 stoppers. `NoLostWakeup`: beside a sleeper, there are never more messages than awake consumers on their way. `StopReachesWaiters`; the channel is implemented, with liveness (`ImplementsFairChannel`). | holds |
| `ActivationQueue` | 2 clients of 3 requests, one `exit`. `BacklogIsMissedNotifications`; `AtMostOneAfterShutdown`; a woken scheduler serves the front; a shutdown that finds it asleep ends it. | holds |
| `ActivationQueueShutdown` | The document says the shutdown state lets the consumer "gracefully exit" its loop (:88). | violated |
| `Future` | 2 setters, 2 getters, 2 observers. `NotifiedOncePerStore`, `ZeroHasValue`, `NoLostWakeup`, `GetReturns`. | holds |
| `ProactorSafety` | 4 operations, 3 of them at once, and a posted result for 2 free slots, every outcome of the system, either value of the uninitialised end flag. Five invariants and the refinement of AsyncOperations. | holds |
| `ProactorLiveness` | 3 operations in a table with room, a system that accepts: what is done is dispatched. | holds |
| `ReactorServer` | A listener, 3 connections, 3 reused descriptors, a handler that may return -1, a `select()` that may fail. | holds |
| `ReactorClient` | 2 connectors that another thread registers, 2 connections; fairness: `ReadyIsServed`. | holds |
| `StreamServer` | 2 connections for 2 descriptors, requests of up to 2 packets; one client sends two. `LivingGetOwn`: the client of a living handler gets replies of its own stream only. `Echoed`: the k-th reply is the k-th request, in order. `StreamEnds`: all four threads end after the connection. `RequestAnswered`. | holds |
| `StreamServerReused` | The comment at ServerEventHandler.cpp:94, "let this instance be deleted": handlers are deleted there, after they were removed from the Reactor, and not while it has them. | violated |
| `StreamLinks` | 3 modules pushed and popped in any order and closed at any time, 3 threads, 2 messages from either end. `LinksMirror`; `QuietIsSafe`: nothing is dropped and nothing breaks unless the stream was changed with a message on its way; a stack of modules is implemented, with a `close` that ends (`ImplementsFairStack`). | holds |
| `AcceptorConnector` | 2 handlers, 2 descriptors, every timeout, 2 calls each, 2 messages; a server that may not listen, fail to accept, end and come back. `ActiveIsConnected`, `WatchedByOwner`; connections are implemented, with liveness (`ImplementsFairConnections`). | holds |

The two violated properties are findings, each with its quotation, in
`PROJECT.json`. Every property of a passing run has a `Bug...` definition that
breaks it when it takes the place of what the code does.

### What the violations show

* *A shutdown is missed.* `exit()` notifies while the scheduler is not in the wait: it
  has not come to it yet, or is past its test of `mState`, or executes a request. The
  notification wakes nobody; the scheduler then waits without looking at `mState`, and
  `svc()` never returns.
* *A deleted handler stays registered.* `close()` is empty and nobody calls
  `removeConnection`, so the entry of a connection that is over stays in
  `mConnections`. The next connection with the same descriptor, which is the usual
  case as the system gives out the lowest free one, is refused by `emplace`; its
  handler, registered by `open()`, is destroyed. `handleEvents` asks it for its
  descriptor in the next round. `LivingGetOwnHolds` is the other side of it: because
  the entries stay, a Sender that is late never reaches the client of another
  handler that lives. Who erases the entry has to join the threads first.

### Observations without a run

Seen while modelling, part of the models, but of no run of their own:

* *A deferred operation is overwritten.* `allocateAioSlot` looks only at
  `mAiocbList`, where a deferred operation has no pointer. The next operation is
  put in its slot, though the comment at Proactor.hpp:83 has `mNumDeferredAiocb` count
  what waits for its start. `DeferredCounted` of Proactor.tla says so, and fails as an
  invariant of `ProactorSafety.cfg`; `NoUnderflowHolds` and `StartedCountedHolds` say
  what survives it.
* *A store past the tables.* With no free slot the search ends at the size of the
  table and the caller tests only for a negative index (Proactor.cpp:157), though
  Proactor.hpp:77 calls that size a maximum. `WithinBounds` fails likewise; the
  invariants of that run hold all the same.
* *A stream must be quiet to be changed.* Where `QuietIsSafe` has `disturbed`, TLC
  finds each way it can go wrong: a message dropped between two links of a `push`, one
  queued in a task that is then deleted, `putNext` calling through a pointer that was
  cut after its test, and the task below calling into a deleted module before `pop`
  relinks it (Stream.cpp:133-139). The example relies on its `sleep(1)` and on the Stop it
  sends down before.
* *Flags that do nothing.* Client.cpp:44-45 asks for `O_NONBLOCK` and no timeout, as its
  "nonbock mode"; `connectStart` looks at the timeout only (SockConnector.cpp:81), so
  that the call blocks.
* *A timed-out connection is nobody's.* The socket stays open, `connect` may still
  succeed, and no entry is made for it; only another call finds it, and one that comes
  while it is under way gets `EALREADY`, an error, which closes it.
* *A call after a failure* finds in `mHandle` the number `close()` left there
  (SockConnector.cpp:66-67): no new socket is made, and the descriptor is closed, or by
  then another handler's. `ActiveIsConnected` does not survive that call.
* A connection completed by the Reactor stays non-blocking, as only `connectFinish`
  takes the flag back; one that fails there is never closed, since the handler's
  `close()` does nothing: its descriptor leaks.
* `Acceptor::handleInput` looks at no result: after a failed `accept` the handler is
  registered with `INVALID_HANDLE`, and `FD_SET` of -1 is undefined (Acceptor.cpp:119).
* `send` without `MSG_NOSIGNAL` on a connection whose other end is gone may end the
  client (`killed`); for a handler that failed it may go out on a descriptor that is
  another handler's by now.
* `postCompletion` and a failing `startDeferredAio` put results into
  `mResultQueue` and no line takes them out (Proactor.cpp:379, 652): in Proactor
  no action shortens `resultQueue`.
* `mEndEventLoop` is not initialised (Proactor.cpp:15): `EndFlags` lets it be
  anything, and the loop may never be entered.
* A wakeup that finds the activation queue empty, such as a spurious one, makes
  `dequeue` return a null pointer and ends `svc()` for good (ActObjScheduler.cpp:27).
* *A request waits beside a sleeping scheduler.* A client enqueues while the
  scheduler is in `call()`, and the scheduler then waits without looking at the
  queue (ActivationQueue.cpp:31), though ARCH_Active_Object...md:87 says the
  consumer is blocked "when the queue is empty". `BacklogIsMissedNotifications`
  says how bad it gets: the queue holds at most one request per missed notification.
* A `select()` that fails is logged and its sets are used as they were given
  (Reactor.cpp:111): every registered handler is called, and the first whose
  descriptor is not ready blocks the loop. `ReadyWhenDispatchedHolds` has the
  hypothesis `~Interrupts` for this reason.
* `mAiocbListMaxSize( _SC_AIO_MAX )` (Proactor.cpp:18) takes the name of a `sysconf`
  limit for its value.
* Two setters of a Future may both store; the first value is lost, and leaks.
* `detach` of Future does not compile if used: a `std::set` has no `remove`.

## 4. Bounds

* Queue bounds: `MaxPut` and `MaxEnqueue` bound the calls, not the queue. Two
  messages each from two producers with three consumers are the fewest with which
  two consumers sleep, one is awake, and more messages come than sleepers were
  woken. Three requests each let notifications be missed repeatedly and still
  leave a request to be served after each.
* `Future`: two setters are needed to pass the unlocked test together; two
  observers to have one attached on each side of the value; two getters to have one
  time out and one be woken.
* `Proactor`: `MaxSize = 3` has the notify slot and two more, so that the third
  operation of the reactor thread meets a full table, is stored past its end, and the
  one a handler starts meets what that leaves; `BufferSize = 2` (128 in the code) makes a read
  of the pipe leave bytes behind as soon as three are written. The proofs cover
  every size.
* `Reactor`: three descriptors let one be reused while two others are live;
  `DrainSize = 2` lets bytes be left in the pipe. The proofs cover every size.
* `StreamServer`: two connections, of which the second may take over the descriptor
  of the first or be there beside it; two packets to be out of order; a second
  request of one client, which meets what the first has left in the buffer.
  `accept()` answers the lowest free descriptor, as POSIX says.
* `StreamLinks`: three modules, so that one is pushed or popped above another that has
  a neighbour of its own; of the six tasks one replies, one other reader and one writer
  have threads, the others hand on; two messages, which may come from both ends or meet
  in one queue. The proofs cover every number.
* `AcceptorConnector`: two handlers for two descriptors, so that one may get what the
  other's failed call closed; two calls each, the second after a timeout; two messages,
  to be answered in one. The timeout of `connect` is none, zero or some time, which are
  all the code tells apart. The proofs cover every number of each.
* Symmetry is used only over what the specification treats alike (operations,
  descriptors) and only in runs without liveness properties.
* Deadlock is not checked: every one of these models may rightly stop, when all
  messages were sent and all consumers ended, when nothing comes in, when a stream is
  closed, or when the program was killed or has crashed.

## 5. Fairness

Weak fairness of a thread's own steps: a thread that can run does run. Never of
the environment: no client has to send, no producer to put, nobody to stop, no
wakeup is spurious out of duty, no timeout has to run out.

* `MessageQueue`: each consumer keeps calling `getQ`; a stopper past its unlock
  gets to `notify_all`. Weak fairness is enough because what a consumer does when
  it can run is always enabled until it does it, or until it sleeps.
* `ActivationQueue`: the scheduler and a thread inside `exit`.
* `Future`: threads inside `set` and `get`; whether a thread calls `set` at all is
  its own affair.
* `Proactor`: the event loop, the reactor thread between `open` and
  `notifyCompletion`, and the system's read of a pipe with a byte in it.
* `Reactor`: the loop. One fairness condition for all of it is what one thread
  is. A handler in a set that `select()` returned is called because a round is
  finite; the client run therefore leaves out handlers that return -1 (none of
  these does) and a failing `select()`.
* `StreamServer`: the reactor thread for each connection, and each of the four
  threads of each stream. The clients need not send, nor leave.
* `StreamLinks`: the owner once it is in an operation, and each thread. The owner need
  neither put, get, push, pop nor close.
* `AcceptorConnector`: the main thread inside `connect`; the Reactor's thread and the
  server for each descriptor, which is what `ReadyIsServed` of Reactor shows; and the
  system, which answers a request for a connection. Nobody need call `connect`, send,
  start the server or end it, and `accept` need not fail.

## 6. Proofs

All theorems are proved from the assumptions named in the modules that declare
the constants, for every value of the constants that meets them; TLC evaluates
these assumptions in every run.

* **MessageQueueProofs.** `TypeCorrect`; `FifoHolds` (with the lemmas `PushBack`
  and `PopFront`); `NoLostWakeupHolds`, where the induction is over
  a cardinality: `WakeCountsOne` says that a notification adds exactly one to
  the woken consumers, as `putQ` adds one message; `StopReachesWaitersHolds`;
  `DrainedBeforeExitHolds`, strengthened to `Drained` (once a `getQ` failed the
  queue is empty and closed for good) because what is accepted later is excluded
  only by the flag; `ImplementsChannelHolds`, a step-by-step simulation.
* **ActivationQueueProofs.** `TypeCorrect`, `FifoHolds`, `BacklogHolds`, and
  `AtMostOneAfterShutdownHolds`, strengthened to `LateInv`: a request is late only
  if the test was passed before the shutdown, and no test is passed after it.
* **FutureProofs.** `TypeCorrect`; `NoLostWakeupHolds`, which is inductive with the types;
  `ZeroHasValueHolds`, by `FoundIsThere`: whoever is to answer 0 has found a value, and no
  step takes one away; `NotifiedOncePerStoreHolds`, by `SectionInv` (the setter that is
  telling observers holds the mutex) and `CalledInv`, which counts the calls of an
  observer with the stores: one for each `set()` that is over, and one more if the
  `set()` under way has come to it.
* **ProactorProofs.** `TypeCorrect` and `TablesInvHolds` are one induction
  (`TypeStep`, `TablesStep`): that `findCompletedAio` has a result in hand rests on the
  tables. The invariant `TablesInv` ties the tables, the operation
  being dispatched, the list `aio_suspend` was given and the life of every result
  together: a started operation is at its slot in both tables, a result in one
  table only is deferred, none is in two slots, slot 0 belongs to the notify pipe,
  the one being dispatched is in none. From it: `TablesAgreeHolds`,
  `SuspendedOnLiveHolds`, `DispatchedOnceHolds`, `WakeupPendingHolds` and
  `ImplementsOperationsHolds`. `StartedCountedHolds` and `NoUnderflowHolds` count the
  slots with it (`OneMore`, `OneLess`); they must be one induction, since whether a
  slot is free decides both. `CountersExactHolds` needs that the exception is for good:
  a deferred operation that no table knows stays lost, since no step puts a result
  that exists back into a table.
* **ReactorProofs.** `LoopInv` has seven parts. `Owners` and `Owned` make
  descriptors with an entry and live handlers a bijection; `InCallInv` and
  `StartInv` say why no other thread takes a descriptor between `close()` and
  `removeHandler`: only the loop opens descriptors by then, and it is inside that
  call. `AskedInv` and `CallsInv` carry what `select()` was asked for to the calls of
  the round. From it: `EntryIsOwnerHolds`, `CalledWhileRegisteredHolds`,
  `WakeupPendingHolds`; and, with `ReadyInv` and the hypothesis `~Interrupts`,
  `ReadyWhenDispatchedHolds`. Without it
  TLC finds a handler called with nothing to read (`ReadyWhenDispatched` as an
  invariant of `ReactorServer.cfg`).

* **StreamServerProofs.** `OwnersInv`: a handler that lives has the entry of its
  descriptor in `mConnections` (`Kept`), threads run for such handlers only
  (`ThreadsLive`), and a connection is that of a handler with its descriptor
  (`PeersOwn`). Two living handlers therefore never have one descriptor, and
  `LivingGetOwnHolds` follows although a Sender uses its descriptor after the close.
  `RegisteredInv` adds the Reactor's entries: `OpenIsRegisteredHolds`, and
  `OnlyReuseBreaksHolds`, which gives the violation of `NoDanglingEntry` its only cause:
  a deleted handler stays registered only where `mConnections` still has the entry of a
  connection that has ended.
  `EchoedHolds` and `TypeCorrect` are by `FlowInv`, which follows a request through the
  stream: the packets of the last request that was asked are cut in three between the
  client, the Receiver's queue and its buffer, or all of them are one text further on,
  between Receiver, ResponseMessage, MetaData and Sender; behind a Stop comes nothing.
  That a buffer that is full holds all packets of the request, and that sorting them
  gives the text that was meant (`SortedRequest`), rests on `IncreasingIsIdentity`: an
  increasing permutation of 1..n is the identity, shown by counting, since what `sort`
  computes cannot be reached by induction here. The model therefore says what `sort`
  gives (`Sortings`), and not how.

* **StreamLinksProofs.** `LinksInv` is an invariant of the owner's steps alone, since no
  other thread writes a link (`LinksStutter`): `ListInv` says that `Module::mNext` is a
  bijection from the head and the listed modules to these and the tail, `TaskInv` that
  the tasks' links follow it down and up but for those that `step` says are yet to be
  set (`WriterStale`, `ReaderStale`), `GoneInv` that only tasks of popped modules are
  stopped or deleted. `LinksMirrorHolds` is its case between two operations.
  `TypeCorrect` adds where a thread may be (`ThreadInv`). `QuietIsSafeHolds` is by
  `QuietInv`: as long as no operation began with a message on its way, every message is
  in a listed task (`HopInv`, `QueueInv`), and only between two operations, when
  `NextListed` gives it a task to go to and `NothingGone` keeps that from being deleted.
  `ImplementsStackHolds` is the step simulation of ModuleStack: the abstract stack is the
  sequence that `Module::mNext` leads along from head to tail (`Along`). `OneList` shows
  that there is one such sequence at most, by the least index at which two would differ;
  `StackInv` that there is one, without a module twice, and so of bounded length.
  `LinkStack` and `PopStack` say what the two writes of `mNext` do to it, `ListKept` that
  nothing else changes it, and `StackSteps` sorts all other steps into those that expose,
  close or break the stack and those it does not see. A step that breaks it is allowed
  because of `QuietInv`. This needs `Modules` to be finite, which memory is.
* **AcceptorConnectorProofs.** `ConnectInv` says which handlers own a descriptor (`Owns`:
  activated, pending, timed out, or in a call that has a socket), that no two own one
  (`OwnInv`), that the Reactor's entries are exactly those of pending and active handlers
  (`RepositoryInv`), and what a call has found out about its socket (`CallInv`). What the
  server and the system do to a socket is summed up in `Moves`. From it: `TypeCorrect`,
  whose two conditions on a waiting call rest on a timed-out socket having been started;
  `ActiveIsConnectedHolds`; `WatchedByOwnerHolds`, for which `NoEntryYet` shows that
  `registerHandler` never meets an entry that is there.
  `ImplementsConnectionsHolds` is the step simulation of Connections, one lemma per kind of
  step (`ConnectAsks`, `FinishAnswers`, `HandleOutputSettles`, `SendSends`,
  `HandleInputReplies`, `DiesEnds`; `SilentSteps` for those no handler is told of). What a
  handler is owed is counted on its socket, so it also needs `NetInv`: nothing is on its
  way but on a connection, and nothing to a server that is gone or on a socket that a
  failed call gives up; and that a descriptor is one handler's (`OwnersApart`), since a
  step on a socket must not show at another's connection.

`ReactorAssumption` contains the one condition that is about programs and not
types: where connections close their descriptors there are no connectors and at
most one listener. All the servers of the repository are like that, and
all the clients leave their descriptors open. Without it another thread's socket
could get a descriptor that still has an entry, and `registerHandler` would keep
the entry's old handler (Reactor.cpp:199).

Only model-checked: what needs fairness, which is liveness: `ImplementsFairChannel`,
`ImplementsFairOperations`, `ImplementsFairStack` and `ImplementsFairConnections` beyond
their safety parts (which are the four `Implements...Holds` above), `AwakeServesFront`,
`ShutdownEndsSleeper`, `GetReturns`, `ReadyIsServed`, `StreamEnds` and `RequestAnswered`.
The prover has no rule for leads-to under weak fairness, nor for ENABLED. Every safety
property of a passing run is a theorem.

## 7. Not modelled yet, and the plan

In this order:

1. StreamServer with the destruction of a stream whose threads run: what a
   repaired `close()` needs, now that StreamLinks shows what a stream's close does.
2. **ActiveObject**: ActivationQueue, Future and the client's MessageQueue together,
   refining a remote call that is answered once.
3. **TaskLifecycle**: `activate`, `wait`, and destructors that join late, for Task
   and for ActObjScheduler, whose queue is gone by then.
4. **HalfSync** (Reactor and MessageQueue, with a join in the loop's thread),
   **ProactorEcho** (buffers and handlers with operations in flight), **KeyValue**
   (parsing undoes formatting, as recursive functions).
5. Proofs: abstract specifications of the Reactor (a set of registered handlers), of the
   Future (a value that is set once or more) and of a stream (a queue of echoed
   requests), and that the modules implement them; what of the liveness properties is
   safety: that in no state a thread waits for one that waits for it.

Not modelled of what is:

* AcceptorConnector: failures of `fcntl` (SockStream.cpp:80-95, 112-127); a `::connect`
  that succeeds at once (SockConnector.cpp:54), which is like the success that `select` or
  the blocking call finds, and with a timeout of zero like that of a second call; an
  `accept()` that fails because the client is gone already; an `ETIMEDOUT` of the system's
  own, which `connectFinish` takes for the caller's timeout; the client closing an open
  connection (its `close()` does nothing).
* Proactor: a completion whose handler has gone, for which the dispatch is skipped
  (AsynchReadStream.cpp:79-83): handlers live as long as the model runs.
* StreamServer: descriptors that are open for the length of one call, such as those of
  `getaddrinfo` (MetaData.cpp:84), which would take the lowest free one for that time.
* StreamLinks: a task's `open()` that fails once the modules are linked
  (Stream.cpp:174-181), after which `push` answers -1 and leaves them so; `mStopThread` and
  `mStopRequested` are set in one step (`StopTask`), though another thread may see the first
  alone; `mPipePair` is cleared a moment after the task is deleted (Module.cpp:190), so that
  `getSibling` meets a deleted task in the model where the program may meet null.
* Everywhere: an interrupted system call, except in Reactor (no program here installs a
  signal handler); the destruction of handlers and of the Reactor at the end of a program.

Left out for good: logging (`Logger.hpp`); `ErrnoGuard`, of which only the effect on
what `connectFinish` answers matters, which AcceptorConnector has; the interactive
clients, which are input and output on one blocking socket; the contents of messages,
except where formatting is the point (KeyValue); the exhaustion of descriptors in the
`accept()` of the other servers, which ends the process.
