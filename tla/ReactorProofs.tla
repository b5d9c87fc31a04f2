---------------------------- MODULE ReactorProofs ----------------------------
(***************************************************************************)
(* Proofs about the Reactor for any number of handlers and descriptors.    *)
(* LoopInv is the inductive invariant: entries and live handlers own each  *)
(* other (Owners, Owned), the descriptor of a new handler has no entry     *)
(* because only the loop leaves one behind a close() (InCallInv, StartInv),*)
(* and the lists of a round hold what the repository asked for (AskedInv,  *)
(* CallsInv).                                                              *)
(***************************************************************************)
EXTENDS Reactor, TLAPS

\* A handler that has an entry.
Live(h) == life[h] \in {"registered", "closing"}

Owners ==
    \A h \in Handlers :
        Live(h) => /\ fdOf[h] \in Fds
                   /\ repository[fdOf[h]] # NoEntry
                   /\ repository[fdOf[h]].evHandler = h

Owned ==
    \A f \in Fds :
        repository[f] # NoEntry =>
            /\ Live(repository[f].evHandler)
            /\ fdOf[repository[f].evHandler] = f
            /\ life[repository[f].evHandler] = "registered" => f \in open

InCallInv ==
    \A c \in Handlers : life[c] = "closing" => loop = "read" /\ c \in Connections /\ Closing

StartInv ==
    Closing /\ (\E c \in Connections : life[c] # "unused") =>
        \A l \in Listeners : life[l] # "unused"

AskedInv ==
    loop \in {"select", "drain", "snapshot"} =>
        /\ \A f \in readfds : repository[f] # NoEntry /\ WantsRead(f)
        /\ \A f \in writefds : repository[f] # NoEntry /\ ~WantsRead(f)

CallsInv ==
    /\ loop = "read" =>
           \A h \in readhandles : life[h] = "registered" /\ WantsRead(fdOf[h])
    /\ loop \in {"read", "write"} =>
           \A n \in writehandles : life[n] = "registered" /\ ~WantsRead(fdOf[n])

LoopInv == TypeOK /\ Owners /\ Owned /\ InCallInv /\ StartInv /\ AskedInv /\ CallsInv

\* What select() said stays true until it is acted upon.
ReadyInv ==
    /\ loop \in {"drain", "snapshot"} => readfds \subseteq readable /\ writefds \subseteq writable
    /\ ReadyWhenDispatched
-------------------------------------------------------------------------------
\* registerHandler() for a descriptor without an entry makes one.
LEMMA RegisteredFree ==
    ASSUME NEW repo \in [Fds -> Entries \cup {NoEntry}], NEW f \in Fds,
           NEW h \in Handlers, NEW mask \in SUBSET Masks, mask # {},
           repo[f] = NoEntry
    PROVE  /\ Registered(repo, f, h, mask)
                  = [repo EXCEPT ![f] = [evHandler |-> h, mask |-> mask]]
           /\ Registered(repo, f, h, mask) \in [Fds -> Entries \cup {NoEntry}]
<1>1. [evHandler |-> h, mask |-> mask] \in Entries
  BY DEF Entries
<1> QED
  BY <1>1 DEF Registered

\* removeHandler() with ALL_EVENTS_MASK takes the entry out.
LEMMA RemovedAll ==
    ASSUME NEW repo \in [Fds -> Entries \cup {NoEntry}], NEW f \in Fds,
           repo[f] # NoEntry
    PROVE  /\ Removed(repo, f, Masks) = [repo EXCEPT ![f] = NoEntry]
           /\ Removed(repo, f, Masks) \in [Fds -> Entries \cup {NoEntry}]
  <1>1. repo[f].mask \ Masks = {}
    BY DEF Entries
  <1>2. QED
    BY <1>1 DEF Removed

\* Two handlers with entries have two descriptors.
LEMMA DistinctFds ==
    ASSUME Owners, NEW h \in Handlers, NEW k \in Handlers, Live(h), Live(k), h # k
    PROVE  fdOf[h] # fdOf[k]
  BY DEF Owners

\* A descriptor another thread gets for a new handler has no entry: where an entry
\* may outlive its descriptor, nobody opens one outside the loop.
LEMMA FreshFd ==
    ASSUME LoopInv, NEW f \in Fds \ open, NEW h \in Listeners \cup Connectors,
           life[h] = "unused"
    PROVE  repository[f] = NoEntry
  <1>1. SUFFICES ASSUME repository[f] # NoEntry PROVE FALSE
    OBVIOUS
  <1> DEFINE c == repository[f].evHandler
  <1>2. c \in Handlers
    BY <1>1 DEF LoopInv, TypeOK, Entries
  <1>3. life[c] = "closing"
    BY <1>1 DEF LoopInv, Owned, Live
  <1>4. c \in Connections /\ Closing
    BY <1>2, <1>3 DEF LoopInv, InCallInv
  <1>5. life[h] # "unused"
    BY <1>3, <1>4, ReactorAssumption DEF LoopInv, StartInv
  <1>6. QED
    BY <1>5

\* Between the loop's calls every descriptor of an entry is open.
LEMMA FreeFd ==
    ASSUME LoopInv, ~InCall, NEW f \in Fds \ open
    PROVE  repository[f] = NoEntry
  <1>1. SUFFICES ASSUME repository[f] # NoEntry PROVE FALSE
    OBVIOUS
  <1> DEFINE c == repository[f].evHandler
  <1>2. c \in Handlers
    BY <1>1 DEF LoopInv, TypeOK, Entries
  <1>3. life[c] = "closing"
    BY <1>1 DEF LoopInv, Owned, Live
  <1>4. c \in Connections
    BY <1>2, <1>3 DEF LoopInv, InCallInv
  <1>5. QED
    BY <1>3, <1>4 DEF InCall
-------------------------------------------------------------------------------
LEMMA InitLoopInv == Init => LoopInv
  <1> SUFFICES ASSUME Init PROVE LoopInv
    OBVIOUS
  <1>1. TypeOK
    BY ReactorAssumption DEF Init, TypeOK, Life, LoopState
  <1>2. Owners /\ InCallInv /\ StartInv
    BY DEF Init, Owners, InCallInv, StartInv, Live, Handlers
  <1>3. Owned /\ AskedInv /\ CallsInv
    BY DEF Init, Owned, AskedInv, CallsInv
  <1>4. QED
    BY <1>1, <1>2, <1>3 DEF LoopInv

\* A step that gives handler h an entry of its own, for a descriptor f that has
\* none or whose handler gives it up.
NewEntry(h, f, mask) ==
    /\ repository' = [repository EXCEPT ![f] = [evHandler |-> h, mask |-> mask]]
    /\ life[h] = "unused" /\ life'[h] = "registered" /\ fdOf'[h] = f
    /\ f \in open' /\ open \subseteq open'
    /\ UNCHANGED <<loop, readfds, writefds>>
    /\ loop \in {"select", "drain", "snapshot"} => repository[f] = NoEntry
    /\ \A k \in Handlers \ {h} :
           IF Live(k) /\ fdOf[k] # f THEN fdOf'[k] = fdOf[k] /\ life'[k] = life[k]
                                    ELSE ~Live(k)'
    /\ \A k \in Handlers : life[k] # "unused" => life'[k] # "unused"
    /\ \A k \in Handlers :
           life[k] = "registered" /\ (k \in writehandles' \/ (loop = "read" /\ k \in readhandles'))
               => life'[k] = "registered"
    /\ readhandles' \subseteq readhandles /\ writehandles' \subseteq writehandles
    /\ \A k \in Connections : Closing /\ life'[k] # "unused" =>
           \A l \in Listeners : life[l] # "unused"

\* It keeps the invariant: no entry the loop has asked select() about and no call
\* it still has to make is concerned.
LEMMA NewEntryKeeps ==
    ASSUME LoopInv, TypeOK', NEW h \in Handlers, NEW f \in Fds, NEW mask \in SUBSET Masks,
           mask # {}, NewEntry(h, f, mask)
    PROVE  LoopInv'
  <1> USE DEF NewEntry
  <1>t. /\ repository \in [Fds -> Entries \cup {NoEntry}]
        /\ readhandles \subseteq Handlers /\ writehandles \subseteq Handlers
        /\ readfds \subseteq Fds /\ writefds \subseteq Fds
    BY DEF LoopInv, TypeOK
  <1>x. open \subseteq open'
    OBVIOUS
  <1>e. [evHandler |-> h, mask |-> mask] # NoEntry
    <2>1. [evHandler |-> h, mask |-> mask] \in Entries
      BY DEF Entries
    <2> QED
      BY <2>1, NoEntryAssumption
  <1>o. repository'[f] # NoEntry /\ repository'[f].evHandler = h
    BY <1>t, <1>e
  <1>g. ASSUME NEW g \in Fds, g # f
        PROVE  repository'[g] = repository[g]
    BY <1>t, <1>g
  <1>k. ASSUME NEW k \in Handlers, k # h, Live(k)'
        PROVE  /\ fdOf'[k] = fdOf[k] /\ life'[k] = life[k] /\ Live(k)
               /\ fdOf[k] # f /\ fdOf[k] \in Fds
               /\ repository[fdOf[k]] # NoEntry /\ repository[fdOf[k]].evHandler = k
    <2>1. fdOf'[k] = fdOf[k] /\ life'[k] = life[k] /\ fdOf[k] # f
      BY <1>k
    <2>2. Live(k)
      BY <2>1, <1>k DEF Live
    <2>3. QED
      BY <2>1, <2>2 DEF LoopInv, Owners
  <1>1. Owners'
    <2> SUFFICES ASSUME NEW k \in Handlers, Live(k)'
                 PROVE  /\ fdOf'[k] \in Fds
                        /\ repository'[fdOf'[k]] # NoEntry
                        /\ repository'[fdOf'[k]].evHandler = k
      BY DEF Owners
    <2>1. CASE k = h
      BY <2>1, <1>o
    <2>2. CASE k # h
      BY <2>2, <1>k, <1>g
    <2>3. QED
      BY <2>1, <2>2
  <1>2. Owned'
    <2> SUFFICES ASSUME NEW g \in Fds, repository'[g] # NoEntry
                 PROVE  /\ Live(repository[g].evHandler)'
                        /\ fdOf'[repository'[g].evHandler] = g
                        /\ life'[repository'[g].evHandler] = "registered" => g \in open'
      BY DEF Owned
    <2>1. CASE g = f
      BY <2>1, <1>o DEF Live
    <2>2. CASE g # f
      <3> DEFINE k == repository[g].evHandler
      <3>1. repository[g] # NoEntry /\ repository'[g].evHandler = k
        BY <2>2, <1>g
      <3>2. k \in Handlers
        BY <3>1, <1>t DEF Entries
      <3>3. Live(k) /\ fdOf[k] = g /\ (life[k] = "registered" => g \in open)
        BY <3>1 DEF LoopInv, Owned
      <3>4. k # h
        BY <3>3 DEF Live
      <3>5. fdOf'[k] = fdOf[k] /\ life'[k] = life[k]
        BY <3>2, <3>3, <3>4, <2>2
      <3>6. QED
        BY <3>1, <3>3, <3>5, <1>x DEF Live
    <2>3. QED
      BY <2>1, <2>2
  <1>3. InCallInv'
    BY <1>k DEF LoopInv, InCallInv, Live
  <1>4. StartInv'
    BY DEF StartInv, Handlers
  <1>5. AskedInv'
    <2> SUFFICES ASSUME loop \in {"select", "drain", "snapshot"}
                 PROVE  /\ \A g \in readfds : repository'[g] # NoEntry /\ WantsRead(g)'
                        /\ \A g \in writefds : repository'[g] # NoEntry /\ ~WantsRead(g)'
      BY DEF AskedInv
    <2>1. \A g \in readfds \cup writefds : g \in Fds /\ g # f
      BY <1>t DEF LoopInv, AskedInv
    <2>2. QED
      BY <2>1, <1>g DEF LoopInv, AskedInv, WantsRead
  <1>6. CallsInv'
    <2>1. ASSUME NEW k \in Handlers, life[k] = "registered",
                 k \in writehandles' \/ (loop = "read" /\ k \in readhandles')
          PROVE  life'[k] = "registered" /\ (WantsRead(fdOf[k])' <=> WantsRead(fdOf[k]))
      <3>1. life'[k] = "registered" /\ k # h /\ k \in Handlers
        BY <2>1
      <3>2. fdOf'[k] = fdOf[k] /\ fdOf[k] # f /\ fdOf[k] \in Fds
        BY <3>1, <1>k DEF Live
      <3>3. QED
        BY <3>1, <3>2, <1>g DEF WantsRead
    <2>2. ASSUME NEW k \in readhandles', loop = "read"
          PROVE  life'[k] = "registered" /\ WantsRead(fdOf[k])'
      <3>1. k \in Handlers /\ k \in readhandles
        BY <1>t
      <3>2. life[k] = "registered" /\ WantsRead(fdOf[k])
        BY <2>2, <3>1 DEF LoopInv, CallsInv
      <3>3. QED
        BY <2>1, <2>2, <3>1, <3>2
    <2>3. ASSUME NEW k \in writehandles', loop \in {"read", "write"}
          PROVE  life'[k] = "registered" /\ ~WantsRead(fdOf[k])'
      <3>1. k \in Handlers /\ k \in writehandles
        BY <1>t
      <3>2. life[k] = "registered" /\ ~WantsRead(fdOf[k])
        BY <2>3, <3>1 DEF LoopInv, CallsInv
      <3>3. QED
        BY <2>1, <3>1, <3>2
    <2>4. QED
      BY <2>2, <2>3 DEF CallsInv
  <1>7. QED
    BY <1>1, <1>2, <1>3, <1>4, <1>5, <1>6 DEF LoopInv

\* A step that takes the entry of handler h away.
EntryGone(h) ==
    /\ Live(h)
    /\ repository' = [repository EXCEPT ![fdOf[h]] = NoEntry]
    /\ life' = [life EXCEPT ![h] = "removed"]
    /\ UNCHANGED <<fdOf, open, loop, readfds, writefds>>
    /\ loop \in {"read", "write"}
    /\ loop = "read" => h \notin readhandles'
    /\ h \notin writehandles'
    /\ readhandles' \subseteq readhandles /\ writehandles' \subseteq writehandles

\* It keeps the invariant, as the loop has no call of h left to make.
LEMMA EntryGoneKeeps ==
    ASSUME LoopInv, TypeOK', NEW h \in Handlers, EntryGone(h)
    PROVE  LoopInv'
  <1> USE DEF EntryGone
  <1>t. /\ repository \in [Fds -> Entries \cup {NoEntry}]
        /\ life \in [Handlers -> Life]
        /\ readhandles \subseteq Handlers /\ writehandles \subseteq Handlers
    BY DEF LoopInv, TypeOK
  <1>o. fdOf[h] \in Fds /\ repository[fdOf[h]] # NoEntry /\ repository[fdOf[h]].evHandler = h
    BY DEF LoopInv, Owners
  <1>g. /\ repository'[fdOf[h]] = NoEntry
        /\ \A g \in Fds : g # fdOf[h] => repository'[g] = repository[g]
    BY <1>t, <1>o
  <1>k. /\ ~Live(h)'
        /\ \A k \in Handlers : k # h => life'[k] = life[k] /\ (Live(k)' <=> Live(k))
    BY <1>t DEF Live
  <1>d. \A k \in Handlers : k # h /\ Live(k) => fdOf[k] # fdOf[h]
    BY <1>o DEF LoopInv, Owners
  <1>1. Owners'
    BY <1>g, <1>k, <1>d DEF LoopInv, Owners
  <1>2. Owned'
    <2> SUFFICES ASSUME NEW g \in Fds, repository'[g] # NoEntry
                 PROVE  /\ Live(repository[g].evHandler)'
                        /\ fdOf[repository'[g].evHandler] = g
                        /\ life'[repository'[g].evHandler] = "registered" => g \in open
      BY DEF Owned
    <2> DEFINE k == repository[g].evHandler
    <2>1. g # fdOf[h] /\ repository'[g] = repository[g] /\ repository[g] # NoEntry
      BY <1>g
    <2>2. k \in Handlers /\ Live(k) /\ fdOf[k] = g /\ (life[k] = "registered" => g \in open)
      BY <2>1, <1>t DEF LoopInv, Owned, Entries
    <2>3. k # h
      BY <2>1, <2>2
    <2>4. QED
      BY <2>1, <2>2, <2>3, <1>k
  <1>3. InCallInv'
    BY <1>k, <1>t DEF LoopInv, InCallInv
  <1>4. StartInv'
    BY <1>k, <1>t DEF LoopInv, StartInv, Handlers, Live
  <1>5. AskedInv'
    BY DEF AskedInv
  <1>6. CallsInv'
    <2>1. ASSUME NEW k \in Handlers, k # h, life[k] = "registered"
          PROVE  life'[k] = "registered" /\ (WantsRead(fdOf[k])' <=> WantsRead(fdOf[k]))
      <3>1. fdOf[k] \in Fds /\ fdOf[k] # fdOf[h]
        BY <2>1, <1>d DEF LoopInv, Owners, Live
      <3>2. QED
        BY <3>1, <2>1, <1>g, <1>k DEF WantsRead
    <2>2. QED
      BY <2>1, <1>t DEF LoopInv, CallsInv
  <1>7. QED
    BY <1>1, <1>2, <1>3, <1>4, <1>5, <1>6 DEF LoopInv

-------------------------------------------------------------------------------
\* Every action of a component that calls no handler and keeps the repository.
LEMMA QuietKeeps ==
    ASSUME LoopInv, TypeOK', UNCHANGED <<repository, fdOf, life, open>>,
           ~InCall \/ loop' = loop,
           AskedInv', CallsInv'
    PROVE  LoopInv'
  <1>1. Owners' /\ Owned' /\ StartInv'
    BY DEF LoopInv, Owners, Owned, StartInv, Live
  <1>2. InCallInv'
    BY DEF LoopInv, InCallInv, InCall
  <1>3. QED
    BY <1>1, <1>2 DEF LoopInv

LEMMA NetworkKeeps ==
    ASSUME LoopInv, NEW f \in Fds, BecomesReadable(f) \/ BecomesWritable(f)
    PROVE  LoopInv'
  <1>1. TypeOK'
    BY DEF LoopInv, TypeOK, BecomesReadable, BecomesWritable, round
  <1>2. /\ UNCHANGED <<repository, fdOf, life, open, loop, readfds, writefds>>
        /\ UNCHANGED <<readhandles, writehandles>>
    BY DEF BecomesReadable, BecomesWritable, round
  <1>3. AskedInv' /\ CallsInv'
    BY <1>2 DEF LoopInv, AskedInv, CallsInv, WantsRead
  <1>4. QED
    BY <1>1, <1>2, <1>3, QuietKeeps

\* An entry is the one of its handler's descriptor.
LEMMA HandleIsFd ==
    ASSUME LoopInv
    PROVE  /\ \A f \in Present : Handle(f) = f
           /\ ReadSet = {f \in Present : WantsRead(f)}
           /\ WriteSet = {f \in Present :
                             ~WantsRead(f) /\ "CONNECT_MASK" \in repository[f].mask}
           /\ \A fds : ToCall(fds) = {repository[f].evHandler : f \in Present \cap fds}
  <1>1. \A f \in Present : Handle(f) = f
    BY DEF LoopInv, Owned, Present, Handle
  <1>2. QED
    BY <1>1 DEF ReadSet, WriteSet, ToCall

\* The steps of handleEvents() between its calls.
LEMMA LoopKeeps ==
    ASSUME LoopInv,
           Build \/ Select \/ SelectFails \/ Drain \/ Snapshot \/ ReadsOver \/ WritesOver
    PROVE  LoopInv'
  <1>t. /\ repository \in [Fds -> Entries \cup {NoEntry}]
        /\ wakeup \in Nat /\ DrainSize \in Nat /\ readfds \subseteq Fds /\ writefds \subseteq Fds
        /\ loop \in LoopState
    BY ReactorAssumption DEF LoopInv, TypeOK
  <1>q. UNCHANGED <<repository, fdOf, life, open, readable, writable>>
    BY DEF Build, Select, SelectFails, Drain, Snapshot, ReadsOver, WritesOver, kernel
  <1>c. ~InCall
    <2>1. CASE ReadsOver
      BY <2>1 DEF ReadsOver
    <2>2. CASE Build \/ Select \/ SelectFails \/ Drain \/ Snapshot \/ WritesOver
      <3>1. loop # "read"
        BY <2>2 DEF Build, Select, SelectFails, Drain, Snapshot, WritesOver
      <3>2. QED
        BY <3>1 DEF LoopInv, InCallInv, InCall, Handlers
    <2>3. QED
      BY <2>1, <2>2
  <1>1. CASE Build
    <2>1. TypeOK'
      BY <1>1, <1>q, HandleIsFd DEF LoopInv, TypeOK, Build, Present, LoopState
    <2>2. AskedInv' /\ CallsInv'
      BY <1>1, <1>q, HandleIsFd DEF Build, AskedInv, CallsInv, Present, WantsRead
    <2>3. QED
      BY <2>1, <2>2, <1>q, <1>c, QuietKeeps
  <1>2. CASE Select
    <2>1. TypeOK'
      BY <1>2, <1>q, <1>t DEF LoopInv, TypeOK, Select, Ready, LoopState
    <2>2. AskedInv' /\ CallsInv'
      BY <1>2, <1>q DEF Select, Ready, LoopInv, AskedInv, CallsInv, WantsRead
    <2>3. QED
      BY <2>1, <2>2, <1>q, <1>c, QuietKeeps
  <1>3. CASE SelectFails
    <2>1. TypeOK'
      BY <1>3, <1>q DEF LoopInv, TypeOK, SelectFails, LoopState, round
    <2>2. AskedInv' /\ CallsInv'
      BY <1>3, <1>q DEF SelectFails, LoopInv, AskedInv, CallsInv, WantsRead, round
    <2>3. QED
      BY <2>1, <2>2, <1>q, <1>c, QuietKeeps
  <1>4. CASE Drain
    <2>1. wakeup' \in Nat
      BY <1>4, <1>t DEF Drain, Drained
    <2>2. TypeOK'
      BY <1>4, <1>q, <2>1 DEF LoopInv, TypeOK, Drain, LoopState, round
    <2>3. AskedInv' /\ CallsInv'
      BY <1>4, <1>q DEF Drain, LoopInv, AskedInv, CallsInv, WantsRead, round
    <2>4. QED
      BY <2>2, <2>3, <1>q, <1>c, QuietKeeps
  <1>5. CASE Snapshot
    <2>h. ASSUME NEW f \in Fds, repository[f] # NoEntry
          PROVE  /\ repository[f].evHandler \in Handlers
                 /\ fdOf[repository[f].evHandler] = f
                 /\ life[repository[f].evHandler] = "registered"
      <3>1. repository[f].evHandler \in Handlers
        BY <2>h, <1>t DEF Entries
      <3>2. Live(repository[f].evHandler) /\ fdOf[repository[f].evHandler] = f
        BY <2>h DEF LoopInv, Owned
      <3>3. loop # "read"
        BY <1>5 DEF Snapshot
      <3>4. QED
        BY <3>1, <3>2, <3>3 DEF Live, LoopInv, InCallInv
    <2>1. readhandles' \subseteq Handlers /\ writehandles' \subseteq Handlers
      BY <1>5, <2>h, HandleIsFd DEF Snapshot, Present
    <2>2. TypeOK'
      BY <1>5, <1>q, <2>1 DEF LoopInv, TypeOK, Snapshot, LoopState
    <2>3. AskedInv'
      BY <1>5 DEF Snapshot, AskedInv
    <2>4. ASSUME NEW h \in readhandles'
          PROVE  life'[h] = "registered" /\ WantsRead(fdOf[h])'
      <3>1. PICK f \in Present \cap readfds : h = repository[f].evHandler
        BY <1>5, <2>4, HandleIsFd DEF Snapshot
      <3>2. WantsRead(f)
        BY <1>5, <3>1 DEF Snapshot, LoopInv, AskedInv
      <3>3. QED
        BY <3>1, <3>2, <2>h, <1>q DEF Present, WantsRead
    <2>5. ASSUME NEW h \in writehandles'
          PROVE  life'[h] = "registered" /\ ~WantsRead(fdOf[h])'
      <3>1. PICK f \in Present \cap writefds : h = repository[f].evHandler
        BY <1>5, <2>5, HandleIsFd DEF Snapshot
      <3>2. ~WantsRead(f)
        BY <1>5, <3>1 DEF Snapshot, LoopInv, AskedInv
      <3>3. QED
        BY <3>1, <3>2, <2>h, <1>q DEF Present, WantsRead
    <2>6. CallsInv'
      BY <2>4, <2>5, <1>q DEF CallsInv
    <2>7. QED
      BY <2>2, <2>3, <2>6, <1>q, <1>c, QuietKeeps
  <1>6. CASE ReadsOver \/ WritesOver
    <2>1. TypeOK'
      BY <1>6, <1>q DEF LoopInv, TypeOK, ReadsOver, WritesOver, LoopState, round
    <2>2. AskedInv' /\ CallsInv'
      BY <1>6, <1>q DEF ReadsOver, WritesOver, LoopInv, AskedInv, CallsInv, WantsRead, round
    <2>3. QED
      BY <2>1, <2>2, <1>q, <1>c, QuietKeeps
  <1>7. QED
    BY <1>1, <1>2, <1>3, <1>4, <1>5, <1>6

\* Acceptor::open() and Connector::nonblockingConnect().
LEMMA OpenAndRegisterKeeps ==
    ASSUME LoopInv, NEW h \in Listeners \cup Connectors, NEW mask \in SUBSET Masks, mask # {},
           OpenAndRegister(h, mask)
    PROVE  LoopInv'
  <1>h. h \in Handlers /\ h \notin Connections /\ life[h] = "unused"
    BY ReactorAssumption DEF OpenAndRegister, Handlers
  <1>t. /\ repository \in [Fds -> Entries \cup {NoEntry}]
        /\ fdOf \in [Handlers -> Fds \cup {NoFd}] /\ life \in [Handlers -> Life]
        /\ wakeup \in Nat
    BY DEF LoopInv, TypeOK
  <1>1. PICK f \in Fds \ open :
           /\ open' = open \cup {f}
           /\ fdOf' = [fdOf EXCEPT ![h] = f]
           /\ repository' = Registered(repository, f, h, mask)
    BY DEF OpenAndRegister
  <1>2. repository[f] = NoEntry
    BY <1>h, FreshFd
  <1>3. /\ repository' = [repository EXCEPT ![f] = [evHandler |-> h, mask |-> mask]]
        /\ repository' \in [Fds -> Entries \cup {NoEntry}]
    BY <1>1, <1>2, <1>h, <1>t, RegisteredFree
  <1>4. /\ life' = [life EXCEPT ![h] = "registered"]
        /\ UNCHANGED <<readable, writable, loop, readfds, writefds, wakefd>>
        /\ UNCHANGED <<readhandles, writehandles>>
    BY DEF OpenAndRegister, round
  <1>5. wakeup' \in Nat
    BY <1>t DEF OpenAndRegister, NotifySelectLoop
  <1>6. TypeOK'
    BY <1>h, <1>1, <1>3, <1>4, <1>5 DEF LoopInv, TypeOK, Life
  <1>7. life'[h] = "registered" /\ fdOf'[h] = f /\ f \in open' /\ open \subseteq open'
    BY <1>h, <1>t, <1>1, <1>4
  <1>8. \A k \in Handlers \ {h} : life'[k] = life[k] /\ fdOf'[k] = fdOf[k]
    BY <1>t, <1>1, <1>4
  <1>9. \A k \in Handlers \ {h} : Live(k) => fdOf[k] # f
    BY <1>2 DEF LoopInv, Owners
  <1>10. \A k \in Handlers \ {h} : Live(k)' <=> Live(k)
    BY <1>8 DEF Live
  <1>11. \A k \in Handlers :
            /\ life[k] # "unused" => life'[k] # "unused"
            /\ life[k] = "registered" => life'[k] = "registered"
    BY <1>7, <1>8, <1>h
  <1>12. \A k \in Connections : Closing /\ life'[k] # "unused" =>
            \A l \in Listeners : life[l] # "unused"
    BY <1>8, <1>h DEF LoopInv, StartInv, Handlers
  <1>14. \A k \in Handlers \ {h} :
            IF Live(k) /\ fdOf[k] # f THEN fdOf'[k] = fdOf[k] /\ life'[k] = life[k]
                                     ELSE ~Live(k)'
    BY <1>8, <1>9, <1>10
  <1>16. \A k \in Handlers : life[k] # "unused" => life'[k] # "unused"
    BY <1>11
  <1>17. /\ UNCHANGED <<loop, readfds, writefds>>
         /\ readhandles' \subseteq readhandles /\ writehandles' \subseteq writehandles
    BY <1>4
  <1>18. NewEntry(h, f, mask)
    BY <1>h, <1>2, <1>3, <1>7, <1>12, <1>11, <1>14, <1>16, <1>17 DEF NewEntry
  <1>19. QED
    BY <1>h, <1>6, <1>18, NewEntryKeeps

-------------------------------------------------------------------------------
\* The calls.  A call takes its handler out of the list of those left to call.
LEMMA CallTakesOut ==
    ASSUME NEW h, NEW list, NEW rest \in AfterCall(h, list)
    PROVE  rest \subseteq list /\ h \notin rest
  BY DEF AfterCall

LEMMA InputCall ==
    ASSUME LoopInv, NEW h \in Handlers, CallInput(h)
    PROVE  /\ loop = "read" /\ ~InCall /\ life[h] = "registered" /\ Live(h)
           /\ WantsRead(fdOf[h]) /\ h \notin writehandles
           /\ fdOf[h] \in Fds /\ repository[fdOf[h]] # NoEntry
           /\ readhandles' \subseteq readhandles /\ h \notin readhandles'
           /\ UNCHANGED <<loop, readfds, writefds, wakefd, writehandles>>
  <1>1. loop = "read" /\ ~InCall /\ life[h] = "registered" /\ h \in readhandles
    BY DEF CallInput
  <1>2. WantsRead(fdOf[h]) /\ h \notin writehandles
    BY <1>1 DEF LoopInv, CallsInv
  <1>3. readhandles' \subseteq readhandles /\ h \notin readhandles'
    BY CallTakesOut DEF CallInput
  <1>4. Live(h) /\ fdOf[h] \in Fds /\ repository[fdOf[h]] # NoEntry
    BY <1>1 DEF LoopInv, Owners, Live
  <1>5. QED
    BY <1>1, <1>2, <1>3, <1>4 DEF CallInput

LEMMA OutputCall ==
    ASSUME LoopInv, NEW n \in Handlers, CallOutput(n)
    PROVE  /\ loop = "write" /\ life[n] = "registered" /\ Live(n)
           /\ fdOf[n] \in Fds /\ repository[fdOf[n]] # NoEntry
           /\ repository[fdOf[n]].evHandler = n /\ fdOf[n] \in open
           /\ writehandles' \subseteq writehandles /\ n \notin writehandles'
           /\ UNCHANGED <<open, readable, writable, loop, readfds, writefds, wakefd, readhandles>>
  <1>1. loop = "write" /\ life[n] = "registered" /\ Live(n)
    BY DEF CallOutput, Live
  <1>2. writehandles' \subseteq writehandles /\ n \notin writehandles'
    BY CallTakesOut DEF CallOutput
  <1>3. fdOf[n] \in Fds /\ repository[fdOf[n]] # NoEntry /\ repository[fdOf[n]].evHandler = n
    BY <1>1 DEF LoopInv, Owners
  <1>4. fdOf[n] \in open
    BY <1>1, <1>3 DEF LoopInv, Owned
  <1>5. QED
    BY <1>1, <1>2, <1>3, <1>4 DEF CallOutput, kernel

LEMMA AcceptKeeps ==
    ASSUME LoopInv, NEW l \in Listeners, AcceptConnection(l)
    PROVE  LoopInv'
  <1>l. l \in Handlers /\ CallInput(l)
    BY DEF AcceptConnection, Handlers
  <1>i. /\ loop = "read" /\ ~InCall /\ life[l] = "registered"
        /\ readhandles' \subseteq readhandles
        /\ UNCHANGED <<loop, readfds, writefds, wakefd, writehandles>>
    BY <1>l, InputCall
  <1>t. /\ repository \in [Fds -> Entries \cup {NoEntry}]
        /\ fdOf \in [Handlers -> Fds \cup {NoFd}] /\ life \in [Handlers -> Life]
        /\ wakeup \in Nat /\ readhandles \subseteq Handlers /\ writehandles \subseteq Handlers
    BY DEF LoopInv, TypeOK
  <1>m. PICK mask \in SUBSET Masks : mask = {"READ_MASK"} /\ mask # {}
    BY DEF Masks
  <1>1. PICK c \in Connections, f \in Fds \ open :
           /\ life[c] = "unused"
           /\ open' = open \cup {f}
           /\ fdOf' = [fdOf EXCEPT ![c] = f]
           /\ life' = [life EXCEPT ![c] = "registered"]
           /\ repository' = Registered(repository, f, c, mask)
    BY <1>m DEF AcceptConnection
  <1>2. c \in Handlers /\ f \in Fds
    BY DEF Handlers
  <1>3. repository[f] = NoEntry
    BY <1>i, FreeFd
  <1>4. /\ repository' = [repository EXCEPT ![f] = [evHandler |-> c, mask |-> mask]]
        /\ repository' \in [Fds -> Entries \cup {NoEntry}]
    <2>1. mask # {} /\ repository' = Registered(repository, f, c, mask)
      BY <1>1, <1>m
    <2> QED
      BY <1>2, <1>3, <1>t, <2>1, RegisteredFree
  <1>5. wakeup' \in Nat
    BY <1>t DEF AcceptConnection, NotifySelectLoop
  <1>6. UNCHANGED writable /\ readable' \subseteq readable
    BY DEF AcceptConnection
  <1>7. TypeOK'
    BY <1>1, <1>2, <1>4, <1>5, <1>6, <1>i DEF LoopInv, TypeOK, Life
  <1>8. life'[c] = "registered" /\ fdOf'[c] = f /\ f \in open' /\ open \subseteq open'
    BY <1>1, <1>2, <1>t
  <1>9. \A k \in Handlers \ {c} :
           /\ life'[k] = life[k] /\ fdOf'[k] = fdOf[k]
           /\ Live(k)' <=> Live(k)
           /\ Live(k) => fdOf[k] # f
    <2>1. \A k \in Handlers \ {c} : life'[k] = life[k] /\ fdOf'[k] = fdOf[k]
      BY <1>1, <1>t
    <2>2. \A k \in Handlers : Live(k) => fdOf[k] # f
      BY <1>3 DEF LoopInv, Owners
    <2>3. QED
      BY <2>1, <2>2 DEF Live
  <1>10. \A k \in Handlers : /\ life[k] # "unused" => life'[k] # "unused"
                             /\ life[k] = "registered" => life'[k] = "registered"
    BY <1>1, <1>8, <1>9
  <1>12. Closing => \A j \in Listeners : life[j] # "unused"
    BY <1>i, ReactorAssumption
  <1>13. NewEntry(c, f, mask)
    BY <1>1, <1>3, <1>4, <1>8, <1>9, <1>10, <1>12, <1>i DEF NewEntry
  <1>14. QED
    BY <1>2, <1>7, <1>13, <1>m, NewEntryKeeps

LEMMA ConnectedKeeps ==
    ASSUME LoopInv, NEW n \in Connectors, Connected(n)
    PROVE  LoopInv'
  <1>l. n \in Handlers /\ n \notin Connections /\ CallOutput(n)
    BY ReactorAssumption DEF Connected, Handlers
  <1>i. /\ loop = "write" /\ life[n] = "registered" /\ Live(n)
        /\ fdOf[n] \in Fds /\ repository[fdOf[n]] # NoEntry
        /\ repository[fdOf[n]].evHandler = n /\ fdOf[n] \in open
        /\ writehandles' \subseteq writehandles /\ n \notin writehandles'
        /\ UNCHANGED <<open, readable, writable, loop, readfds, writefds, wakefd, readhandles>>
    BY <1>l, OutputCall
  <1>t. /\ repository \in [Fds -> Entries \cup {NoEntry}]
        /\ fdOf \in [Handlers -> Fds \cup {NoFd}] /\ life \in [Handlers -> Life]
        /\ wakeup \in Nat /\ readhandles \subseteq Handlers /\ writehandles \subseteq Handlers
    BY DEF LoopInv, TypeOK
  <1>f. PICK f \in Fds : f = fdOf[n]
    BY <1>i
  <1>m. PICK mask \in SUBSET Masks : mask = {"READ_MASK"} /\ mask # {}
    BY DEF Masks
  <1>1. PICK c \in Connections :
           /\ life[c] = "unused"
           /\ fdOf' = [fdOf EXCEPT ![c] = f]
           /\ life' = [life EXCEPT ![n] = "removed", ![c] = "registered"]
           /\ repository' = Registered(Removed(repository, f, Masks), f, c, mask)
    BY <1>f, <1>m DEF Connected
  <1>2. c \in Handlers /\ c # n
    BY <1>l DEF Handlers
  <1>3. PICK repo \in [Fds -> Entries \cup {NoEntry}] :
           /\ repo = Removed(repository, f, Masks)
           /\ repo = [repository EXCEPT ![f] = NoEntry]
    BY <1>i, <1>t, <1>f, RemovedAll
  <1>4. /\ repository' = [repo EXCEPT ![f] = [evHandler |-> c, mask |-> mask]]
        /\ repository' \in [Fds -> Entries \cup {NoEntry}]
    <2>1. repo[f] = NoEntry /\ repository' = Registered(repo, f, c, mask)
      BY <1>1, <1>3, <1>t
    <2>2. mask # {}
      BY <1>m
    <2> QED
      BY <1>2, <2>1, <2>2, RegisteredFree
  <1>5. repository' = [repository EXCEPT ![f] = [evHandler |-> c, mask |-> mask]]
    BY <1>3, <1>4, <1>2, <1>t
  <1>6. wakeup' \in Nat
    BY <1>t DEF Connected, NotifySelectLoop
  <1>7. TypeOK'
    BY <1>1, <1>2, <1>4, <1>6, <1>i, <1>l DEF LoopInv, TypeOK, Life
  <1>8. life'[c] = "registered" /\ life'[n] = "removed" /\ fdOf'[c] = f
    BY <1>1, <1>2, <1>l, <1>t
  <1>9. \A k \in Handlers \ {c, n} : life'[k] = life[k] /\ fdOf'[k] = fdOf[k]
    BY <1>1, <1>t
  <1>10. \A k \in Handlers \ {c, n} : (Live(k)' <=> Live(k)) /\ (Live(k) => fdOf[k] # f)
    BY <1>9, <1>i, <1>l, <1>f, DistinctFds DEF LoopInv, Live
  <1>11. ~Live(n)'
    BY <1>8 DEF Live
  <1>12. \A k \in Handlers \ {c} :
            IF Live(k) /\ fdOf[k] # f THEN fdOf'[k] = fdOf[k] /\ life'[k] = life[k]
                                     ELSE ~Live(k)'
    <2>1. ASSUME NEW k \in Handlers \ {c, n}
          PROVE  IF Live(k) /\ fdOf[k] # f THEN fdOf'[k] = fdOf[k] /\ life'[k] = life[k]
                                           ELSE ~Live(k)'
      BY <1>9, <1>10
    <2>2. ~(Live(n) /\ fdOf[n] # f)
      BY <1>f
    <2>3. QED
      BY <2>1, <2>2, <1>11
  <1>13. \A k \in Handlers : life[k] # "unused" => life'[k] # "unused"
    BY <1>8, <1>9
  <1>14. ~Closing
    BY ReactorAssumption
  <1>15. loop' = loop /\ loop \notin {"select", "drain", "snapshot", "read"}
    BY <1>i
  <1>16. \A k \in writehandles' : k # n
    BY <1>i
  <1>17. \A k \in Handlers :
            life[k] = "registered" /\ (k \in writehandles' \/ (loop = "read" /\ k \in readhandles'))
                => life'[k] = "registered"
    BY <1>8, <1>9, <1>15, <1>16
  <1>18. f \in open' /\ open \subseteq open' /\ UNCHANGED <<loop, readfds, writefds>>
         /\ readhandles' \subseteq readhandles /\ writehandles' \subseteq writehandles
    BY <1>i, <1>f
  <1>19. NewEntry(c, f, mask)
    BY <1>1, <1>5, <1>8, <1>12, <1>13, <1>14, <1>15, <1>17, <1>18 DEF NewEntry
  <1>20. QED
    BY <1>2, <1>7, <1>19, <1>m, NewEntryKeeps

\* Calls that take an entry away: at the end of a stream, and of a connection that
\* could not be made.
LEMMA RemoveKeeps ==
    ASSUME LoopInv, NEW h \in Handlers,
           RemoveClosed(h) \/ RemoveUnclosed(h) \/ NotConnected(h)
    PROVE  LoopInv'
  <1>t. /\ repository \in [Fds -> Entries \cup {NoEntry}]
        /\ life \in [Handlers -> Life] /\ wakeup \in Nat
        /\ readhandles \subseteq Handlers /\ writehandles \subseteq Handlers
    BY DEF LoopInv, TypeOK
  <1>1. Live(h)
    BY InputCall, OutputCall DEF RemoveClosed, RemoveUnclosed, NotConnected, Live
  <1>2. fdOf[h] \in Fds /\ repository[fdOf[h]] # NoEntry
    BY <1>1 DEF LoopInv, Owners
  <1>3. /\ repository' = Removed(repository, fdOf[h], Masks)
        /\ life' = [life EXCEPT ![h] = "removed"]
        /\ UNCHANGED <<fdOf, open, loop, readfds, writefds, wakefd, writable>>
        /\ readable' \subseteq readable
    BY InputCall, OutputCall DEF RemoveClosed, RemoveUnclosed, NotConnected, round, kernel
  <1>4. /\ repository' = [repository EXCEPT ![fdOf[h]] = NoEntry]
        /\ repository' \in [Fds -> Entries \cup {NoEntry}]
    BY <1>2, <1>3, <1>t, RemovedAll
  <1>5. wakeup' \in Nat
    BY <1>t DEF RemoveClosed, RemoveUnclosed, NotConnected, NotifySelectLoop
  <1>6. /\ loop \in {"read", "write"}
        /\ loop = "read" => h \notin readhandles'
        /\ h \notin writehandles'
        /\ readhandles' \subseteq readhandles /\ writehandles' \subseteq writehandles
    <2>1. CASE RemoveClosed(h)
      <3>1. life[h] = "closing" /\ UNCHANGED <<readhandles, writehandles>>
        BY <2>1 DEF RemoveClosed, round
      <3>2. QED
        BY <3>1 DEF LoopInv, InCallInv, CallsInv
    <2>2. CASE RemoveUnclosed(h)
      BY <2>2, InputCall DEF RemoveUnclosed
    <2>3. CASE NotConnected(h)
      BY <2>3, OutputCall DEF NotConnected
    <2>4. QED
      BY <2>1, <2>2, <2>3
  <1>7. TypeOK'
    BY <1>3, <1>4, <1>5, <1>6 DEF LoopInv, TypeOK, Life
  <1>8. EntryGone(h)
    BY <1>1, <1>3, <1>4, <1>6 DEF EntryGone
  <1>9. QED
    BY <1>7, <1>8, EntryGoneKeeps

LEMMA ReadKeeps ==
    ASSUME LoopInv, NEW c \in Connections, ReadData(c) \/ ReadEnd(c)
    PROVE  LoopInv'
  <1>h. c \in Handlers /\ CallInput(c)
    BY DEF ReadData, ReadEnd, Handlers
  <1>i. /\ loop = "read" /\ life[c] = "registered" /\ fdOf[c] \in Fds
        /\ c \notin writehandles /\ c \notin readhandles'
        /\ readhandles' \subseteq readhandles
        /\ UNCHANGED <<loop, readfds, writefds, wakefd, writehandles>>
    BY <1>h, InputCall
  <1>t. /\ repository \in [Fds -> Entries \cup {NoEntry}]
        /\ fdOf \in [Handlers -> Fds \cup {NoFd}] /\ life \in [Handlers -> Life]
        /\ readhandles \subseteq Handlers /\ writehandles \subseteq Handlers
        /\ open \subseteq Fds
    BY DEF LoopInv, TypeOK
  <1>1. CASE ReadData(c)
    <2>1. TypeOK'
      BY <1>1, <1>i DEF LoopInv, TypeOK, ReadData
    <2>2. UNCHANGED <<repository, fdOf, life, open>>
      BY <1>1 DEF ReadData
    <2>3. AskedInv' /\ CallsInv'
      BY <2>2, <1>i DEF LoopInv, AskedInv, CallsInv, WantsRead
    <2>4. QED
      BY <2>1, <2>2, <2>3, <1>i, QuietKeeps
  <1>2. CASE ReadEnd(c)
    <2>1. /\ UNCHANGED <<repository, fdOf>> /\ Closing
          /\ open' = open \ {fdOf[c]}
          /\ life' = [life EXCEPT ![c] = "closing"]
      BY <1>2 DEF ReadEnd
    <2>2. TypeOK'
      BY <1>2, <1>i, <2>1 DEF LoopInv, TypeOK, ReadEnd, Life
    <2>3. /\ life'[c] = "closing"
          /\ \A k \in Handlers : k # c => life'[k] = life[k]
          /\ \A k \in Handlers : Live(k)' <=> Live(k)
      BY <2>1, <1>h, <1>i, <1>t DEF Live
    <2>4. Owners'
      BY <2>1, <2>3 DEF LoopInv, Owners
    <2>5. Owned'
      <3> SUFFICES ASSUME NEW g \in Fds, repository[g] # NoEntry
                   PROVE  /\ Live(repository[g].evHandler)'
                          /\ fdOf[repository[g].evHandler] = g
                          /\ life'[repository[g].evHandler] = "registered" => g \in open'
        BY <2>1 DEF Owned
      <3>1. PICK k \in Handlers : k = repository[g].evHandler
        BY <1>t DEF Entries
      <3>2. Live(k) /\ fdOf[k] = g /\ (life[k] = "registered" => g \in open)
        BY <3>1 DEF LoopInv, Owned
      <3>3. life'[k] = "registered" => g # fdOf[c] /\ life[k] = "registered"
        <4>1. SUFFICES ASSUME life'[k] = "registered" PROVE g # fdOf[c] /\ life[k] = "registered"
          OBVIOUS
        <4>2. k # c
          BY <4>1, <2>3
        <4>3. Live(c)
          BY <1>i DEF Live
        <4>4. QED
          BY <4>1, <4>2, <4>3, <3>1, <3>2, <2>3, <1>h, DistinctFds DEF LoopInv
      <3>4. Live(k)'
        BY <3>1, <3>2, <2>3
      <3>5. QED
        BY <3>1, <3>2, <3>3, <3>4, <2>1
    <2>6. InCallInv' /\ StartInv'
      <3>1. \A l \in Listeners : life[l] # "unused"
        BY <2>1, <1>i DEF LoopInv, StartInv
      <3>2. \A l \in Listeners : life'[l] # "unused"
        BY <3>1, <2>3 DEF Handlers
      <3>3. QED
        BY <3>2, <2>1, <2>3, <1>i DEF LoopInv, InCallInv, StartInv
    <2>7. AskedInv'
      BY <1>i DEF AskedInv
    <2>8. CallsInv'
      BY <2>1, <2>3, <1>i, <1>t DEF LoopInv, CallsInv, WantsRead
    <2>9. QED
      BY <2>2, <2>4, <2>5, <2>6, <2>7, <2>8 DEF LoopInv
  <1>3. QED
    BY <1>1, <1>2

LEMMA StutterKeeps == LoopInv /\ UNCHANGED vars => LoopInv'
  BY DEF vars, kernel, round, LoopInv, TypeOK, Owners, Owned, InCallInv, StartInv,
         AskedInv, CallsInv, Live, WantsRead

\* The invariant is kept by every step.
LEMMA LoopInvStep == LoopInv /\ [Next]_vars => LoopInv'
  <1> SUFFICES ASSUME LoopInv, [Next]_vars PROVE LoopInv'
    OBVIOUS
  <1>1. CASE UNCHANGED vars
    BY <1>1, StutterKeeps
  <1>2. ASSUME NEW l \in Listeners, Listen(l) \/ AcceptConnection(l) PROVE LoopInv'
    <2>1. {"ACCEPT_MASK"} \in SUBSET Masks /\ {"ACCEPT_MASK"} # {}
      BY DEF Masks
    <2>2. QED
      BY <1>2, <2>1, OpenAndRegisterKeeps, AcceptKeeps DEF Listen
  <1>3. ASSUME NEW n \in Connectors, NonblockingConnect(n) \/ Connected(n) \/ NotConnected(n)
        PROVE  LoopInv'
    <2>1. {"CONNECT_MASK"} \in SUBSET Masks /\ {"CONNECT_MASK"} # {} /\ n \in Handlers
      BY DEF Masks, Handlers
    <2>2. QED
      BY <1>3, <2>1, OpenAndRegisterKeeps, ConnectedKeeps, RemoveKeeps DEF NonblockingConnect
  <1>4. ASSUME NEW c \in Connections,
               ReadData(c) \/ ReadEnd(c) \/ RemoveClosed(c) \/ RemoveUnclosed(c)
        PROVE  LoopInv'
    <2>1. c \in Handlers
      BY DEF Handlers
    <2>2. QED
      BY <1>4, <2>1, ReadKeeps, RemoveKeeps
  <1>5. ASSUME NEW f \in Fds, BecomesReadable(f) \/ BecomesWritable(f) PROVE LoopInv'
    BY <1>5, NetworkKeeps
  <1>6. QED
    BY <1>1, <1>2, <1>3, <1>4, <1>5, LoopKeeps DEF Next, LoopStep

LEMMA LoopInvHolds == Spec => []LoopInv
  BY InitLoopInv, LoopInvStep, PTL DEF Spec
-------------------------------------------------------------------------------
\* The variables keep their types: in particular the wakeup pipe never holds less
\* than nothing, however much one read asks for.
THEOREM TypeCorrect == Spec => []TypeOK
  <1>1. LoopInv => TypeOK
    BY DEF LoopInv
  <1>2. QED
    BY <1>1, LoopInvHolds, PTL

\* Every registered handler is the one its descriptor's entry names.
THEOREM EntryIsOwnerHolds == Spec => []EntryIsOwner
  <1>1. LoopInv => EntryIsOwner
    BY DEF LoopInv, Owners, Live, EntryIsOwner
  <1>2. QED
    BY <1>1, LoopInvHolds, PTL

\* No handler is called that was removed since the list of the round was made.
THEOREM CalledWhileRegisteredHolds == Spec => []CalledWhileRegistered
  <1>1. LoopInv => CalledWhileRegistered
    BY DEF LoopInv, CallsInv, CalledWhileRegistered
  <1>2. QED
    BY <1>1, LoopInvHolds, PTL

\* While select() waits for the wrong descriptors, a byte is there to wake it.
THEOREM WakeupPendingHolds == Spec => []WakeupPending
  <1>1. Init => WakeupPending
    BY DEF Init, WakeupPending
  <1>2. ASSUME LoopInv, WakeupPending, [Next]_vars PROVE WakeupPending'
    <2>t. wakeup \in Nat
      BY <1>2 DEF LoopInv, TypeOK
    <2> SUFFICES ASSUME loop' = "select", readfds' # ReadSet' \/ writefds' # WriteSet'
                 PROVE  wakeup' > 0
      BY DEF WakeupPending
    <2>1. CASE UNCHANGED <<repository, fdOf, loop, readfds, writefds, wakeup>>
      BY <2>1, <1>2 DEF WakeupPending, ReadSet, WriteSet, Present, WantsRead, Handle
    <2>2. CASE Build
      BY <2>2 DEF Build, ReadSet, WriteSet, Present, WantsRead, Handle
    <2>3. ASSUME NEW h, NEW mask, OpenAndRegister(h, mask) PROVE wakeup' > 0
      BY <2>3, <2>t DEF OpenAndRegister, NotifySelectLoop
    <2>4. CASE LoopStep /\ ~Build
      <3>1. ASSUME NEW h \in Handlers, CallInput(h) \/ CallOutput(h) PROVE FALSE
        BY <3>1 DEF CallInput, CallOutput
      <3>2. ASSUME NEW c \in Connections, RemoveClosed(c) PROVE FALSE
        BY <3>2, <1>2 DEF RemoveClosed, LoopInv, InCallInv, Handlers
      <3>3. QED
        BY <2>4, <3>1, <3>2
           DEF LoopStep, Select, SelectFails, Drain, Snapshot, ReadsOver, WritesOver,
               AcceptConnection, ReadData, ReadEnd, RemoveUnclosed, Connected,
               NotConnected, Handlers
    <2>5. QED
      BY <1>2, <2>1, <2>2, <2>3, <2>4
         DEF Next, Listen, NonblockingConnect, BecomesReadable, BecomesWritable, round,
             vars
  <1>3. QED
    BY <1>1, <1>2, LoopInvHolds, PTL DEF Spec
-------------------------------------------------------------------------------
LEMMA ReadyInvStep ==
    ASSUME ~Interrupts, LoopInv, ReadyInv, [Next]_vars
    PROVE  ReadyInv'
  <1>t. /\ fdOf \in [Handlers -> Fds \cup {NoFd}] /\ life \in [Handlers -> Life]
        /\ readhandles \subseteq Handlers /\ writehandles \subseteq Handlers
        /\ repository \in [Fds -> Entries \cup {NoEntry}]
    BY DEF LoopInv, TypeOK
  <1>u. ASSUME UNCHANGED <<loop, readfds, writefds, readhandles, writehandles>>,
               readable \subseteq readable', writable \subseteq writable',
               \A h \in Handlers : life[h] = "registered" => fdOf'[h] = fdOf[h]
        PROVE  ReadyInv'
    <2>1. ASSUME NEW h \in readhandles, loop = "read" PROVE fdOf'[h] \in readable'
      BY <1>u, <1>t, <2>1 DEF ReadyInv, ReadyWhenDispatched, LoopInv, CallsInv
    <2>2. ASSUME NEW h \in writehandles, loop \in {"read", "write"}
          PROVE  fdOf'[h] \in writable'
      BY <1>u, <1>t, <2>2 DEF ReadyInv, ReadyWhenDispatched, LoopInv, CallsInv
    <2>3. QED
      BY <2>1, <2>2, <1>u DEF ReadyInv, ReadyWhenDispatched
  <1>1. CASE UNCHANGED vars
    BY <1>1, <1>u DEF vars, round, kernel
  <1>2. ASSUME NEW f \in Fds, BecomesReadable(f) \/ BecomesWritable(f) PROVE ReadyInv'
    BY <1>2, <1>u DEF BecomesReadable, BecomesWritable, round
  <1>3. ASSUME NEW h \in Handlers, NEW mask, OpenAndRegister(h, mask) PROVE ReadyInv'
    <2>1. \A k \in Handlers : life[k] = "registered" => fdOf'[k] = fdOf[k]
      BY <1>3, <1>t DEF OpenAndRegister
    <2>2. QED
      BY <1>3, <2>1, <1>u DEF OpenAndRegister, round
  <1>4. CASE Build \/ Select \/ SelectFails \/ Drain \/ WritesOver \/ ReadsOver
    <2>1. ~SelectFails
      BY DEF SelectFails
    <2>2. QED
      BY <1>4, <2>1 DEF Build, Select, Drain, WritesOver, ReadsOver, Ready, round, kernel,
                        ReadyInv, ReadyWhenDispatched
  <1>5. CASE Snapshot
    <2>1. ASSUME NEW f \in Present PROVE fdOf[repository[f].evHandler] = f
      BY <2>1, HandleIsFd DEF Handle
    <2>2. readfds \subseteq readable /\ writefds \subseteq writable
      BY <1>5 DEF Snapshot, ReadyInv
    <2>3. QED
      BY <1>5, <2>1, <2>2, HandleIsFd DEF Snapshot, kernel, ReadyInv, ReadyWhenDispatched
  <1>6. ASSUME NEW h \in Handlers, CallInput(h),
               \A k \in Handlers : life[k] = "registered" => fdOf'[k] = fdOf[k],
               readable \ {fdOf[h]} \subseteq readable',
               writable \ {fdOf[h]} \subseteq writable'
        PROVE  ReadyInv'
    <2>i. /\ loop = "read" /\ Live(h) /\ h \notin writehandles /\ h \notin readhandles'
          /\ readhandles' \subseteq readhandles /\ UNCHANGED <<loop, writehandles>>
      BY <1>6, InputCall
    <2>1. ASSUME NEW k \in Handlers, k # h, life[k] = "registered"
          PROVE  fdOf'[k] = fdOf[k] /\ fdOf[k] # fdOf[h]
      <3>1. Live(k)
        BY <2>1 DEF Live
      <3>2. QED
        BY <2>1, <3>1, <2>i, <1>6, DistinctFds DEF LoopInv
    <2>2. ASSUME NEW k \in readhandles' PROVE fdOf'[k] \in readable'
      <3>1. k \in readhandles /\ k \in Handlers /\ k # h /\ life[k] = "registered"
        BY <2>i, <1>t, <2>2 DEF LoopInv, CallsInv
      <3>2. fdOf[k] \in readable
        BY <3>1, <2>i DEF ReadyInv, ReadyWhenDispatched
      <3>3. QED
        BY <3>1, <3>2, <2>1, <1>6
    <2>3. ASSUME NEW k \in writehandles PROVE fdOf'[k] \in writable'
      <3>1. k \in Handlers /\ k # h /\ life[k] = "registered"
        BY <2>i, <1>t, <2>3 DEF LoopInv, CallsInv
      <3>2. fdOf[k] \in writable
        BY <2>i DEF ReadyInv, ReadyWhenDispatched
      <3>3. QED
        BY <3>1, <3>2, <2>1, <1>6
    <2>4. QED
      BY <2>i, <2>2, <2>3 DEF ReadyInv, ReadyWhenDispatched
  <1>7. ASSUME NEW l \in Listeners, AcceptConnection(l) PROVE ReadyInv'
    <2>1. \A k \in Handlers : life[k] = "registered" => fdOf'[k] = fdOf[k]
      BY <1>7, <1>t DEF AcceptConnection
    <2>2. QED
      BY <1>7, <2>1, <1>6 DEF AcceptConnection, Handlers
  <1>8. ASSUME NEW c \in Connections, ReadData(c) \/ ReadEnd(c) \/ RemoveUnclosed(c)
        PROVE  ReadyInv'
    BY <1>8, <1>6 DEF ReadData, ReadEnd, RemoveUnclosed, Handlers
  <1>9. ASSUME NEW c \in Connections, RemoveClosed(c) PROVE ReadyInv'
    BY <1>9, <1>u DEF RemoveClosed, round, kernel
  <1>10. ASSUME NEW n \in Connectors, Connected(n) \/ NotConnected(n) PROVE ReadyInv'
    <2>i. /\ loop = "write" /\ writehandles' \subseteq writehandles
          /\ UNCHANGED <<readable, writable, loop, readhandles>>
      BY <1>10, OutputCall DEF Connected, NotConnected, Handlers
    <2>1. \A k \in Handlers : life[k] = "registered" => fdOf'[k] = fdOf[k]
      BY <1>10, <1>t DEF Connected, NotConnected
    <2>2. ASSUME NEW k \in writehandles' PROVE fdOf'[k] \in writable'
      BY <2>i, <2>1, <1>t, <2>2 DEF LoopInv, CallsInv, ReadyInv, ReadyWhenDispatched
    <2>3. QED
      BY <2>i, <2>2 DEF ReadyInv, ReadyWhenDispatched
  <1>11. QED
    BY <1>1, <1>2, <1>3, <1>4, <1>5, <1>7, <1>8, <1>9, <1>10
       DEF Next, LoopStep, Listen, NonblockingConnect, Handlers

\* If select() does not fail, no handler is called for a descriptor that is not
\* ready.
THEOREM ReadyWhenDispatchedHolds ==
    ASSUME ~Interrupts PROVE Spec => []ReadyWhenDispatched
  <1>1. Init => ReadyInv
    BY DEF Init, ReadyInv, ReadyWhenDispatched
  <1>2. LoopInv /\ ReadyInv /\ [Next]_vars => ReadyInv'
    BY ReadyInvStep
  <1>3. ReadyInv => ReadyWhenDispatched
    BY DEF ReadyInv
  <1>4. QED
    BY <1>1, <1>2, <1>3, LoopInvHolds, PTL DEF Spec
===============================================================================
