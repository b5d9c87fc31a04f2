------------------------------ MODULE FutureProofs ------------------------------
(***************************************************************************)
(* For any sets of threads that call set() and get() and any observers:    *)
(* the safety properties of FutureRep, whoever passes its unlocked tests   *)
(* of mValue when.                                                         *)
(***************************************************************************)
EXTENDS Future, FiniteSetTheorems, TLAPS

\* Every reachable state of the future is well typed.
THEOREM TypeCorrect == Spec => []TypeOK
<1>1. Init => TypeOK
  BY DEF Init, TypeOK, SetterState, GetterState
<1>2. TypeOK /\ [Next]_vars => TypeOK'
  <2> SUFFICES ASSUME TypeOK, [Next]_vars
               PROVE  TypeOK'
    OBVIOUS
  <2> USE DEF TypeOK, SetterState, GetterState
  <2>1. ASSUME NEW s \in Setters, Set(s)
        PROVE  TypeOK'
    <3>1. CASE SetTest(s)
      BY <3>1 DEF SetTest
    <3>2. CASE SetStore(s)
      BY <3>2 DEF SetStore
    <3>3. ASSUME NEW o \in Observers, SetUpdate(s, o)
          PROVE  TypeOK'
      BY <3>3 DEF SetUpdate
    <3>4. CASE SetNotify(s)
      BY <3>4 DEF SetNotify, NotifyAll
    <3> QED
      BY <2>1, <3>1, <3>2, <3>3, <3>4 DEF Set
  <2>2. ASSUME NEW g \in Getters, Get(g) \/ SpuriousWakeup(g) \/ Timeout(g)
        PROVE  TypeOK'
    <3>1. getter' \in [Getters -> GetterState]
      BY <2>2 DEF Get, GetTest, GetWait, GetTimedOut, GetCopy, SpuriousWakeup, Timeout
    <3>2. rc' \in [Getters -> {0, -1}] /\ copied' \in [Getters -> Setters \cup {NoValue}]
      BY <2>2 DEF Get, GetTest, GetWait, GetTimedOut, GetCopy, SpuriousWakeup, Timeout,
                  TimedOutResult
    <3> QED
      BY <2>2, <3>1, <3>2
         DEF Get, GetTest, GetWait, GetTimedOut, GetCopy, SpuriousWakeup, Timeout
  <2>3. ASSUME NEW o \in Observers, AttachInsert(o) \/ AttachUpdate(o)
        PROVE  TypeOK'
    BY <2>3 DEF AttachInsert, AttachUpdate
  <2>4. CASE UNCHANGED vars
    BY <2>4 DEF vars
  <2> QED
    BY <2>1, <2>2, <2>3, <2>4 DEF Next
<1> QED
  BY <1>1, <1>2, PTL DEF Spec

-------------------------------------------------------------------------------
\* A thread that has found the mutex free sleeps only without a value, and
\* notify_all() comes before the mutex of the one that stored it is free.
THEOREM NoLostWakeupHolds == Spec => []NoLostWakeup
<1>1. Init => NoLostWakeup
  BY DEF Init, NoLostWakeup
<1>2. TypeOK /\ NoLostWakeup /\ [Next]_vars => NoLostWakeup'
  <2> SUFFICES ASSUME TypeOK, NoLostWakeup, [Next]_vars
               PROVE  NoLostWakeup'
    OBVIOUS
  <2> USE DEF TypeOK, NoLostWakeup, MutexFree
  <2>1. ASSUME NEW s \in Setters, Set(s)
        PROVE  NoLostWakeup'
    <3>1. CASE SetStore(s)
      BY <3>1, FutureAssumption DEF SetStore
    <3>2. CASE SetNotify(s)
      BY <3>2 DEF SetNotify, NotifyAll
    <3> QED
      BY <2>1, <3>1, <3>2 DEF Set, SetTest, SetUpdate
  <2>2. ASSUME NEW g \in Getters, Get(g) \/ SpuriousWakeup(g) \/ Timeout(g)
        PROVE  NoLostWakeup'
    <3>1. UNCHANGED <<mValue, owner>>
      BY <2>2 DEF Get, GetTest, GetWait, GetTimedOut, GetCopy, SpuriousWakeup, Timeout
    <3>2. \A k \in Getters : getter'[k] = "waiting" => getter[k] = "waiting" \/ ~Ready
      BY <2>2 DEF Get, GetTest, GetWait, GetTimedOut, GetCopy, SpuriousWakeup, Timeout
    <3> QED
      BY <3>1, <3>2 DEF Ready
  <2>3. ASSUME NEW o \in Observers, AttachInsert(o) \/ AttachUpdate(o)
        PROVE  NoLostWakeup'
    BY <2>3 DEF AttachInsert, AttachUpdate
  <2>4. CASE UNCHANGED vars
    BY <2>4 DEF vars
  <2> QED
    BY <2>1, <2>2, <2>3, <2>4 DEF Next
<1> QED
  BY <1>1, <1>2, TypeCorrect, PTL DEF Spec

-------------------------------------------------------------------------------
\* A get() that is going to return 0 was past a test that found a value, which
\* nobody takes away again.
FoundIsThere ==
    \A g \in Getters : rc[g] = 0 =>
        /\ getter[g] = "copy" => mValue # NoValue
        /\ getter[g] = "after" => copied[g] # NoValue

\* The copy that get() makes without the mutex is never one of nothing.
THEOREM ZeroHasValueHolds == Spec => []ZeroHasValue
<1>1. Init => FoundIsThere
  BY DEF Init, FoundIsThere
<1>2. TypeOK /\ FoundIsThere /\ [Next]_vars => FoundIsThere'
  <2> SUFFICES ASSUME TypeOK, FoundIsThere, [Next]_vars
               PROVE  FoundIsThere'
    OBVIOUS
  <2> USE DEF TypeOK, FoundIsThere
  <2>1. ASSUME NEW s \in Setters, Set(s)
        PROVE  FoundIsThere'
    <3>1. UNCHANGED <<rc, copied>> /\ (mValue' = mValue \/ mValue' # NoValue)
      BY <2>1, FutureAssumption DEF Set, SetTest, SetStore, SetUpdate, SetNotify
    <3>2. \A g \in Getters : getter'[g] \in {"copy", "after"} => getter'[g] = getter[g]
      BY <2>1 DEF Set, SetTest, SetStore, SetUpdate, SetNotify, NotifyAll
    <3> QED
      BY <3>1, <3>2
  <2>2. ASSUME NEW g \in Getters, Get(g)
        PROVE  FoundIsThere'
    <3>1. CASE GetTest(g) \/ GetWait(g)
      BY <3>1 DEF GetTest, GetWait, Ready
    <3>2. CASE GetTimedOut(g)
      BY <3>2 DEF GetTimedOut, TimedOutResult
    <3>3. CASE GetCopy(g)
      BY <3>3 DEF GetCopy
    <3> QED
      BY <2>2, <3>1, <3>2, <3>3 DEF Get
  <2>3. ASSUME NEW g \in Getters, SpuriousWakeup(g) \/ Timeout(g)
        PROVE  FoundIsThere'
    BY <2>3 DEF SpuriousWakeup, Timeout
  <2>4. ASSUME NEW o \in Observers, AttachInsert(o) \/ AttachUpdate(o)
        PROVE  FoundIsThere'
    BY <2>4 DEF AttachInsert, AttachUpdate
  <2>5. CASE UNCHANGED vars
    BY <2>5 DEF vars
  <2> QED
    BY <2>1, <2>2, <2>3, <2>4, <2>5 DEF Next
<1>3. FoundIsThere => ZeroHasValue
  BY DEF FoundIsThere, ZeroHasValue
<1> QED
  BY <1>1, <1>2, <1>3, TypeCorrect, PTL DEF Spec

-------------------------------------------------------------------------------
\* Who is in the critical section of set(): at most one thread, and then, as ever
\* after, there is a value.
SectionInv ==
    /\ \A s \in Setters : setter[s] = "update" <=> owner = s
    /\ mValue = NoValue => MutexFree /\ Stores = {}
    /\ MutexFree => toUpdate = {}

\* How often an observer was called: once for every set() that has stored, once more
\* if the one that is storing has come to it, and once if it came too late to be kept.
CalledInv ==
    /\ toUpdate \subseteq attached /\ attached \cap late = {}
    /\ \A o \in attached :
           updates[o] = Cardinality(Stores) + (IF MutexFree \/ o \in toUpdate THEN 0 ELSE 1)
    /\ \A o \in late : updates[o] = 1
    /\ \A o \in Observers \ (attached \cup late) : updates[o] = 0

NotifyInv == SectionInv /\ CalledInv

\* One more set() that has stored is one more in number.
LEMMA OneMoreStore ==
    ASSUME NEW s \in Setters, s \notin Stores, Stores' = Stores \cup {s}
    PROVE  Cardinality(Stores') = Cardinality(Stores) + 1 /\ Cardinality(Stores) \in Nat
<1>1. IsFiniteSet(Stores)
  BY FutureAssumption, FS_Subset DEF Stores
<1> QED
  BY <1>1, FS_AddElement, FS_CardinalityType

LEMMA StoresCounted == Cardinality(Stores) \in Nat
BY FutureAssumption, FS_Subset, FS_CardinalityType DEF Stores

LEMMA SetNotifies ==
    ASSUME TypeOK, NotifyInv, NEW s \in Setters, Set(s)
    PROVE  NotifyInv'
<1> USE FutureAssumption, StoresCounted DEF TypeOK, NotifyInv, SectionInv, MutexFree
<1>1. CASE SetTest(s)
  <2>1. \A r \in Setters : /\ setter'[r] = "update" <=> setter[r] = "update"
                           /\ setter'[r] = "after" <=> setter[r] = "after"
    BY <1>1 DEF SetTest
  <2>2. Stores' = Stores
    BY <2>1 DEF Stores
  <2>3. SectionInv'
    BY <1>1, <2>1, <2>2 DEF SetTest
  <2> QED
    BY <1>1, <2>2, <2>3 DEF SetTest, CalledInv
<1>2. CASE SetStore(s)
  <2>1. Stores' = Stores
    BY <1>2 DEF SetStore, Stores
  <2>2. SectionInv'
    BY <1>2 DEF SetStore
  <2> QED
    BY <1>2, <2>1, <2>2 DEF SetStore, CalledInv
<1>3. ASSUME NEW o \in Observers, SetUpdate(s, o)
      PROVE  NotifyInv'
  <2>1. Stores' = Stores
    BY <1>3 DEF SetUpdate, Stores
  <2>2. SectionInv'
    BY <1>3, <2>1 DEF SetUpdate
  <2> QED
    BY <1>3, <2>1, <2>2 DEF SetUpdate, CalledInv
<1>4. CASE SetNotify(s)
  <2>1. Stores' = Stores \cup {s} /\ s \notin Stores
    BY <1>4 DEF SetNotify, Stores
  <2>2. Cardinality(Stores') = Cardinality(Stores) + 1
    BY <2>1, OneMoreStore
  <2>3. SectionInv'
    BY <1>4, <2>1 DEF SetNotify
  <2> QED
    BY <1>4, <2>2, <2>3 DEF SetNotify, CalledInv
<1> QED
  BY <1>1, <1>2, <1>3, <1>4 DEF Set

\* Every observer is called as often as it was promised, however its attach() races
\* the set() of any number of threads.
THEOREM NotifiedOncePerStoreHolds == Spec => []NotifiedOncePerStore
<1>1. Init => NotifyInv
  <2> SUFFICES ASSUME Init PROVE NotifyInv
    OBVIOUS
  <2>1. Stores = {}
    BY DEF Init, Stores
  <2> QED
    BY <2>1, FutureAssumption DEF Init, NotifyInv, SectionInv, CalledInv, MutexFree
<1>2. TypeOK /\ NotifyInv /\ [Next]_vars => NotifyInv'
  <2> SUFFICES ASSUME TypeOK, NotifyInv, [Next]_vars
               PROVE  NotifyInv'
    OBVIOUS
  <2> USE StoresCounted DEF TypeOK, NotifyInv, SectionInv, CalledInv, MutexFree
  <2>1. ASSUME NEW s \in Setters, Set(s)
        PROVE  NotifyInv'
    BY <2>1, SetNotifies
  <2>2. ASSUME NEW g \in Getters, Get(g) \/ SpuriousWakeup(g) \/ Timeout(g)
        PROVE  NotifyInv'
    <3>1. UNCHANGED <<mValue, owner, setter, toUpdate, attached, late, updates>>
      BY <2>2 DEF Get, GetTest, GetWait, GetTimedOut, GetCopy, SpuriousWakeup, Timeout
    <3> QED
      BY <3>1 DEF Stores
  <2>3. ASSUME NEW o \in Observers, AttachInsert(o)
        PROVE  NotifyInv'
    <3>1. Stores' = Stores /\ Stores = {} /\ toUpdate = {}
      BY <2>3 DEF AttachInsert, NotProduced, Stores
    <3> QED
      BY <2>3, <3>1, FS_EmptySet DEF AttachInsert
  <2>4. ASSUME NEW o \in Observers, AttachUpdate(o)
        PROVE  NotifyInv'
    <3>1. Stores' = Stores /\ mValue # NoValue
      BY <2>4 DEF AttachUpdate, NotProduced, Stores
    <3> QED
      BY <2>4, <3>1 DEF AttachUpdate
  <2>5. CASE UNCHANGED vars
    BY <2>5 DEF vars, Stores
  <2> QED
    BY <2>1, <2>2, <2>3, <2>4, <2>5 DEF Next
<1>3. TypeOK /\ NotifyInv => NotifiedOncePerStore
  BY StoresCounted DEF TypeOK, NotifyInv, SectionInv, CalledInv, NotifiedOncePerStore
<1> QED
  BY <1>1, <1>2, <1>3, TypeCorrect, PTL DEF Spec
===============================================================================
