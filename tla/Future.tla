-------------------------------- MODULE Future --------------------------------
(***************************************************************************)
(* FutureRep, the shared state of a Future                                 *)
(* (framework/active_object/1_0/Future.cpp): a value that set() produces,  *)
(* get() waits for with a timeout, and attach() has observers told about.  *)
(*                                                                         *)
(* set() and get() look at mValue before they take mValueReadyMutex, and   *)
(* get() looks again after it let go of it; these unlocked reads are steps *)
(* of their own.  set() holds the mutex while it calls the observers, so   *)
(* its critical section is split at each call: what does not need the      *)
(* mutex goes on meanwhile.                                                *)
(***************************************************************************)
EXTENDS Integers, FiniteSets

CONSTANTS
    Setters,    \* threads that call set(), once each
    Getters,    \* threads that call get(), once each
    Observers,  \* observers to be attached, once each
    NoValue     \* the null pointer

ASSUME FutureAssumption ==
    /\ IsFiniteSet(Setters)
    /\ NoValue \notin Setters

VARIABLES
    mValue,     \* the setter whose value is stored, or NoValue
    owner,      \* the setter inside its critical section, or NoValue
    setter,     \* where each setter is, see SetterState
    toUpdate,   \* observers the setter in its critical section still has to call
    getter,     \* where each getter is, see GetterState
    rc,         \* what get() is going to return
    copied,     \* the value get() copied out, or NoValue
    attached,   \* mObserverCollection
    late,       \* history: observers attached after the value was there
    updates     \* history: calls of update() of each observer

vars == <<mValue, owner, setter, toUpdate, getter, rc, copied, attached, late, updates>>

\* "lock": has seen mValue null and waits for the mutex; "update": holds it;
\* "after": has stored a value; "found": has found one.
SetterState == {"before", "lock", "update", "after", "found"}

\* "lock": has seen mValue null and waits for the mutex; "waiting": in
\* wait_for(); "woken", "timedout": has to take the mutex again; "copy": past the
\* wait, without the mutex.
GetterState == {"before", "lock", "waiting", "woken", "timedout", "copy", "after"}

MutexFree == owner = NoValue

TypeOK ==
    /\ mValue \in Setters \cup {NoValue}
    /\ owner \in Setters \cup {NoValue}
    /\ setter \in [Setters -> SetterState]
    /\ toUpdate \subseteq Observers
    /\ getter \in [Getters -> GetterState]
    /\ rc \in [Getters -> {0, -1}]
    /\ copied \in [Getters -> Setters \cup {NoValue}]
    /\ attached \subseteq Observers
    /\ late \subseteq Observers
    /\ updates \in [Observers -> Nat]

Init ==
    /\ mValue = NoValue
    /\ owner = NoValue
    /\ setter = [s \in Setters |-> "before"]
    /\ toUpdate = {}
    /\ getter = [g \in Getters |-> "before"]
    /\ rc = [g \in Getters |-> 0]
    /\ copied = [g \in Getters |-> NoValue]
    /\ attached = {}
    /\ late = {}
    /\ updates = [o \in Observers |-> 0]
-------------------------------------------------------------------------------
(* set().  Bug... are seeded errors, as in MessageQueue.                   *)

\* The test of mValue, without the mutex.
SetTest(s) ==
    /\ setter[s] = "before"
    /\ setter' = [setter EXCEPT ![s] = IF mValue = NoValue THEN "lock" ELSE "found"]
    /\ UNCHANGED <<mValue, owner, toUpdate, getter, rc, copied, attached, late, updates>>

\* The mutex is taken and the value stored; mValue is not tested again.
SetStore(s) ==
    /\ setter[s] = "lock"
    /\ MutexFree
    /\ owner' = s
    /\ setter' = [setter EXCEPT ![s] = "update"]
    /\ mValue' = s
    /\ toUpdate' = attached
    /\ UNCHANGED <<getter, rc, copied, attached, late, updates>>

\* An observer is called, the mutex held.  CallbackGetReturnMessage::update calls
\* get(), which finds the value and takes no mutex.
SetUpdate(s, o) ==
    /\ owner = s
    /\ o \in toUpdate
    /\ toUpdate' = toUpdate \ {o}
    /\ updates' = [updates EXCEPT ![o] = @ + 1]
    /\ UNCHANGED <<mValue, owner, setter, getter, rc, copied, attached, late>>

\* Forget to notify.
BugNotifyAll == UNCHANGED getter

\* mValueReady.notify_all().
NotifyAll ==
    getter' = [g \in Getters |-> IF getter[g] = "waiting" THEN "woken" ELSE getter[g]]

\* Every observer was called: notify_all(), and the mutex is released.
SetNotify(s) ==
    /\ owner = s
    /\ toUpdate = {}
    /\ owner' = NoValue
    /\ setter' = [setter EXCEPT ![s] = "after"]
    /\ NotifyAll
    /\ UNCHANGED <<mValue, toUpdate, rc, copied, attached, late, updates>>

Set(s) ==
    \/ SetTest(s) \/ SetStore(s) \/ SetNotify(s)
    \/ \E o \in Observers : SetUpdate(s, o)
-------------------------------------------------------------------------------
(* get().                                                                  *)

\* The first test of mValue, without the mutex.
GetTest(g) ==
    /\ getter[g] = "before"
    /\ getter' = [getter EXCEPT ![g] = IF mValue = NoValue THEN "lock" ELSE "copy"]
    /\ UNCHANGED <<mValue, owner, setter, toUpdate, rc, copied, attached, late, updates>>

\* wait_for() does not look at its predicate before it sleeps.
BugReady == FALSE

\* The predicate of the wait.
Ready == mValue # NoValue

\* wait_for() tests its predicate with the mutex: when it enters, and when it was
\* woken; it sleeps, which releases the mutex, or returns true.
GetWait(g) ==
    /\ getter[g] \in {"lock", "woken"}
    /\ MutexFree
    /\ getter' = [getter EXCEPT ![g] = IF Ready THEN "copy" ELSE "waiting"]
    /\ UNCHANGED <<mValue, owner, setter, toUpdate, rc, copied, attached, late, updates>>

SpuriousWakeup(g) ==
    /\ getter[g] = "waiting"
    /\ getter' = [getter EXCEPT ![g] = "woken"]
    /\ UNCHANGED <<mValue, owner, setter, toUpdate, rc, copied, attached, late, updates>>

\* The time is up, perhaps while the getter was on its way back to the mutex.
Timeout(g) ==
    /\ getter[g] \in {"waiting", "woken"}
    /\ getter' = [getter EXCEPT ![g] = "timedout"]
    /\ UNCHANGED <<mValue, owner, setter, toUpdate, rc, copied, attached, late, updates>>

\* The error code of a timed out wait is handed on.
BugTimedOutCode == 110

\* The result of the wait is not looked at.
BugTimedOutResult == 0

\* wait_for() returns its predicate even when the time is up.
TimedOutResult == IF mValue = NoValue THEN -1 ELSE 0

GetTimedOut(g) ==
    /\ getter[g] = "timedout"
    /\ MutexFree
    /\ getter' = [getter EXCEPT ![g] = "copy"]
    /\ rc' = [rc EXCEPT ![g] = TimedOutResult]
    /\ UNCHANGED <<mValue, owner, setter, toUpdate, copied, attached, late, updates>>

\* The second test of mValue, and the copy, without the mutex.
GetCopy(g) ==
    /\ getter[g] = "copy"
    /\ getter' = [getter EXCEPT ![g] = "after"]
    /\ copied' = [copied EXCEPT ![g] = mValue]
    /\ UNCHANGED <<mValue, owner, setter, toUpdate, rc, attached, late, updates>>

Get(g) == GetTest(g) \/ GetWait(g) \/ GetTimedOut(g) \/ GetCopy(g)
-------------------------------------------------------------------------------
(* attach().                                                               *)

\* The observer is put in the set, whether or not the value is there already.
BugNotProduced == TRUE

\* The test of mValue by attach().
NotProduced == mValue = NoValue

\* Before the value is there the observer is put in the set.
AttachInsert(o) ==
    /\ MutexFree
    /\ o \notin attached \cup late
    /\ NotProduced
    /\ attached' = attached \cup {o}
    /\ UNCHANGED <<mValue, owner, setter, toUpdate, getter, rc, copied, late, updates>>

\* Once the value is there the observer is only called, at once.
AttachUpdate(o) ==
    /\ MutexFree
    /\ o \notin attached \cup late
    /\ ~NotProduced
    /\ late' = late \cup {o}
    /\ updates' = [updates EXCEPT ![o] = @ + 1]
    /\ UNCHANGED <<mValue, owner, setter, toUpdate, getter, rc, copied, attached>>

Next ==
    \/ \E s \in Setters : Set(s)
    \/ \E g \in Getters : Get(g) \/ SpuriousWakeup(g) \/ Timeout(g)
    \/ \E o \in Observers : AttachInsert(o) \/ AttachUpdate(o)

Spec == Init /\ [][Next]_vars

\* A thread inside set() or get() goes on when it can; time may or may not run
\* out, and no wakeup is spurious out of duty.
FairSpec ==
    /\ Spec
    /\ \A s \in Setters : WF_vars(setter[s] # "before" /\ Set(s))
    /\ \A g \in Getters : WF_vars(Get(g))
-------------------------------------------------------------------------------
(* Properties.                                                             *)

Stores == {s \in Setters : setter[s] = "after"}

\* However attach() races set(): an observer attached before the value was there
\* is told once by each set() that stores one (two of them may pass the unlocked
\* test), and an observer attached after it is told once.
NotifiedOncePerStore ==
    MutexFree =>
        /\ \A o \in attached : updates[o] = Cardinality(Stores)
        /\ \A o \in late : updates[o] = 1

\* A get() that returns 0 has copied a value out, although it tests mValue
\* without the mutex and copies it after the wait.
ZeroHasValue ==
    \A g \in Getters : getter[g] = "after" /\ rc[g] = 0 => copied[g] # NoValue

\* Once set() is over nobody is left asleep in get() without a wakeup.
NoLostWakeup ==
    mValue # NoValue /\ MutexFree => \A g \in Getters : getter[g] # "waiting"

\* A get() gets out of its wait once a value is stored, timeout or not.
GetReturns ==
    \A g \in Getters :
        (mValue # NoValue /\ getter[g] # "before") ~> (getter[g] = "after")
===============================================================================
