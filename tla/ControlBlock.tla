---------------------------- MODULE ControlBlock ----------------------------
(***************************************************************************)
(* One NcObject and the control block in front of it (nc_object.h), shared *)
(* by smart pointers in any number of threads.                             *)
(*                                                                         *)
(* A handle is one sp<T> or wp<T> variable.  Each is used by one thread at *)
(* a time, as the C++ memory model demands of the program; two handles may *)
(* be used by two threads at once, so a step of one handle can fall        *)
(* between any two steps of another.  The body of each ControlBlock method *)
(* runs under m_lock and is one step here (ControlBlockLocked takes it     *)
(* apart).  What the caller does with the answer, running ~NcObject() and  *)
(* free(), happens after the unlock, in steps of its own.                  *)
(***************************************************************************)
EXTENDS Counts, FiniteSets

CONSTANTS
    Handles,        \* the sp<T> and wp<T> variables that may refer to the object
    Members         \* those that are wp<T> fields of the object itself

ASSUME HandlesAssumption ==
    /\ IsFiniteSet(Handles)
    /\ Members \subseteq Handles
    /\ Handles \ Members # {}

VARIABLES
    m_rc, m_wc,     \* ControlBlock::m_rc, m_wc
    kind,           \* what each handle holds: nothing, a strong or a weak reference
    todo,           \* what _release / _releaseWeak of the handle has still to do
    dtors,          \* number of times ~NcObject() has run to its end
    frees,          \* number of calls free(ctrl)
    late            \* handles given a weak reference that began in the destructor

vars == <<m_rc, m_wc, kind, todo, dtors, frees, late>>

Kinds == {"none", "strong", "weak"}
Work  == {"destroy", "free"}

Idle(g) == g \in Handles /\ kind[g] = "none" /\ todo[g] = {}

StrongHandles == {h \in Handles : kind[h] = "strong"}
WeakHandles   == {h \in Handles : kind[h] = "weak"}

\* alloc<T>(): operator new builds the control block, takeRaw wraps the object
Init ==
    /\ m_rc = NewCounts.rc /\ m_wc = NewCounts.wc
    /\ \E h \in Handles \ Members :
           kind = [g \in Handles |-> IF g = h THEN "strong" ELSE "none"]
    /\ todo = [h \in Handles |-> {}]
    /\ dtors = 0
    /\ frees = 0
    /\ late = {}

-----------------------------------------------------------------------------
(* Mutated forms of the steps below, used to test the properties.          *)

\* release() decides to free the memory whenever it decides to free the object
WorkAfterAlwaysFree(action) ==
    IF action.freeObject THEN {"destroy", "free"} ELSE {}

\* _release() calls free() only when nothing was to be destroyed
WorkAfterElseFree(action) ==
    IF action.freeObject THEN {"destroy"} ELSE IF action.freeMemory THEN {"free"} ELSE {}

\* lockStrong() without the test of m_rc
LockStrongUnchecked(h, g) ==
    /\ kind[h] = "weak" /\ Idle(g) /\ g \notin Members
    /\ frees = 0
    /\ m_rc' = m_rc + 1
    /\ kind' = [kind EXCEPT ![g] = "strong"]
    /\ UNCHANGED <<m_wc, todo, dtors, frees, late>>

\* releaseWeak() that forgets to count down
ReleaseWeakUncounted(h) ==
    /\ kind[h] = "weak"
    /\ kind' = [kind EXCEPT ![h] = "none"]
    /\ todo' = [todo EXCEPT ![h] = IF ReleaseWeakFrees(m_rc, m_wc) THEN {"free"} ELSE {}]
    /\ UNCHANGED <<m_rc, m_wc, dtors, frees, late>>

-----------------------------------------------------------------------------
\* Copying an sp<T> into another one: ControlBlock::retain().
Retain(h, g) ==
    /\ kind[h] = "strong" /\ Idle(g) /\ g \notin Members
    /\ m_rc' = m_rc + 1
    /\ kind' = [kind EXCEPT ![g] = "strong"]
    /\ UNCHANGED <<m_wc, todo, dtors, frees, late>>

\* What _release() does after ControlBlock::release() returned: the memory is
\* considered only when the object is to be destroyed.
WorkAfter(action) ==
    IF ~action.freeObject THEN {}
    ELSE IF action.freeMemory THEN {"destroy", "free"} ELSE {"destroy"}

\* An sp<T> lets go of the object: the locked part of _release().
Release(h) ==
    /\ kind[h] = "strong"
    /\ m_rc' = m_rc - 1
    /\ kind' = [kind EXCEPT ![h] = "none"]
    /\ todo' = [todo EXCEPT ![h] = WorkAfter(ReleaseAction(m_rc, m_wc))]
    /\ UNCHANGED <<m_wc, dtors, frees, late>>

\* this->~NcObject() in _release() comes to its end.  The fields of the object
\* are destroyed first, each wp<T> among them by a ReleaseWeak of its own.
Destroy(h) ==
    /\ "destroy" \in todo[h]
    /\ \A m \in Members : Idle(m)
    /\ dtors' = dtors + 1
    /\ todo' = [todo EXCEPT ![h] = @ \ {"destroy"}]
    /\ UNCHANGED <<m_rc, m_wc, kind, frees, late>>

\* free(ctrl), in _release() after the destructor or in _releaseWeak()
FreeMemory(h) ==
    /\ "free" \in todo[h] /\ "destroy" \notin todo[h]
    /\ frees' = frees + 1
    /\ todo' = [todo EXCEPT ![h] = @ \ {"free"}]
    /\ UNCHANGED <<m_rc, m_wc, kind, dtors, late>>

\* A wp<T> is made from an sp<T>, from the pointer an sp<T> holds, or from
\* another wp<T>: ControlBlock::retainWeak().  A field of the object is set by
\* somebody who holds the object.
RetainWeak(h, g) ==
    /\ kind[h] \in {"strong", "weak"} /\ Idle(g)
    /\ g \in Members => kind[h] = "strong"
    /\ m_wc' = m_wc + 1
    /\ kind' = [kind EXCEPT ![g] = "weak"]
    /\ late' = IF h \in late THEN late \cup {g} ELSE late
    /\ UNCHANGED <<m_rc, todo, dtors, frees>>

\* The destructor of T makes a wp<T> of the object it is destroying:
\* the constructor wp(T*) calls retainWeak() whatever m_rc is.  No destructor is
\* taken to make an sp<T> of it, which retainToSp(this) would let it do: m_rc
\* would rise from 0, and fall to 0 a second time.
RetainWeakThis(h, g) ==
    /\ "destroy" \in todo[h] /\ frees = 0
    /\ Idle(g) /\ g \notin Members
    /\ m_wc' = m_wc + 1
    /\ kind' = [kind EXCEPT ![g] = "weak"]
    /\ late' = late \cup {g}
    /\ UNCHANGED <<m_rc, todo, dtors, frees>>

\* A wp<T> lets go of the memory: the locked part of _releaseWeak().
ReleaseWeak(h) ==
    /\ kind[h] = "weak"
    /\ m_wc' = m_wc - 1
    /\ kind' = [kind EXCEPT ![h] = "none"]
    /\ todo' = [todo EXCEPT ![h] = IF ReleaseWeakFrees(m_rc, m_wc) THEN {"free"} ELSE {}]
    /\ UNCHANGED <<m_rc, dtors, frees, late>>

\* wp<T>::lock() that succeeds: ControlBlock::lockStrong() counted the new
\* sp<T>.  A call that finds m_rc = 0 changes nothing and returns NULL.
LockStrong(h, g) ==
    /\ kind[h] = "weak" /\ Idle(g) /\ g \notin Members
    /\ LockStrongSucceeds(m_rc)
    /\ m_rc' = m_rc + 1
    /\ kind' = [kind EXCEPT ![g] = "strong"]
    /\ UNCHANGED <<m_wc, todo, dtors, frees, late>>

Next ==
    \/ \E h, g \in Handles :
           \/ Retain(h, g) \/ RetainWeak(h, g)
           \/ RetainWeakThis(h, g) \/ LockStrong(h, g)
    \/ \E h \in Handles :
           Release(h) \/ Destroy(h) \/ FreeMemory(h) \/ ReleaseWeak(h)

Spec == Init /\ [][Next]_vars

-----------------------------------------------------------------------------
Destroyers == {h \in Handles : "destroy" \in todo[h]}
Freers     == {h \in Handles : "free" \in todo[h]}

TypeOK ==
    /\ m_rc \in Nat /\ m_wc \in Nat
    /\ kind \in [Handles -> Kinds]
    /\ todo \in [Handles -> SUBSET Work]
    /\ dtors \in Nat /\ frees \in Nat
    /\ late \in SUBSET Handles

\* The counters are what their names say, at every moment and whatever the
\* threads interleave: each sp<T> is counted once in m_rc, each wp<T> in m_wc.
CountsMatch ==
    /\ m_rc = Cardinality(StrongHandles)
    /\ m_wc = Cardinality(WeakHandles)

\* As long as any sp<T> refers to the object, no thread has destroyed it, has
\* freed it, or is on its way to doing either (_release, _releaseWeak).
AliveWhileHeld ==
    StrongHandles # {} =>
        Destroyers = {} /\ Freers = {} /\ dtors = 0 /\ frees = 0 /\ late = {}

\* A handle that still has work from its last release refers to nothing.
WorkerHoldsNothing == \A h \in Handles : todo[h] # {} => kind[h] = "none"

\* Once the last sp<T> is gone, exactly one thread has or had the destructor
\* to run.
DestroyedByOne ==
    StrongHandles = {} =>
        \/ dtors = 0 /\ \E h \in Handles : Destroyers = {h}
        \/ dtors = 1 /\ Destroyers = {}

\* Whoever frees the memory does so after every handle is gone but those that
\* began in the destructor.
FreedAfterPromised ==
    Freers # {} \/ frees > 0 => StrongHandles = {} /\ WeakHandles \subseteq late

\* Once the last handle of either kind is gone, somebody has or had the memory
\* to free.
FreedBySome == StrongHandles \cup WeakHandles = {} => Freers # {} \/ frees > 0

\* Once the last handle of either kind is gone, exactly one thread has or had
\* the memory to free; before that, nobody.
FreedByOne ==
    StrongHandles = {} =>
        IF WeakHandles # {}
        THEN frees = 0 /\ Freers = {}
        ELSE \/ frees = 0 /\ \E h \in Handles : Freers = {h}
             \/ frees = 1 /\ Freers = {}

\* The inductive invariant: what the counters mean, that the destructor is run
\* by one thread, after the last sp<T>, and that the memory is freed by one.
\* Only the last part needs a destructor that makes no wp<T>(this).
IInv ==
    /\ TypeOK /\ CountsMatch /\ AliveWhileHeld
    /\ WorkerHoldsNothing /\ DestroyedByOne /\ FreedAfterPromised /\ FreedBySome
    /\ late = {} => FreedByOne

-----------------------------------------------------------------------------
\* Of all the threads dropping their last references at once, one frees the
\* memory, once, and only when no sp<T> or wp<T> refers to it any more -
\* unless the destructor has made a wp<T>(this).
FreedOnceAndLast ==
    late = {} =>
        /\ frees + Cardinality(Freers) <= 1
        /\ frees + Cardinality(Freers) = 1 => StrongHandles \cup WeakHandles = {}

\* When every handle is gone and every _release() has returned, the object has
\* been destroyed exactly once and its memory freed: nobody left it to another.
NothingLeaks ==
    (\A h \in Handles : Idle(h)) => dtors = 1 /\ frees >= 1

\* A wp<T>::lock() racing with the last _release() never brings the object
\* back: once m_rc has reached zero it stays there.
NeverRevived == [][m_rc = 0 => m_rc' = 0]_vars

\* The destructor runs on memory that is still allocated.  This does not hold:
\* release() answers freeMemory = false when a wp<T> exists, and that wp<T> may
\* then free the memory while the destructor is still to run.
DestructorOnLiveMemory == Destroyers # {} => frees = 0

\* The memory is freed at most once.  This does not hold when the destructor
\* makes a wp<T>(this) and drops it: should.freeMemory in _release() is older.
FreedOnce == frees <= 1

\* Two counters and the flags they yield do what the handles promise.  A weak
\* reference that began in the destructor is outside the promise.
SO == INSTANCE SharedObject WITH
          strong <- StrongHandles, weak <- WeakHandles \ late, reclaimed <- frees > 0

ImplementsSharedObject == SO!Spec
=============================================================================
