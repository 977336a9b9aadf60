-------------------------- MODULE ControlBlockProof --------------------------
(***************************************************************************)
(* Proofs about ControlBlock and ControlBlockLocked, for every finite set  *)
(* of handles, and about the Spinlock that the second one is built on.     *)
(*                                                                         *)
(* IInv is proved in two layers: first what the counters mean (HeldInv),   *)
(* then who destroys and who frees.  Destructors may make wp<T>(this), and *)
(* what fails then says so in its statement; none makes an sp<T> of the    *)
(* object it belongs to.                                                   *)
(*                                                                         *)
(* Then the methods taken apart over the spinlock.  That the lock keeps    *)
(* them apart makes what they have read current when they write, so that   *)
(* each write is a step of ControlBlock; that IInv holds after the step    *)
(* tells who is left, so that the block is not freed while anybody is in   *)
(* lock() or unlock().                                                     *)
(***************************************************************************)
EXTENDS ControlBlockLocked, FiniteSetTheorems, TLAPS

\* A handle that was empty is added to a set of handles: one more is counted.
LEMMA CountAdded ==
    ASSUME NEW S \in SUBSET Handles, NEW g \in Handles, g \notin S
    PROVE  Cardinality(S \cup {g}) = Cardinality(S) + 1
<1>1. IsFiniteSet(S)
  BY HandlesAssumption, FS_Subset
<1> QED
  BY <1>1, FS_AddElement

\* A handle of a set of handles is removed: one less is counted.
LEMMA CountRemoved ==
    ASSUME NEW S \in SUBSET Handles, NEW h \in S
    PROVE  Cardinality(S \ {h}) = Cardinality(S) - 1
<1>1. IsFiniteSet(S)
  BY HandlesAssumption, FS_Subset
<1> QED
  BY <1>1, FS_RemoveElement

\* A count of handles is a natural number, zero only for no handle and one
\* only for a single handle.
LEMMA CountMeaning ==
    ASSUME NEW S \in SUBSET Handles
    PROVE  /\ Cardinality(S) \in Nat
           /\ Cardinality(S) = 0 <=> S = {}
           /\ Cardinality(S) = 1 <=> \E h \in Handles : S = {h}
<1>1. IsFiniteSet(S)
  BY HandlesAssumption, FS_Subset
<1>2. Cardinality(S) = 1 => \E h \in Handles : S = {h}
  BY <1>1, FS_Singleton
<1>3. (\E h \in Handles : S = {h}) => Cardinality(S) = 1
  BY FS_Singleton
<1> QED
  BY <1>1, <1>2, <1>3, FS_CardinalityType, FS_EmptySet

\* What the counters say about the handles.
LEMMA CountersMean ==
    ASSUME CountsMatch
    PROVE  /\ m_rc = 0 <=> StrongHandles = {}
           /\ m_rc = 1 <=> \E h \in Handles : StrongHandles = {h}
           /\ m_wc = 0 <=> WeakHandles = {}
           /\ m_wc = 1 <=> \E h \in Handles : WeakHandles = {h}
  BY CountMeaning DEF CountsMatch, StrongHandles, WeakHandles

-----------------------------------------------------------------------------
(* The effect on the sets of handles of each way kind changes.             *)

\* An empty handle becomes strong.
LEMMA BecomesStrong ==
    ASSUME TypeOK, NEW g \in Handles, kind[g] = "none",
           kind' = [kind EXCEPT ![g] = "strong"]
    PROVE  /\ StrongHandles' = StrongHandles \cup {g} /\ g \notin StrongHandles
           /\ WeakHandles' = WeakHandles
           /\ kind' \in [Handles -> Kinds]
  BY DEF TypeOK, Kinds, StrongHandles, WeakHandles

\* An empty handle becomes weak.
LEMMA BecomesWeak ==
    ASSUME TypeOK, NEW g \in Handles, kind[g] = "none",
           kind' = [kind EXCEPT ![g] = "weak"]
    PROVE  /\ WeakHandles' = WeakHandles \cup {g} /\ g \notin WeakHandles
           /\ StrongHandles' = StrongHandles
           /\ kind' \in [Handles -> Kinds]
  BY DEF TypeOK, Kinds, StrongHandles, WeakHandles

\* A strong handle becomes empty.
LEMMA StrongDropped ==
    ASSUME TypeOK, NEW h \in Handles, kind[h] = "strong",
           kind' = [kind EXCEPT ![h] = "none"]
    PROVE  /\ StrongHandles' = StrongHandles \ {h} /\ h \in StrongHandles
           /\ WeakHandles' = WeakHandles
           /\ kind' \in [Handles -> Kinds]
  BY DEF TypeOK, Kinds, StrongHandles, WeakHandles

\* A weak handle becomes empty.
LEMMA WeakDropped ==
    ASSUME TypeOK, NEW h \in Handles, kind[h] = "weak",
           kind' = [kind EXCEPT ![h] = "none"]
    PROVE  /\ WeakHandles' = WeakHandles \ {h} /\ h \in WeakHandles
           /\ StrongHandles' = StrongHandles
           /\ kind' \in [Handles -> Kinds]
  BY DEF TypeOK, Kinds, StrongHandles, WeakHandles

-----------------------------------------------------------------------------
(* HeldInv: what the counters mean.                                        *)

HeldInv == TypeOK /\ CountsMatch /\ AliveWhileHeld

\* A new object has one strong handle, its creator, and nothing is under way.
LEMMA InitHeld == Init => HeldInv
<1> SUFFICES ASSUME Init
             PROVE  HeldInv
  OBVIOUS
<1>1. PICK h \in Handles \ Members :
          kind = [g \in Handles |-> IF g = h THEN "strong" ELSE "none"]
  BY DEF Init
<1>2. TypeOK
  BY <1>1 DEF Init, TypeOK, Kinds, Work, NewCounts
<1>3. StrongHandles = {h} /\ WeakHandles = {}
  BY <1>1 DEF StrongHandles, WeakHandles
<1>4. CountsMatch
  BY <1>3, FS_Singleton, FS_EmptySet DEF CountsMatch, Init, NewCounts
<1>5. AliveWhileHeld
  BY DEF Init, AliveWhileHeld, Destroyers, Freers
<1> QED
  BY <1>2, <1>4, <1>5 DEF HeldInv

\* A step that adds a strong handle while the object is held by another.
LEMMA StrongAdded ==
    ASSUME HeldInv, NEW g \in Handles, kind[g] = "none",
           StrongHandles # {},
           m_rc' = m_rc + 1,
           kind' = [kind EXCEPT ![g] = "strong"],
           UNCHANGED <<m_wc, todo, dtors, frees, late>>
    PROVE  HeldInv'
<1> USE DEF HeldInv
<1>1. /\ StrongHandles' = StrongHandles \cup {g} /\ g \notin StrongHandles
      /\ WeakHandles' = WeakHandles
      /\ kind' \in [Handles -> Kinds]
  BY BecomesStrong
<1>2. TypeOK'
  BY <1>1 DEF TypeOK
<1>3. CountsMatch'
  <2>1. StrongHandles \in SUBSET Handles
    BY DEF StrongHandles
  <2>2. Cardinality(StrongHandles') = Cardinality(StrongHandles) + 1
    BY <1>1, <2>1, CountAdded
  <2> QED
    BY <1>1, <2>2 DEF CountsMatch
<1>4. AliveWhileHeld'
  BY DEF AliveWhileHeld, Destroyers, Freers
<1> QED
  BY <1>2, <1>3, <1>4

\* A step that adds a weak handle, a late one only when no strong one is left.
LEMMA WeakAdded ==
    ASSUME HeldInv, NEW g \in Handles, kind[g] = "none",
           late' \in SUBSET Handles,
           StrongHandles # {} => late' = {},
           m_wc' = m_wc + 1,
           kind' = [kind EXCEPT ![g] = "weak"],
           UNCHANGED <<m_rc, todo, dtors, frees>>
    PROVE  HeldInv'
<1> USE DEF HeldInv
<1>1. /\ WeakHandles' = WeakHandles \cup {g} /\ g \notin WeakHandles
      /\ StrongHandles' = StrongHandles
      /\ kind' \in [Handles -> Kinds]
  BY BecomesWeak
<1>2. TypeOK'
  BY <1>1 DEF TypeOK
<1>3. CountsMatch'
  <2>1. WeakHandles \in SUBSET Handles
    BY DEF WeakHandles
  <2>2. Cardinality(WeakHandles') = Cardinality(WeakHandles) + 1
    BY <1>1, <2>1, CountAdded
  <2> QED
    BY <1>1, <2>2 DEF CountsMatch
<1>4. AliveWhileHeld'
  BY <1>1 DEF AliveWhileHeld, Destroyers, Freers
<1> QED
  BY <1>2, <1>3, <1>4

\* A wp<T> from a handle: a copy of a late one is late.
LEMMA RetainWeakHeld ==
    ASSUME HeldInv, NEW h \in Handles, NEW g \in Handles, RetainWeak(h, g)
    PROVE  HeldInv'
<1>1. late' \in SUBSET Handles /\ (StrongHandles # {} => late' = {})
  BY DEF RetainWeak, HeldInv, TypeOK, AliveWhileHeld
<1> QED
  BY <1>1, WeakAdded DEF RetainWeak, Idle

\* A wp<T>(this) from a destructor: it runs only when no strong handle is left.
LEMMA RetainWeakThisHeld ==
    ASSUME HeldInv, NEW h \in Handles, NEW g \in Handles, RetainWeakThis(h, g)
    PROVE  HeldInv'
<1>1. late' \in SUBSET Handles
  BY DEF RetainWeakThis, HeldInv, TypeOK
<1>2. StrongHandles = {}
  BY DEF RetainWeakThis, HeldInv, AliveWhileHeld, Destroyers
<1> QED
  BY <1>1, <1>2, WeakAdded DEF RetainWeakThis, Idle

\* release(): the work of the caller starts only when no strong handle is left.
LEMMA ReleaseHeld ==
    ASSUME HeldInv, NEW h \in Handles, Release(h)
    PROVE  HeldInv'
<1> USE DEF HeldInv
<1>1. /\ StrongHandles' = StrongHandles \ {h} /\ h \in StrongHandles
      /\ WeakHandles' = WeakHandles
      /\ kind' \in [Handles -> Kinds]
  BY StrongDropped DEF Release
<1>2. /\ StrongHandles \in SUBSET Handles
      /\ Cardinality(StrongHandles') = Cardinality(StrongHandles) - 1
  BY <1>1, CountRemoved DEF StrongHandles
<1>3. m_rc' \in Nat
  BY <1>1, <1>2, CountMeaning DEF CountsMatch, Release, TypeOK
<1>4. TypeOK'
  BY <1>1, <1>3 DEF TypeOK, Release, WorkAfter, ReleaseAction, Work
<1>5. CountsMatch'
  BY <1>1, <1>2 DEF CountsMatch, Release
<1>6. AliveWhileHeld'
  <2>1. CASE m_rc = 1
    <3>1. StrongHandles = {h}
      BY <1>1, <2>1, CountersMean
    <3> QED
      BY <1>1, <3>1 DEF AliveWhileHeld
  <2>2. CASE m_rc # 1
    <3>1. todo' = [todo EXCEPT ![h] = {}]
      BY <2>2 DEF Release, WorkAfter, ReleaseAction
    <3>2. Destroyers' = Destroyers \ {h} /\ Freers' = Freers \ {h}
      BY <3>1 DEF Destroyers, Freers, TypeOK
    <3> QED
      BY <1>1, <3>2 DEF AliveWhileHeld, Release
  <2> QED
    BY <2>1, <2>2
<1> QED
  BY <1>4, <1>5, <1>6

\* releaseWeak(): its caller frees the memory only when no strong handle is left.
LEMMA ReleaseWeakHeld ==
    ASSUME HeldInv, NEW h \in Handles, ReleaseWeak(h)
    PROVE  HeldInv'
<1> USE DEF HeldInv
<1>1. /\ WeakHandles' = WeakHandles \ {h} /\ h \in WeakHandles
      /\ StrongHandles' = StrongHandles
      /\ kind' \in [Handles -> Kinds]
  BY WeakDropped DEF ReleaseWeak
<1>2. /\ WeakHandles \in SUBSET Handles
      /\ Cardinality(WeakHandles') = Cardinality(WeakHandles) - 1
  BY <1>1, CountRemoved DEF WeakHandles
<1>3. m_wc' \in Nat
  BY <1>1, <1>2, CountMeaning DEF CountsMatch, ReleaseWeak, TypeOK
<1>4. TypeOK'
  BY <1>1, <1>3 DEF TypeOK, ReleaseWeak, Work
<1>5. CountsMatch'
  BY <1>1, <1>2 DEF CountsMatch, ReleaseWeak
<1>6. AliveWhileHeld'
  <2>1. CASE m_rc = 0
    <3>1. StrongHandles = {}
      BY <2>1, CountersMean
    <3> QED
      BY <1>1, <3>1 DEF AliveWhileHeld
  <2>2. CASE m_rc # 0
    <3>1. todo' = [todo EXCEPT ![h] = {}]
      BY <2>2 DEF ReleaseWeak, ReleaseWeakFrees
    <3>2. Destroyers' = Destroyers \ {h} /\ Freers' = Freers \ {h}
      BY <3>1 DEF Destroyers, Freers, TypeOK
    <3> QED
      BY <1>1, <3>2 DEF AliveWhileHeld, ReleaseWeak
  <2> QED
    BY <2>1, <2>2
<1> QED
  BY <1>4, <1>5, <1>6

\* Whoever is to destroy or to free leaves the handles and counters alone, and
\* can be there only when no strong handle is.
LEMMA WorkHeld ==
    ASSUME HeldInv, NEW h \in Handles, Destroy(h) \/ FreeMemory(h)
    PROVE  HeldInv'
<1> USE DEF HeldInv
<1>1. StrongHandles = {}
  BY DEF AliveWhileHeld, Destroyers, Freers, Destroy, FreeMemory
<1>2. UNCHANGED <<m_rc, m_wc, kind, StrongHandles, WeakHandles>>
  BY DEF Destroy, FreeMemory, StrongHandles, WeakHandles
<1>3. TypeOK'
  BY DEF TypeOK, Destroy, FreeMemory, Work
<1> QED
  BY <1>1, <1>2, <1>3 DEF CountsMatch, AliveWhileHeld

\* HeldInv is inductive.
LEMMA NextHeld == HeldInv /\ [Next]_vars => HeldInv'
<1> SUFFICES ASSUME HeldInv, [Next]_vars
             PROVE  HeldInv'
  OBVIOUS
<1> USE DEF Idle
<1>1. ASSUME NEW h \in Handles, NEW g \in Handles, Retain(h, g)
      PROVE  HeldInv'
  BY <1>1, StrongAdded DEF Retain, StrongHandles
<1>2. ASSUME NEW h \in Handles, NEW g \in Handles, RetainWeak(h, g)
      PROVE  HeldInv'
  BY <1>2, RetainWeakHeld
<1>3. ASSUME NEW h \in Handles, NEW g \in Handles, RetainWeakThis(h, g)
      PROVE  HeldInv'
  BY <1>3, RetainWeakThisHeld
<1>4. ASSUME NEW h \in Handles, NEW g \in Handles, LockStrong(h, g)
      PROVE  HeldInv'
  <2>1. StrongHandles # {}
    \* lockStrong() found m_rc # 0
    BY <1>4, CountersMean DEF LockStrong, LockStrongSucceeds, HeldInv
  <2> QED
    BY <1>4, <2>1, StrongAdded DEF LockStrong
<1>5. ASSUME NEW h \in Handles, Release(h)
      PROVE  HeldInv'
  BY <1>5, ReleaseHeld
<1>6. ASSUME NEW h \in Handles, Destroy(h) \/ FreeMemory(h)
      PROVE  HeldInv'
  BY <1>6, WorkHeld
<1>7. ASSUME NEW h \in Handles, ReleaseWeak(h)
      PROVE  HeldInv'
  BY <1>7, ReleaseWeakHeld
<1>8. CASE UNCHANGED vars
  BY <1>8 DEF vars, HeldInv, TypeOK, CountsMatch, AliveWhileHeld,
              StrongHandles, WeakHandles, Destroyers, Freers
<1> QED
  BY <1>1, <1>2, <1>3, <1>4, <1>5, <1>6, <1>7, <1>8 DEF Next

\* What the counters mean holds in every reachable state.
THEOREM ControlBlockHeld == Spec => []HeldInv
  BY InitHeld, NextHeld, PTL DEF Spec

\* m_rc counts the sp<T> and m_wc the wp<T> that refer to the object.
THEOREM ControlBlockCounts == Spec => []CountsMatch
<1>1. HeldInv => CountsMatch
  BY DEF HeldInv
<1> QED
  BY <1>1, ControlBlockHeld, PTL

\* No thread destroys or frees an object to which an sp<T> refers, whatever
\* weak pointers the destructor makes and however the threads interleave.
THEOREM ControlBlockAlive == Spec => []AliveWhileHeld
<1>1. HeldInv => AliveWhileHeld
  BY DEF HeldInv
<1> QED
  BY <1>1, ControlBlockHeld, PTL

\* An object whose last sp<T> is gone is never handed out again by lock().
THEOREM ControlBlockNeverRevived == Spec => NeverRevived
<1>1. ASSUME HeldInv, [Next]_vars
      PROVE  m_rc = 0 => m_rc' = 0
  <2> SUFFICES ASSUME m_rc = 0
               PROVE  m_rc' = 0
    OBVIOUS
  <2>1. StrongHandles = {}
    BY <1>1, CountersMean DEF HeldInv
  <2>2. \A h \in Handles : kind[h] # "strong"
    BY <2>1 DEF StrongHandles
  <2> QED
    BY <1>1, <2>2 DEF Next, vars, Retain, Release, Destroy, FreeMemory, RetainWeak,
       RetainWeakThis, ReleaseWeak, LockStrong, LockStrongSucceeds
<1>2. HeldInv /\ [Next]_vars => [m_rc = 0 => m_rc' = 0]_vars
  BY <1>1
<1> QED
  BY <1>2, ControlBlockHeld, PTL DEF Spec, NeverRevived

-----------------------------------------------------------------------------
(* The rest of IInv: who destroys and who frees.                           *)

\* A new object has nothing under way.
LEMMA InitIInv == Init => IInv
<1> SUFFICES ASSUME Init
             PROVE  IInv
  OBVIOUS
<1>1. HeldInv
  BY InitHeld
<1>2. StrongHandles # {}
  BY HandlesAssumption DEF Init, StrongHandles
<1>3. Freers = {} /\ frees = 0
  BY DEF Init, Freers
<1> QED
  BY <1>1, <1>2, <1>3 DEF HeldInv, IInv, Init, WorkerHoldsNothing, DestroyedByOne,
     FreedAfterPromised, FreedBySome, FreedByOne

\* While a strong handle is left, the parts of IInv about the end are void.
LEMMA HeldMeansIInv ==
    ASSUME HeldInv', WorkerHoldsNothing', StrongHandles' # {}
    PROVE  IInv'
  BY DEF HeldInv, IInv, AliveWhileHeld, DestroyedByOne, FreedAfterPromised, FreedBySome, FreedByOne

\* Adding a handle leaves the workers with nothing: only idle handles are filled.
LEMMA WorkerStays ==
    ASSUME IInv, NEW g \in Handles, todo[g] = {}, NEW k \in Kinds,
           kind' = [kind EXCEPT ![g] = k], UNCHANGED todo
    PROVE  WorkerHoldsNothing'
  BY DEF IInv, TypeOK, WorkerHoldsNothing

\* A wp<T> copied from a handle: the memory is still there, and so it stays.
LEMMA RetainWeakIInv ==
    ASSUME IInv, NEW h \in Handles, NEW g \in Handles, RetainWeak(h, g)
    PROVE  IInv'
<1> USE DEF RetainWeak, Idle, IInv
<1>1. HeldInv'
  BY RetainWeakHeld DEF HeldInv
<1>2. WorkerHoldsNothing'
  BY WorkerStays DEF Kinds
<1>3. /\ WeakHandles' = WeakHandles \cup {g}
      /\ StrongHandles' = StrongHandles
  BY BecomesWeak
<1>4. UNCHANGED <<Destroyers, Freers>>
  BY DEF Destroyers, Freers
<1>5. DestroyedByOne'
  BY <1>3, <1>4 DEF DestroyedByOne
<1>6. h \in StrongHandles \cup WeakHandles
  BY DEF StrongHandles, WeakHandles
<1>7. FreedAfterPromised'
  BY <1>3, <1>4, <1>6 DEF FreedAfterPromised
<1>8. FreedBySome' /\ (late' = {} => FreedByOne')
  BY <1>3, <1>4, <1>6 DEF FreedBySome, FreedByOne
<1> QED
  BY <1>1, <1>2, <1>5, <1>7, <1>8 DEF HeldInv

\* A wp<T>(this) made by the destructor is late, and so no part of the promise.
LEMMA RetainWeakThisIInv ==
    ASSUME IInv, NEW h \in Handles, NEW g \in Handles, RetainWeakThis(h, g)
    PROVE  IInv'
<1> USE DEF RetainWeakThis, Idle, IInv
<1>1. HeldInv'
  BY RetainWeakThisHeld DEF HeldInv
<1>2. WorkerHoldsNothing'
  BY WorkerStays DEF Kinds
<1>3. /\ WeakHandles' = WeakHandles \cup {g}
      /\ StrongHandles' = StrongHandles
  BY BecomesWeak
<1>4. UNCHANGED <<Destroyers, Freers>>
  BY DEF Destroyers, Freers
<1>5. DestroyedByOne' /\ FreedAfterPromised' /\ FreedBySome'
  BY <1>3, <1>4 DEF DestroyedByOne, FreedAfterPromised, FreedBySome
<1>6. late' # {}
  OBVIOUS
<1> QED
  BY <1>1, <1>2, <1>5, <1>6 DEF HeldInv

\* The last release() makes its caller the one destroyer, and the one freer
\* exactly when no weak handle is left to take that part.
LEMMA ReleaseIInv ==
    ASSUME IInv, NEW h \in Handles, Release(h)
    PROVE  IInv'
<1> USE DEF IInv
<1>1. HeldInv'
  BY ReleaseHeld DEF HeldInv
<1>2. /\ StrongHandles' = StrongHandles \ {h} /\ h \in StrongHandles
      /\ WeakHandles' = WeakHandles
  BY StrongDropped DEF Release
<1>3. WorkerHoldsNothing'
  BY DEF Release, WorkerHoldsNothing, TypeOK, Kinds
<1>4. Destroyers = {} /\ Freers = {} /\ dtors = 0 /\ frees = 0
  BY <1>2 DEF AliveWhileHeld
<1>5. CASE StrongHandles' # {}
  BY <1>1, <1>3, <1>5, HeldMeansIInv
<1>6. CASE StrongHandles' = {}
  <2>1. m_rc = 1
    <3>1. StrongHandles = {h}
      BY <1>2, <1>6
    <3> QED
      BY <3>1, CountersMean
  <2>2. Destroyers' = {h} /\ dtors' = 0
    BY <1>4, <2>1 DEF Destroyers, Release, WorkAfter, ReleaseAction, TypeOK
  <2>3. CASE m_wc = 0
    <3>1. WeakHandles' = {}
      BY <1>2, <2>3, CountersMean
    <3>2. Freers' = {h} /\ frees' = 0
      BY <1>4, <2>1, <2>3 DEF Freers, Release, WorkAfter, ReleaseAction, TypeOK
    <3>3. DestroyedByOne' /\ FreedByOne' /\ FreedBySome' /\ FreedAfterPromised'
      BY <1>6, <2>2, <3>1, <3>2 DEF DestroyedByOne, FreedByOne, FreedBySome, FreedAfterPromised
    <3> QED
      BY <1>1, <1>3, <3>3 DEF HeldInv
  <2>4. CASE m_wc # 0
    <3>1. WeakHandles' # {}
      BY <1>2, <2>4, CountersMean
    <3>2. Freers' = {} /\ frees' = 0
      BY <1>4, <2>1, <2>4 DEF Freers, Release, WorkAfter, ReleaseAction, TypeOK
    <3>3. DestroyedByOne' /\ FreedByOne' /\ FreedBySome' /\ FreedAfterPromised'
      BY <2>2, <3>1, <3>2 DEF DestroyedByOne, FreedByOne, FreedBySome, FreedAfterPromised
    <3> QED
      BY <1>1, <1>3, <3>3 DEF HeldInv
  <2> QED
    BY <2>3, <2>4
<1> QED
  BY <1>5, <1>6

\* The last releaseWeak() makes its caller the one freer, once the last strong
\* handle is gone, and never before.
LEMMA ReleaseWeakIInv ==
    ASSUME IInv, NEW h \in Handles, ReleaseWeak(h)
    PROVE  IInv'
<1> USE DEF IInv
<1>1. HeldInv'
  BY ReleaseWeakHeld DEF HeldInv
<1>2. /\ WeakHandles' = WeakHandles \ {h} /\ h \in WeakHandles
      /\ StrongHandles' = StrongHandles
  BY WeakDropped DEF ReleaseWeak
<1>3. todo[h] = {}
  BY DEF WorkerHoldsNothing, ReleaseWeak
<1>4. WorkerHoldsNothing'
  BY DEF ReleaseWeak, WorkerHoldsNothing, TypeOK, Kinds
<1>5. CASE StrongHandles # {}
  BY <1>1, <1>2, <1>4, <1>5, HeldMeansIInv
<1>6. CASE StrongHandles = {}
  <2>1. m_rc = 0
    BY <1>6, CountersMean
  <2>2. Destroyers' = Destroyers
    BY <1>3 DEF Destroyers, ReleaseWeak, TypeOK
  <2>3. DestroyedByOne'
    BY <1>2, <2>2 DEF DestroyedByOne, ReleaseWeak
  <2>4. UNCHANGED <<late, frees>>
    BY DEF ReleaseWeak
  <2>5. CASE m_wc = 1
    <3>1. WeakHandles' = {}
      BY <1>2, <2>5, CountersMean
    <3>2. Freers' = Freers \cup {h}
      BY <2>1, <2>5 DEF Freers, ReleaseWeak, ReleaseWeakFrees, TypeOK
    <3>3. FreedAfterPromised' /\ FreedBySome'
      BY <1>2, <1>6, <3>1, <3>2 DEF FreedAfterPromised, FreedBySome
    <3>4. late' = {} => FreedByOne'
      BY <1>2, <1>6, <2>4, <3>1, <3>2 DEF FreedByOne
    <3> QED
      BY <1>1, <1>4, <2>3, <3>3, <3>4 DEF HeldInv
  <2>6. CASE m_wc # 1
    <3>1. WeakHandles' # {}
      <4>1. WeakHandles # {h}
        BY <2>6, CountersMean
      <4> QED
        BY <1>2, <4>1
    <3>2. Freers' = Freers
      BY <1>3, <2>6 DEF Freers, ReleaseWeak, ReleaseWeakFrees, TypeOK
    <3>3. FreedAfterPromised' /\ FreedBySome'
      BY <1>2, <2>4, <3>1, <3>2 DEF FreedAfterPromised, FreedBySome
    <3>4. late' = {} => FreedByOne'
      BY <1>2, <2>4, <3>1, <3>2 DEF FreedByOne
    <3> QED
      BY <1>1, <1>4, <2>3, <3>3, <3>4 DEF HeldInv
  <2> QED
    BY <2>5, <2>6
<1> QED
  BY <1>5, <1>6

\* The one destroyer finishes: it has run, and nobody else has it to run.
LEMMA DestroyIInv ==
    ASSUME IInv, NEW h \in Handles, Destroy(h)
    PROVE  IInv'
<1> USE DEF IInv
<1>1. HeldInv' /\ UNCHANGED <<StrongHandles, WeakHandles, late>>
  BY WorkHeld DEF Destroy, StrongHandles, WeakHandles, HeldInv
<1>2. WorkerHoldsNothing'
  BY DEF Destroy, WorkerHoldsNothing, TypeOK
<1>3. StrongHandles = {}
  BY DEF AliveWhileHeld, Destroyers, Destroy
<1>4. Destroyers = {h} /\ dtors = 0
  BY <1>3 DEF DestroyedByOne, Destroyers, Destroy
<1>5. Destroyers' = {} /\ dtors' = 1
  BY <1>4 DEF Destroy, Destroyers, TypeOK
<1>6. UNCHANGED <<Freers, frees>>
  BY DEF Destroy, Freers, TypeOK
<1>7. DestroyedByOne'
  BY <1>5 DEF DestroyedByOne
<1>8. FreedAfterPromised' /\ FreedBySome' /\ (late' = {} => FreedByOne')
  BY <1>1, <1>6 DEF FreedAfterPromised, FreedBySome, FreedByOne
<1> QED
  BY <1>1, <1>2, <1>7, <1>8 DEF HeldInv

\* A freer finishes; it is the only one when no reference is late.
LEMMA FreeMemoryIInv ==
    ASSUME IInv, NEW h \in Handles, FreeMemory(h)
    PROVE  IInv'
<1> USE DEF IInv
<1>1. HeldInv' /\ UNCHANGED <<StrongHandles, WeakHandles, late>>
  BY WorkHeld DEF FreeMemory, StrongHandles, WeakHandles, HeldInv
<1>2. WorkerHoldsNothing'
  BY DEF FreeMemory, WorkerHoldsNothing, TypeOK
<1>3. h \in Freers
  BY DEF Freers, FreeMemory
<1>4. StrongHandles = {} /\ WeakHandles \subseteq late
  BY <1>3 DEF FreedAfterPromised
<1>5. UNCHANGED <<Destroyers, dtors>>
  BY DEF FreeMemory, Destroyers, TypeOK
<1>6. DestroyedByOne' /\ FreedAfterPromised' /\ FreedBySome'
  BY <1>1, <1>4, <1>5 DEF DestroyedByOne, FreedAfterPromised, FreedBySome, FreeMemory, TypeOK
<1>7. ASSUME late' = {}
      PROVE  FreedByOne'
  <2>1. late = {} /\ WeakHandles = {}
    BY <1>1, <1>4, <1>7
  <2>2. Freers = {h} /\ frees = 0
    BY <1>3, <1>4, <2>1 DEF FreedByOne
  <2>3. Freers' = {} /\ frees' = 1
    BY <2>2 DEF FreeMemory, Freers, TypeOK
  <2> QED
    BY <1>1, <2>1, <2>3 DEF FreedByOne
<1> QED
  BY <1>1, <1>2, <1>6, <1>7 DEF HeldInv

\* IInv is inductive.
LEMMA NextIInv == IInv /\ [Next]_vars => IInv'
<1> SUFFICES ASSUME IInv, [Next]_vars
             PROVE  IInv'
  OBVIOUS
<1>1. HeldInv'
  BY NextHeld DEF HeldInv, IInv
<1>2. ASSUME NEW h \in Handles, NEW g \in Handles, Retain(h, g) \/ LockStrong(h, g)
      PROVE  IInv'
  <2>1. WorkerHoldsNothing'
    BY <1>2, WorkerStays DEF Retain, LockStrong, Idle, Kinds
  <2>2. g \in StrongHandles'
    BY <1>2, BecomesStrong DEF Retain, LockStrong, Idle, IInv
  <2> QED
    BY <1>1, <2>1, <2>2, HeldMeansIInv
<1>3. CASE UNCHANGED vars
  BY <1>3 DEF vars, IInv, TypeOK, CountsMatch, AliveWhileHeld, DestroyedByOne, FreedByOne, FreedBySome,
     FreedAfterPromised, WorkerHoldsNothing, StrongHandles, WeakHandles, Destroyers, Freers
<1> QED
  BY <1>2, <1>3, RetainWeakIInv, RetainWeakThisIInv, ReleaseIInv, ReleaseWeakIInv,
     DestroyIInv, FreeMemoryIInv DEF Next

\* The inductive invariant holds in every reachable state.
THEOREM ControlBlockInvariant == Spec => []IInv
  BY InitIInv, NextIInv, PTL DEF Spec

\* One thread frees the memory, once, and after the last handle is gone, unless
\* the destructor has made a wp<T> of its object.
THEOREM ControlBlockFreedOnce == Spec => []FreedOnceAndLast
<1>1. ASSUME IInv
      PROVE  FreedOnceAndLast
  <2> USE DEF IInv
  <2> SUFFICES ASSUME late = {}
               PROVE  /\ frees + Cardinality(Freers) <= 1
                      /\ frees + Cardinality(Freers) = 1 => StrongHandles \cup WeakHandles = {}
    BY DEF FreedOnceAndLast
  <2>1. CASE StrongHandles # {}
    BY <1>1, <2>1, FS_EmptySet DEF AliveWhileHeld
  <2>2. CASE StrongHandles = {} /\ WeakHandles # {}
    BY <1>1, <2>2, FS_EmptySet DEF FreedByOne
  <2>3. CASE StrongHandles = {} /\ WeakHandles = {}
    <3>1. \/ frees = 0 /\ Cardinality(Freers) = 1
          \/ frees = 1 /\ Cardinality(Freers) = 0
      BY <1>1, <2>3, FS_EmptySet, FS_Singleton DEF FreedByOne
    <3> QED
      BY <2>3, <3>1
  <2> QED
    BY <2>1, <2>2, <2>3
<1> QED
  BY <1>1, ControlBlockInvariant, PTL

\* When no handle is left and nobody has work to do, the object has been
\* destroyed and its memory freed, whatever weak pointers the destructor made.
THEOREM ControlBlockNothingLeaks == Spec => []NothingLeaks
<1>1. ASSUME IInv
      PROVE  NothingLeaks
  <2> SUFFICES ASSUME \A h \in Handles : Idle(h)
               PROVE  dtors = 1 /\ frees >= 1
    BY DEF NothingLeaks
  <2>1. /\ StrongHandles = {} /\ WeakHandles = {}
        /\ Destroyers = {} /\ Freers = {}
    BY DEF Idle, StrongHandles, WeakHandles, Destroyers, Freers
  <2> QED
    BY <1>1, <2>1 DEF IInv, TypeOK, DestroyedByOne, FreedBySome
<1> QED
  BY <1>1, ControlBlockInvariant, PTL

-----------------------------------------------------------------------------
(* The refinement: only the destructor, and the weak references that began *)
(* in it, are invisible to the abstract object.                            *)

\* A strong handle is added: the same handles are promised the memory.
LEMMA StrongSimulation ==
    ASSUME IInv, NEW h \in Handles, NEW g \in Handles, Retain(h, g) \/ LockStrong(h, g)
    PROVE  SO!Share(h, g) \/ SO!Promote(h, g)
<1> USE DEF Idle, IInv
<1>1. g \notin StrongHandles \cup WeakHandles
  BY DEF Retain, LockStrong, StrongHandles, WeakHandles
<1>2. StrongHandles' = StrongHandles \cup {g} /\ WeakHandles' = WeakHandles
  BY BecomesStrong DEF Retain, LockStrong
<1>3. CASE Retain(h, g)
  <2>1. h \in StrongHandles
    BY <1>3 DEF Retain, StrongHandles
  <2> QED
    BY <1>1, <1>2, <1>3, <2>1 DEF Retain, SO!Share, SO!Free
<1>4. CASE LockStrong(h, g)
  <2>1. StrongHandles # {} /\ h \in WeakHandles
    BY <1>4, CountersMean DEF LockStrong, LockStrongSucceeds, WeakHandles
  <2>2. late = {}
    BY <2>1 DEF AliveWhileHeld
  <2> QED
    BY <1>1, <1>2, <1>4, <2>1, <2>2 DEF LockStrong, SO!Promote, SO!Free
<1> QED
  BY <1>3, <1>4

\* A weak handle is added: seen by the abstract object unless it is late.
LEMMA WeakSimulation ==
    ASSUME IInv, NEW h \in Handles, NEW g \in Handles, RetainWeak(h, g)
    PROVE  SO!Observe(h, g) \/ UNCHANGED SO!vars
<1> USE DEF Idle, IInv, RetainWeak
<1>1. g \notin StrongHandles \cup WeakHandles /\ h \in StrongHandles \cup WeakHandles
  BY DEF StrongHandles, WeakHandles
<1>2. WeakHandles' = WeakHandles \cup {g} /\ StrongHandles' = StrongHandles
  BY BecomesWeak
<1>3. CASE h \notin late /\ g \notin late
  <2>1. (WeakHandles \ late)' = (WeakHandles \ late) \cup {g}
    BY <1>2, <1>3
  <2> QED
    BY <1>1, <1>2, <1>3, <2>1 DEF SO!Observe, SO!Free
<1>4. CASE h \in late \/ g \in late
  <2>1. (WeakHandles \ late)' = WeakHandles \ late
    BY <1>1, <1>2, <1>4
  <2> QED
    BY <1>2, <2>1 DEF SO!vars
<1> QED
  BY <1>3, <1>4

\* A step of the code is a step of the abstract object or leaves it unchanged.
LEMMA StepSimulation == IInv /\ [Next]_vars => [SO!Next]_(SO!vars)
<1> SUFFICES ASSUME IInv, [Next]_vars
             PROVE  [SO!Next]_(SO!vars)
  OBVIOUS
<1> USE DEF Idle, IInv
<1>1. ASSUME NEW h \in Handles, NEW g \in Handles, RetainWeakThis(h, g)
      PROVE  UNCHANGED SO!vars
  <2>1. WeakHandles' = WeakHandles \cup {g} /\ StrongHandles' = StrongHandles
    BY <1>1, BecomesWeak DEF RetainWeakThis
  <2>2. g \notin WeakHandles
    BY <1>1 DEF RetainWeakThis, WeakHandles
  <2> QED
    BY <1>1, <2>1, <2>2 DEF RetainWeakThis, SO!vars
<1>2. ASSUME NEW h \in Handles, Release(h)
      PROVE  SO!Drop(h)
  BY <1>2, StrongDropped DEF Release, SO!Drop
<1>3. ASSUME NEW h \in Handles, ReleaseWeak(h)
      PROVE  SO!Forget(h) \/ UNCHANGED SO!vars
  <2>1. WeakHandles' = WeakHandles \ {h} /\ h \in WeakHandles /\ StrongHandles' = StrongHandles
    BY <1>3, WeakDropped DEF ReleaseWeak
  <2>2. CASE h \in late
    BY <1>3, <2>1, <2>2 DEF ReleaseWeak, SO!vars
  <2>3. CASE h \notin late
    BY <1>3, <2>1, <2>3 DEF ReleaseWeak, SO!Forget
  <2> QED
    BY <2>2, <2>3
<1>4. ASSUME NEW h \in Handles, Destroy(h)
      PROVE  UNCHANGED SO!vars
  BY <1>4 DEF Destroy, SO!vars, StrongHandles, WeakHandles
<1>5. ASSUME NEW h \in Handles, FreeMemory(h)
      PROVE  SO!Reclaim \/ UNCHANGED SO!vars
  <2>1. h \in Freers
    BY <1>5 DEF FreeMemory, Freers
  <2>2. StrongHandles = {} /\ WeakHandles \ late = {}
    BY <2>1 DEF FreedAfterPromised
  <2>3. UNCHANGED <<StrongHandles, WeakHandles, late>> /\ frees' = frees + 1
    BY <1>5 DEF FreeMemory, StrongHandles, WeakHandles
  <2>4. CASE frees = 0
    BY <2>2, <2>3, <2>4 DEF SO!Reclaim
  <2>5. CASE frees > 0
    BY <2>3, <2>5 DEF SO!vars, TypeOK
  <2> QED
    BY <2>4, <2>5 DEF TypeOK
<1>6. CASE UNCHANGED vars
  BY <1>6 DEF vars, SO!vars, StrongHandles, WeakHandles
<1> QED
  BY <1>1, <1>2, <1>3, <1>4, <1>5, <1>6, StrongSimulation, WeakSimulation DEF Next, SO!Next

\* ControlBlock implements SharedObject: what sp<T> and wp<T> promise, to every
\* handle but the weak ones that began in the destructor.
THEOREM ControlBlockImplementsSharedObject == Spec => ImplementsSharedObject
<1>1. Init => SO!Init
  <2> SUFFICES ASSUME Init
               PROVE  SO!Init
    OBVIOUS
  <2>1. PICK h \in Handles \ Members :
            kind = [g \in Handles |-> IF g = h THEN "strong" ELSE "none"]
    BY DEF Init
  <2>2. StrongHandles = {h} /\ WeakHandles = {}
    BY <2>1 DEF StrongHandles, WeakHandles
  <2> QED
    BY <2>2 DEF Init, SO!Init
<1>2. IInv /\ [Next]_vars => [SO!Next]_(SO!vars)
  BY StepSimulation
<1> QED
  BY <1>1, <1>2, ControlBlockInvariant, PTL DEF Spec, SO!Spec, ImplementsSharedObject

-----------------------------------------------------------------------------
(* The methods taken apart: ControlBlockLocked.                            *)

(* The lock, for any finite set of users: Spinlock with Threads <- Handles. *)

\* The lock starts free and with no holder.
LEMMA LockStarts == L!Init => L!IInv
  BY DEF L!Init, L!IInv, L!TypeOK, L!Pcs, L!MutualExclusion, L!FlagMatchesHolder

\* Every step of lock() and unlock() keeps the inductive invariant.
LEMMA LockKept ==
    ASSUME L!IInv, NEW h \in Handles,
           L!Call(h) \/ L!Exchange(h) \/ L!Spin(h) \/ L!Unlock(h)
    PROVE  L!IInv'
<1> USE DEF L!IInv, L!TypeOK, L!Pcs, L!MutualExclusion, L!FlagMatchesHolder
<1>1. CASE L!Call(h)
  BY <1>1 DEF L!Call
<1>2. CASE L!Exchange(h) /\ m_lock
  BY <1>2 DEF L!Exchange
<1>3. CASE L!Exchange(h) /\ ~m_lock
  \* the flag was clear, so by FlagMatchesHolder h is the only holder
  BY <1>3 DEF L!Exchange
<1>4. CASE L!Spin(h)
  BY <1>4 DEF L!Spin
<1>5. CASE L!Unlock(h)
  \* by MutualExclusion nobody but h holds the lock whose flag is cleared
  BY <1>5 DEF L!Unlock
<1> QED
  BY <1>1, <1>2, <1>3, <1>4, <1>5

\* The flag is set exactly while one thread holds the lock.
THEOREM SpinlockInvariant == L!Spec => []L!IInv
<1>1. L!IInv /\ UNCHANGED L!vars => L!IInv'
  BY DEF L!vars, L!IInv, L!TypeOK, L!MutualExclusion, L!FlagMatchesHolder
<1>2. L!IInv /\ [L!Next]_(L!vars) => L!IInv'
  BY <1>1, LockKept DEF L!Next
<1> QED
  BY <1>2, LockStarts, PTL DEF L!Spec

\* No two threads are between lock() and unlock() (nc_types.h, Spinlock).
THEOREM SpinlockMutualExclusion == L!Spec => []L!MutualExclusion
<1>1. L!IInv => L!MutualExclusion
  BY DEF L!IInv
<1> QED
  BY <1>1, SpinlockInvariant, PTL

\* The abstract lock that it is.
LM == INSTANCE Mutex WITH Threads <- Handles, waiting <- L!Waiting, holders <- L!Holders

\* A step of the code is a step of the abstract lock, or leaves it unchanged:
\* the successful exchange is Grant, a failed one and the inner loop stutter.
LEMMA LockSimulation == L!IInv /\ [L!Next]_(L!vars) => [LM!Next]_(LM!vars)
<1> SUFFICES ASSUME L!IInv, [L!Next]_(L!vars)
             PROVE  [LM!Next]_(LM!vars)
  OBVIOUS
<1> USE DEF L!IInv, L!TypeOK, L!Pcs, L!Waiting, L!Holders
<1>1. ASSUME NEW h \in Handles, L!Call(h)
      PROVE  LM!Request(h)
  BY <1>1 DEF L!Call, LM!Request
<1>2. ASSUME NEW h \in Handles, L!Exchange(h)
      PROVE  LM!Grant(h) \/ UNCHANGED LM!vars
  <2>1. CASE m_lock
    BY <1>2, <2>1 DEF L!Exchange, LM!vars
  <2>2. CASE ~m_lock
    <3>1. L!Holders = {}
      BY <2>2 DEF L!FlagMatchesHolder
    <3> QED
      BY <1>2, <2>2, <3>1 DEF L!Exchange, LM!Grant
  <2> QED
    BY <2>1, <2>2
<1>3. ASSUME NEW h \in Handles, L!Spin(h)
      PROVE  UNCHANGED LM!vars
  BY <1>3 DEF L!Spin, LM!vars
<1>4. ASSUME NEW h \in Handles, L!Unlock(h)
      PROVE  LM!Return(h)
  BY <1>4 DEF L!Unlock, LM!Return
<1>5. CASE UNCHANGED L!vars
  BY <1>5 DEF L!vars, LM!vars
<1> QED
  BY <1>1, <1>2, <1>3, <1>4, <1>5 DEF L!Next, LM!Next

\* Spinlock implements the safety part of the abstract lock.
THEOREM SpinlockImplementsMutex == L!Spec => LM!Spec
<1>1. L!Init => LM!Init
  BY DEF L!Init, LM!Init, L!Waiting, L!Holders
<1> QED
  BY <1>1, SpinlockInvariant, LockSimulation, PTL DEF L!Spec, LM!Spec

-----------------------------------------------------------------------------
(* The invariant begins, and the steps that leave the object alone keep it.*)

\* What is said of the calls alone.
CallInv ==
    /\ call \in [Handles -> Calls]
    /\ seen \in [Handles -> [rc : Nat, wc : Nat]]
    /\ CallsAreLocked /\ CallsApart

\* Nothing is called at first.
LEMMA LockedInitIInv == LockedInit => LockedIInv
<1> SUFFICES ASSUME LockedInit PROVE LockedIInv
  OBVIOUS
<1>1. IInv /\ late = {}
  BY InitIInv DEF LockedInit, Init
<1>2. L!IInv
  BY LockStarts DEF LockedInit
<1>3. CallsAreLocked /\ CallsApart /\ StillUsable /\ ReadIsCurrent
  BY DEF LockedInit, L!Init, CallsAreLocked, CallsApart, StillUsable, ReadIsCurrent, NoCall
<1>4. FreerIsAlone
  BY DEF LockedInit, Init, FreerIsAlone
<1>5. call \in [Handles -> Calls] /\ seen \in [Handles -> [rc : Nat, wc : Nat]]
  BY DEF LockedInit, Calls, Nothing
<1> QED
  BY <1>1, <1>2, <1>3, <1>4, <1>5 DEF LockedIInv

\* A block that is free or to be freed has no handle left to call a method.
LEMMA NoneToFree ==
    ASSUME IInv, late = {}, NEW h \in Handles, "free" \in todo[h] \/ frees > 0
    PROVE  \A k \in Handles : kind[k] = "none"
<1>1. StrongHandles = {} /\ WeakHandles = {}
  BY DEF IInv, FreedAfterPromised, Freers
<1> QED
  BY <1>1 DEF IInv, TypeOK, Kinds, StrongHandles, WeakHandles

\* A method is called only on an object that somebody holds.
LEMMA UsableHolds ==
    ASSUME NEW h, NEW method, NEW g, Usable(h, method, g)
    PROVE  kind[h] # "none"
BY DEF Usable

\* It can go on as long as nobody else uses its handles.
LEMMA StaysUsable ==
    ASSUME NEW h, NEW method, NEW g, Usable(h, method, g),
           kind'[h] = kind[h], kind'[g] = kind[g], todo'[g] = todo[g]
    PROVE  Usable(h, method, g)'
BY DEF Usable, Idle

\* The parts of the invariant that look at the object do so through these.
LEMMA ObjectKept ==
    ASSUME IInv, late = {}, UNCHANGED vars
    PROVE  IInv' /\ late' = {}
<1>1. IInv'
  BY NextIInv
<1> QED
  BY <1>1 DEF vars

\* Calling a method keeps the invariant.
LEMMA EnterKeeps ==
    ASSUME LockedIInv, NEW h \in Handles, NEW g \in Handles, NEW method \in Methods,
           Enter(h, method, g)
    PROVE  LockedIInv'
<1> USE DEF LockedIInv
<1> DEFINE new == [method |-> method, target |-> g, stage |-> "entered"]
<1>1. IInv' /\ late' = {} /\ L!IInv'
  BY ObjectKept, LockKept DEF Enter
<1>2. /\ call' \in [Handles -> Calls] /\ seen' \in [Handles -> [rc : Nat, wc : Nat]]
      /\ call'[h] = new /\ \A k \in Handles \ {h} : call'[k] = call[k]
      /\ new # NoCall
  BY DEF Enter, Calls, NoCall
<1>3. CallsAreLocked'
  BY <1>2 DEF Enter, CallsAreLocked, L!Call, L!IInv, L!TypeOK
<1>4. CallsApart'
  BY <1>2 DEF Enter, CallsApart, Unused
<1>5. StillUsable'
  BY <1>2, StaysUsable DEF Enter, StillUsable, vars
<1>6. ReadIsCurrent'
  BY <1>2 DEF Enter, ReadIsCurrent, vars
<1>7. FreerIsAlone'
  <2>1. kind[h] # "none"
    BY UsableHolds DEF Enter
  <2>2. frees = 0 /\ \A k \in Handles : "free" \notin todo[k]
    BY <2>1, NoneToFree DEF IInv, TypeOK
  <2> QED
    BY <2>2 DEF Enter, FreerIsAlone, vars
<1> QED
  BY <1>1, <1>2, <1>3, <1>4, <1>5, <1>6, <1>7

\* The steps of the lock keep it.
LEMMA AcquireKeeps ==
    ASSUME LockedIInv, NEW h \in Handles, Acquire(h)
    PROVE  LockedIInv'
<1> USE DEF LockedIInv
<1>1. IInv' /\ late' = {} /\ L!IInv'
  BY ObjectKept, LockKept DEF Acquire
<1>2. /\ pc[h] \in {"exchange", "spin"} /\ pc'[h] # "idle"
      /\ \A k \in Handles \ {h} : pc'[k] = pc[k]
  BY DEF Acquire, L!Exchange, L!Spin, L!IInv, L!TypeOK
<1>3. CallsAreLocked'
  BY <1>2 DEF Acquire, CallsAreLocked, callVars
<1>4. CallsApart' /\ StillUsable' /\ ReadIsCurrent' /\ FreerIsAlone'
  BY StaysUsable DEF Acquire, callVars, vars, CallsApart, StillUsable, ReadIsCurrent, FreerIsAlone
<1> QED
  BY <1>1, <1>3, <1>4 DEF Acquire, callVars

\* A method that goes on to another stage is the same call.
LEMMA ReadKeeps ==
    ASSUME LockedIInv, NEW h \in Handles, Read(h)
    PROVE  LockedIInv'
<1> USE DEF LockedIInv
<1>1. IInv' /\ late' = {}
  BY ObjectKept DEF Read
<1>2. L!IInv'
  BY DEF Read, lockVars, L!IInv, L!TypeOK, L!MutualExclusion, L!FlagMatchesHolder
<1>3. /\ call[h] # NoCall /\ call[h] \in Calls /\ call[h].stage = "entered"
      /\ call'[h] = [call[h] EXCEPT !.stage = "read"]
      /\ \A k \in Handles \ {h} : call'[k] = call[k]
  BY DEF Read, NoCall
<1>4. /\ call'[h] \in Calls /\ call'[h] # NoCall /\ call'[h].stage = "read"
      /\ call'[h].method = call[h].method /\ call'[h].target = call[h].target
  BY <1>3 DEF Calls, NoCall
<1>5. seen'[h] = [rc |-> m_rc, wc |-> m_wc] /\ \A k \in Handles \ {h} : seen'[k] = seen[k]
  BY DEF Read
<1>6. call' \in [Handles -> Calls] /\ seen' \in [Handles -> [rc : Nat, wc : Nat]]
  BY <1>4 DEF Read, IInv, TypeOK
<1>7. CallsAreLocked' /\ CallsApart'
  BY <1>3, <1>4 DEF Read, lockVars, CallsAreLocked, CallsApart
<1>8. StillUsable'
  BY <1>3, <1>4, StaysUsable DEF Read, vars, StillUsable
<1>9. ReadIsCurrent'
  BY <1>3, <1>4, <1>5 DEF Read, vars, ReadIsCurrent
<1>10. FreerIsAlone'
  BY <1>3 DEF Read, vars, FreerIsAlone
<1> QED
  BY <1>1, <1>2, <1>6, <1>7, <1>8, <1>9, <1>10

\* A method that returns leaves the object as it is.
LEMMA LeaveKeeps ==
    ASSUME LockedIInv, NEW h \in Handles, Leave(h)
    PROVE  LockedIInv'
<1> USE DEF LockedIInv
<1>1. IInv' /\ late' = {} /\ L!IInv'
  BY ObjectKept, LockKept DEF Leave
<1>2. call'[h] = NoCall /\ \A k \in Handles \ {h} : call'[k] = call[k] /\ seen'[k] = seen[k]
  BY DEF Leave
<1>3. call' \in [Handles -> Calls] /\ seen' \in [Handles -> [rc : Nat, wc : Nat]]
  BY DEF Leave, Calls, Nothing
<1>4. CallsAreLocked'
  BY <1>2 DEF Leave, CallsAreLocked, L!Unlock, L!IInv, L!TypeOK, NoCall
<1>5. CallsApart' /\ StillUsable' /\ ReadIsCurrent' /\ FreerIsAlone'
  BY <1>2, StaysUsable
     DEF Leave, vars, CallsApart, StillUsable, ReadIsCurrent, FreerIsAlone, NoCall
<1> QED
  BY <1>1, <1>3, <1>4, <1>5

-----------------------------------------------------------------------------
(* The steps that change the object.                                       *)

\* The write of a method is the method: what it has read and what it was called
\* for are still so.
LEMMA WriteIsStep ==
    ASSUME LockedIInv, NEW h \in Handles, Write(h)
    PROVE  [Next]_vars
<1> DEFINE g == call[h].target
<1>1. /\ todo[h] = {} /\ Usable(h, call[h].method, g)
      /\ seen[h] = [rc |-> m_rc, wc |-> m_wc]
      /\ late = {} /\ UNCHANGED <<dtors, frees, late>>
      /\ g \in Handles
  BY DEF Write, LockedIInv, StillUsable, ReadIsCurrent, Calls, NoCall
<1>2. Effect(h, call[h].method, g, m_rc, m_wc)
  BY <1>1 DEF Write
<1> HIDE DEF g
<1>3. CASE call[h].method = "retain"
  BY <1>1, <1>2, <1>3 DEF Effect, Usable, Next, Retain
<1>4. CASE call[h].method = "release"
  BY <1>1, <1>2, <1>4 DEF Effect, Usable, Next, Release
<1>5. CASE call[h].method = "retainWeak"
  BY <1>1, <1>2, <1>5 DEF Effect, Usable, Next, RetainWeak
<1>6. CASE call[h].method = "releaseWeak"
  BY <1>1, <1>2, <1>6 DEF Effect, Usable, Next, ReleaseWeak
<1>7. CASE call[h].method = "lockStrong"
  BY <1>1, <1>2, <1>7 DEF Effect, Usable, Next, LockStrong, vars
<1> QED
  BY <1>2, <1>3, <1>4, <1>5, <1>6, <1>7 DEF Effect

\* It changes the handle that calls and the one it fills, and those only.
LEMMA WriteChanges ==
    ASSUME LockedIInv, NEW h \in Handles, Write(h),
           NEW k \in Handles, k # h
    PROVE  todo'[k] = todo[k] /\ (k # call[h].target => kind'[k] = kind[k])
<1>1. kind \in [Handles -> Kinds] /\ todo \in [Handles -> SUBSET Work]
  BY DEF LockedIInv, IInv, TypeOK
<1> QED
  BY <1>1 DEF Write, Effect

\* Taking effect keeps the invariant.
LEMMA WriteKeeps ==
    ASSUME LockedIInv, NEW h \in Handles, Write(h)
    PROVE  LockedIInv'
<1> USE DEF LockedIInv
<1>1. IInv' /\ late' = {}
  BY WriteIsStep, NextIInv DEF Write
<1>2. L!IInv'
  BY DEF Write, lockVars, L!IInv, L!TypeOK, L!MutualExclusion, L!FlagMatchesHolder
<1>3. /\ call[h] # NoCall /\ call[h] \in Calls /\ call[h].stage = "read"
      /\ call'[h] = [call[h] EXCEPT !.stage = "written"]
      /\ \A k \in Handles \ {h} : call'[k] = call[k]
  BY DEF Write, NoCall
<1>4. /\ call'[h] \in Calls /\ call'[h] # NoCall /\ call'[h].stage = "written"
      /\ call'[h].target = call[h].target
  BY <1>3 DEF Calls, NoCall
<1>5. pc[h] = "locked" /\ \A k \in Handles \ {h} : pc[k] # "locked"
  BY <1>3 DEF CallsAreLocked, L!IInv, L!MutualExclusion
<1>6. call' \in [Handles -> Calls] /\ seen' \in [Handles -> [rc : Nat, wc : Nat]]
  BY <1>4 DEF Write
<1>7. CallsAreLocked' /\ CallsApart'
  BY <1>3, <1>4 DEF Write, lockVars, CallsAreLocked, CallsApart
<1>8. StillUsable'
  <2> SUFFICES ASSUME NEW k \in Handles, call'[k].stage \in {"entered", "read"}
               PROVE  (todo[k] = {} /\ Usable(k, call[k].method, call[k].target))'
    BY DEF StillUsable
  <2>0. k # h
    BY <1>4
  <2>1. k # h /\ call[k] = call'[k] /\ call[k] # NoCall
    BY <1>3, <2>0 DEF NoCall
  <2>2. /\ todo[k] = {} /\ Usable(k, call[k].method, call[k].target)
        /\ call[k].target \in Handles
    BY <2>1 DEF StillUsable, Calls
  <2>3. call[h].target # k /\ call[h].target # call[k].target /\ call[k].target # h
    BY <1>3, <2>1 DEF CallsApart
  <2> QED
    BY <2>1, <2>2, <2>3, WriteChanges, StaysUsable
<1>9. ReadIsCurrent'
  BY <1>3, <1>4, <1>5 DEF ReadIsCurrent, CallsAreLocked
<1>10. FreerIsAlone'
  <2>1. \A k \in Handles : "free" \notin todo[k]
    BY <1>3 DEF FreerIsAlone, StillUsable
  <2>2. frees' = 0
    BY <1>3 DEF FreerIsAlone, Write, IInv, TypeOK
  <2>3. ASSUME NEW u \in Handles, NEW k \in Handles, "free" \in todo'[u], u # k,
               call'[k] # NoCall
        PROVE  FALSE
    <3>1. \A j \in Handles : kind'[j] = "none"
      BY <1>1, <2>3 DEF IInv, TypeOK, Kinds, FreedAfterPromised, Freers, StrongHandles, WeakHandles
    <3>2. u = h
      BY <2>1, <2>3, WriteChanges
    <3>3. k # h /\ call'[k] = call[k] /\ call[k] # NoCall /\ call[k] \in Calls
      BY <1>3, <2>3, <3>2
    <3>4. call[k].stage \in {"entered", "read"}
      BY <1>5, <3>3 DEF CallsAreLocked, Calls
    <3>5. Usable(k, call[k].method, call[k].target)'
      BY <1>8, <3>3, <3>4 DEF StillUsable
    <3> QED
      BY <3>1, <3>5, <3>3 DEF Usable
  <2> QED
    BY <2>2, <2>3 DEF FreerIsAlone
<1> QED
  BY <1>1, <1>2, <1>6, <1>7, <1>8, <1>9, <1>10

\* A destructor or a free() changes nothing but what is still to do.
LEMMA WorkKeeps ==
    ASSUME LockedIInv, NEW h \in Handles, DestroyUnlocked(h) \/ FreeUnlocked(h)
    PROVE  LockedIInv'
<1> USE DEF LockedIInv
<1>1. [Next]_vars /\ UNCHANGED <<late, kind, m_rc, m_wc>>
  BY DEF DestroyUnlocked, FreeUnlocked, Destroy, FreeMemory, Next
<1>2. IInv' /\ late' = {}
  BY <1>1, NextIInv
<1>3. /\ call[h] = NoCall /\ UNCHANGED <<lockVars, callVars>>
      /\ todo'[h] \subseteq todo[h] /\ \A k \in Handles \ {h} : todo'[k] = todo[k]
      /\ todo[h] # {}
  BY DEF DestroyUnlocked, FreeUnlocked, Destroy, FreeMemory, IInv, TypeOK
<1>4. L!IInv'
  BY <1>3 DEF lockVars, L!IInv, L!TypeOK, L!MutualExclusion, L!FlagMatchesHolder
<1>5. CallsAreLocked' /\ CallsApart'
  BY <1>3 DEF lockVars, callVars, CallsAreLocked, CallsApart
<1>6. StillUsable'
  <2> SUFFICES ASSUME NEW k \in Handles, call[k].stage \in {"entered", "read"}
               PROVE  (todo[k] = {} /\ Usable(k, call[k].method, call[k].target))'
    BY <1>3 DEF callVars, StillUsable
  <2>1. todo[k] = {} /\ Usable(k, call[k].method, call[k].target)
    BY DEF StillUsable
  <2>2. k # h /\ call[k] \in Calls /\ call[k] # NoCall /\ call[k].target \in Handles
    BY <1>3 DEF NoCall, Calls
  <2>3. todo[call[k].target] = {}
    BY <2>1 DEF Usable, Idle
  <2>4. call[k].target # h
    BY <1>3, <2>3
  <2> QED
    BY <1>1, <1>3, <2>1, <2>2, <2>4, StaysUsable DEF callVars
<1>7. ReadIsCurrent'
  BY <1>1, <1>3 DEF callVars, ReadIsCurrent
<1>8. FreerIsAlone'
  \* whoever frees is alone already, and is in no method itself
  <2>1. \A u, k \in Handles : "free" \in todo'[u] /\ u # k => call'[k] = NoCall
    BY <1>3 DEF callVars, FreerIsAlone
  <2>2. CASE DestroyUnlocked(h)
    BY <1>3, <2>1, <2>2 DEF DestroyUnlocked, Destroy, callVars, FreerIsAlone
  <2>3. CASE FreeUnlocked(h)
    BY <1>3, <2>1, <2>3 DEF FreeUnlocked, FreeMemory, callVars, FreerIsAlone
  <2> QED
    BY <2>2, <2>3
<1> QED
  BY <1>2, <1>3, <1>4, <1>5, <1>6, <1>7, <1>8 DEF callVars

-----------------------------------------------------------------------------
\* Every step keeps the invariant and is a step of ControlBlock or none.
LEMMA LockedNextKeeps ==
    LockedIInv /\ [LockedNext]_lockedVars => LockedIInv' /\ [Next]_vars
<1> SUFFICES ASSUME LockedIInv, [LockedNext]_lockedVars
             PROVE  LockedIInv' /\ [Next]_vars
  OBVIOUS
<1>1. ASSUME NEW h \in Handles, NEW g \in Handles, NEW method \in Methods, Enter(h, method, g)
      PROVE  LockedIInv' /\ [Next]_vars
  BY <1>1, EnterKeeps DEF Enter
<1>2. ASSUME NEW h \in Handles, Acquire(h)
      PROVE  LockedIInv' /\ [Next]_vars
  BY <1>2, AcquireKeeps DEF Acquire
<1>3. ASSUME NEW h \in Handles, Read(h)
      PROVE  LockedIInv' /\ [Next]_vars
  BY <1>3, ReadKeeps DEF Read
<1>4. ASSUME NEW h \in Handles, Write(h)
      PROVE  LockedIInv' /\ [Next]_vars
  BY <1>4, WriteKeeps, WriteIsStep
<1>5. ASSUME NEW h \in Handles, Leave(h)
      PROVE  LockedIInv' /\ [Next]_vars
  BY <1>5, LeaveKeeps DEF Leave
<1>6. ASSUME NEW h \in Handles, DestroyUnlocked(h) \/ FreeUnlocked(h)
      PROVE  LockedIInv' /\ [Next]_vars
  BY <1>6, WorkKeeps DEF DestroyUnlocked, FreeUnlocked, Next
<1>7. CASE UNCHANGED lockedVars
  <2>1. IInv' /\ late' = {}
    BY <1>7, ObjectKept DEF lockedVars, LockedIInv
  <2>2. L!IInv'
    BY <1>7 DEF lockedVars, lockVars, LockedIInv,
                L!IInv, L!TypeOK, L!MutualExclusion, L!FlagMatchesHolder
  <2>3. CallsAreLocked' /\ CallsApart' /\ StillUsable' /\ ReadIsCurrent' /\ FreerIsAlone'
    BY <1>7, StaysUsable DEF lockedVars, lockVars, callVars, vars, LockedIInv,
       CallsAreLocked, CallsApart, StillUsable, ReadIsCurrent, FreerIsAlone
  <2> QED
    BY <1>7, <2>1, <2>2, <2>3 DEF lockedVars, callVars, LockedIInv
<1> QED
  BY <1>1, <1>2, <1>3, <1>4, <1>5, <1>6, <1>7 DEF LockedNext

\* The invariant of the methods taken apart.
THEOREM ControlBlockLockedInvariant == LockedSpec => []LockedIInv
  BY LockedInitIInv, LockedNextKeeps, PTL DEF LockedSpec

\* No update of a counter is lost and no decision rests on a stale one: the
\* methods over the spinlock are the single steps of ControlBlock.
THEOREM ControlBlockLockedImplements == LockedSpec => ImplementsControlBlock
<1>1. LockedInit => Init
  BY DEF LockedInit
<1> QED
  BY <1>1, LockedInitIInv, LockedNextKeeps, PTL DEF LockedSpec, Spec, ImplementsControlBlock

\* The block is freed when nobody is in lock() or unlock() of its lock.
THEOREM ControlBlockLockOutlives == LockedSpec => []LockOutlivesItsUsers
<1>1. LockedIInv => LockOutlivesItsUsers
  BY DEF LockedIInv, LockOutlivesItsUsers, FreerIsAlone, CallsAreLocked
<1> QED
  BY <1>1, ControlBlockLockedInvariant, PTL
=============================================================================
