------------------------- MODULE ControlBlockLocked -------------------------
(***************************************************************************)
(* The methods of ControlBlock taken apart: m_lock.lock(), the reads of    *)
(* the counters, the write, m_lock.unlock(), with Spinlock as the lock.    *)
(* The counters are plain ints, so m_rc++ is a read and a later write of   *)
(* the value read plus one; only the lock keeps two threads from losing an *)
(* update.  The lock lives in the block that the last method frees.        *)
(*                                                                         *)
(* This module implements ControlBlock, where each method is one step: the *)
(* write of the counters is the moment at which the method takes effect.   *)
(***************************************************************************)
EXTENDS ControlBlock

VARIABLES
    m_lock, pc,     \* the Spinlock: pc[h] is the state of the thread using h
    call,           \* the method running on behalf of each handle
    seen            \* the counters that method has read

lockVars   == <<m_lock, pc>>
callVars   == <<call, seen>>
lockedVars == <<vars, lockVars, callVars>>

L == INSTANCE Spinlock WITH Threads <- Handles

Methods == {"retain", "release", "retainWeak", "releaseWeak", "lockStrong"}

\* No method runs; target is the handle that the method fills or empties.
NoCall  == [method |-> "none", target |-> "none", stage |-> "done"]
Calls   == {NoCall} \cup
           [method : Methods, target : Handles, stage : {"entered", "read", "written"}]
Nothing == [rc |-> 0, wc |-> 0]

LockedInit ==
    /\ Init
    /\ L!Init
    /\ call = [h \in Handles |-> NoCall]
    /\ seen = [h \in Handles |-> Nothing]

\* g is neither in a method nor being filled by one.
Unused(g) == \A h \in Handles : call[h] # NoCall => h # g /\ call[h].target # g

-----------------------------------------------------------------------------
(* Mutated forms of the steps below, used to test the properties.          *)

\* a method that reads the counters before it takes the lock
ReadEarly(h) ==
    /\ pc[h] \in {"exchange", "spin", "locked"} /\ call[h].stage = "entered"
    /\ seen' = [seen EXCEPT ![h] = [rc |-> m_rc, wc |-> m_wc]]
    /\ call' = [call EXCEPT ![h].stage = "read"]
    /\ UNCHANGED <<vars, lockVars>>

\* free(ctrl) called from inside the locked section
FreeWhileLocked(h) ==
    /\ FreeMemory(h)
    /\ UNCHANGED <<lockVars, callVars>>

-----------------------------------------------------------------------------
\* The methods that h can be used for, to fill or empty g.  The destructor of
\* the object makes no wp<T>(this) here.
Usable(h, method, g) ==
    \/ /\ method \in {"retain", "lockStrong"}
       /\ kind[h] = IF method = "retain" THEN "strong" ELSE "weak"
       /\ Idle(g) /\ g \notin Members
    \/ /\ method = "retainWeak"
       /\ kind[h] \in {"strong", "weak"} /\ (g \in Members => kind[h] = "strong")
       /\ Idle(g)
    \/ method = "release" /\ kind[h] = "strong" /\ g = h
    \/ method = "releaseWeak" /\ kind[h] = "weak" /\ g = h

\* A method is called on the object h refers to.
Enter(h, method, g) ==
    /\ todo[h] = {} /\ Usable(h, method, g)
    /\ Unused(h) /\ Unused(g)
    /\ L!Call(h)
    /\ call' = [call EXCEPT ![h] = [method |-> method, target |-> g, stage |-> "entered"]]
    /\ UNCHANGED <<vars, seen>>

\* m_lock.lock() on its way
Acquire(h) ==
    /\ L!Exchange(h) \/ L!Spin(h)
    /\ UNCHANGED <<vars, callVars>>

\* The method reads the counters.
Read(h) ==
    /\ pc[h] = "locked" /\ call[h].stage = "entered"
    /\ seen' = [seen EXCEPT ![h] = [rc |-> m_rc, wc |-> m_wc]]
    /\ call' = [call EXCEPT ![h].stage = "read"]
    /\ UNCHANGED <<vars, lockVars>>

\* The method writes one counter and fixes its return value from what it read.
Effect(h, method, g, rc, wc) ==
    \/ /\ method = "retain"
       /\ m_rc' = rc + 1
       /\ kind' = [kind EXCEPT ![g] = "strong"]
       /\ UNCHANGED <<m_wc, todo>>
    \/ /\ method = "release"
       /\ m_rc' = rc - 1
       /\ kind' = [kind EXCEPT ![h] = "none"]
       /\ todo' = [todo EXCEPT ![h] = WorkAfter(ReleaseAction(rc, wc))]
       /\ UNCHANGED m_wc
    \/ /\ method = "retainWeak"
       /\ m_wc' = wc + 1
       /\ kind' = [kind EXCEPT ![g] = "weak"]
       /\ UNCHANGED <<m_rc, todo>>
    \/ /\ method = "releaseWeak"
       /\ m_wc' = wc - 1
       /\ kind' = [kind EXCEPT ![h] = "none"]
       /\ todo' = [todo EXCEPT ![h] = IF ReleaseWeakFrees(rc, wc) THEN {"free"} ELSE {}]
       /\ UNCHANGED m_rc
    \/ /\ method = "lockStrong"
       /\ LockStrongSucceeds(rc)
       /\ m_rc' = rc + 1
       /\ kind' = [kind EXCEPT ![g] = "strong"]
       /\ UNCHANGED <<m_wc, todo>>
    \/ /\ method = "lockStrong"
       /\ ~LockStrongSucceeds(rc)
       /\ UNCHANGED <<m_rc, m_wc, kind, todo>>

Write(h) ==
    /\ call[h].stage = "read"
    /\ Effect(h, call[h].method, call[h].target, seen[h].rc, seen[h].wc)
    /\ call' = [call EXCEPT ![h].stage = "written"]
    /\ UNCHANGED <<dtors, frees, late, lockVars, seen>>

\* m_lock.unlock() and return
Leave(h) ==
    /\ call[h].stage = "written"
    /\ L!Unlock(h)
    /\ call' = [call EXCEPT ![h] = NoCall]
    /\ seen' = [seen EXCEPT ![h] = Nothing]
    /\ UNCHANGED vars

\* The caller acts on the answer, after the unlock.
DestroyUnlocked(h) ==
    /\ call[h] = NoCall
    /\ \A m \in Members : Unused(m)
    /\ Destroy(h)
    /\ UNCHANGED <<lockVars, callVars>>

FreeUnlocked(h) ==
    /\ call[h] = NoCall
    /\ FreeMemory(h)
    /\ UNCHANGED <<lockVars, callVars>>

LockedNext ==
    \/ \E h, g \in Handles, method \in Methods : Enter(h, method, g)
    \/ \E h \in Handles :
           \/ Acquire(h) \/ Read(h) \/ Write(h) \/ Leave(h)
           \/ DestroyUnlocked(h) \/ FreeUnlocked(h)

LockedSpec == LockedInit /\ [][LockedNext]_lockedVars

\* The operating system keeps running a thread that is inside a method.  It is
\* not obliged to call one.
LockedFairSpec ==
    LockedSpec /\ \A h \in Handles :
                WF_lockedVars(Acquire(h)) /\ WF_lockedVars(Read(h)) /\ WF_lockedVars(Write(h)) /\ WF_lockedVars(Leave(h))

-----------------------------------------------------------------------------
\* The inductive invariant.

\* A handle has a method running exactly while its thread is in lock(),
\* unlock() or between them; past the reads the thread has the lock.
CallsAreLocked ==
    \A h \in Handles :
        /\ call[h] = NoCall <=> pc[h] = "idle"
        /\ call[h].stage \in {"read", "written"} => pc[h] = "locked"

\* Two methods running at once have no handle in common.
CallsApart ==
    \A h, k \in Handles : h # k /\ call[h] # NoCall /\ call[k] # NoCall =>
        call[h].target # k /\ call[h].target # call[k].target

\* What a method was called for is still so when it takes effect.
StillUsable ==
    \A h \in Handles : call[h].stage \in {"entered", "read"} =>
        todo[h] = {} /\ Usable(h, call[h].method, call[h].target)

\* What a method has read of the counters is still so when it writes.
ReadIsCurrent ==
    \A h \in Handles : call[h].stage = "read" => seen[h] = [rc |-> m_rc, wc |-> m_wc]

\* Who is to free the block is alone with it.
FreerIsAlone ==
    /\ \A h, k \in Handles : "free" \in todo[h] /\ h # k => call[k] = NoCall
    /\ frees > 0 => \A h \in Handles : call[h] = NoCall

LockedIInv ==
    /\ IInv /\ late = {}
    /\ L!IInv
    /\ call \in [Handles -> Calls]
    /\ seen \in [Handles -> [rc : Nat, wc : Nat]]
    /\ CallsAreLocked /\ CallsApart /\ StillUsable /\ ReadIsCurrent /\ FreerIsAlone

\* Nobody reads or writes the lock of a control block that has been freed: the
\* thread that frees it is the last one out of lock() and unlock(), even when
\* others were spinning on the same lock when it was granted.
LockOutlivesItsUsers == frees > 0 => \A h \in Handles : pc[h] = "idle"

\* The spinlock makes each method of ControlBlock a single step: no update of a
\* counter is lost, and no decision rests on a counter that has since changed.
ImplementsControlBlock == Spec

\* Under the load the control block puts on it, the spinlock is an abstract
\* lock, progress included: a free lock that threads wait for is granted.
ImplementsMutex == L!ImplementsMutex
=============================================================================
