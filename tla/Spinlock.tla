------------------------------ MODULE Spinlock ------------------------------
(***************************************************************************)
(* The test-and-test-and-set lock of nc_types.h (class Spinlock): one      *)
(* atomic<bool>, taken with exchange(true) and given back with             *)
(* store(false).  A thread whose exchange finds the lock taken reads the   *)
(* flag until it sees it clear and only then tries the exchange again.     *)
(*                                                                         *)
(* Every step is one atomic access of m_lock.  The accesses are treated as *)
(* sequentially consistent: there is one atomic variable, and all other    *)
(* shared data is touched only between an acquiring exchange and the next  *)
(* releasing store.                                                        *)
(***************************************************************************)
CONSTANT Threads

VARIABLES m_lock,   \* the flag: TRUE while the lock is taken
          pc        \* where each thread stands in lock() / unlock()

vars == <<m_lock, pc>>

Pcs == {"idle",      \* neither holds nor wants the lock
        "exchange",  \* in lock(), about to execute m_lock.exchange(true)
        "spin",      \* in the inner loop, reading m_lock
        "locked"}    \* lock() returned, unlock() not yet called

Init ==
    /\ m_lock = FALSE
    /\ pc = [t \in Threads |-> "idle"]

-----------------------------------------------------------------------------
(* Mutated forms of the steps below, used to test the properties.          *)

\* exchange() whose old value is ignored
ExchangeBlind(t) ==
    /\ pc[t] = "exchange"
    /\ m_lock' = TRUE
    /\ pc' = [pc EXCEPT ![t] = "locked"]

\* the inner loop returns to the caller instead of trying the exchange again
SpinThenEnter(t) ==
    /\ pc[t] = "spin"
    /\ ~m_lock
    /\ pc' = [pc EXCEPT ![t] = "locked"]
    /\ UNCHANGED m_lock

\* unlock() that forgets the store
UnlockNoStore(t) ==
    /\ pc[t] = "locked"
    /\ pc' = [pc EXCEPT ![t] = "idle"]
    /\ UNCHANGED m_lock

-----------------------------------------------------------------------------
\* lock() is called
Call(t) ==
    /\ pc[t] = "idle"
    /\ pc' = [pc EXCEPT ![t] = "exchange"]
    /\ UNCHANGED m_lock

\* if (!m_lock.exchange(true)) break;
Exchange(t) ==
    /\ pc[t] = "exchange"
    /\ m_lock' = TRUE
    /\ pc' = [pc EXCEPT ![t] = IF m_lock THEN "spin" ELSE "locked"]

\* while (m_lock.load()) {}: a load that finds the flag set changes nothing
\* and is a stuttering step, the load that finds it clear ends the loop.
Spin(t) ==
    /\ pc[t] = "spin"
    /\ ~m_lock
    /\ pc' = [pc EXCEPT ![t] = "exchange"]
    /\ UNCHANGED m_lock

\* m_lock.store(false)
Unlock(t) ==
    /\ pc[t] = "locked"
    /\ m_lock' = FALSE
    /\ pc' = [pc EXCEPT ![t] = "idle"]

Next == \E t \in Threads : Call(t) \/ Exchange(t) \/ Spin(t) \/ Unlock(t)

Spec == Init /\ [][Next]_vars

\* The operating system keeps running every thread that can take a step, and
\* the critical sections of the library are straight-line code that ends.
\* Nothing obliges a thread to ask for the lock.
Fairness ==
    \A t \in Threads : WF_vars(Exchange(t)) /\ WF_vars(Spin(t)) /\ WF_vars(Unlock(t))

FairSpec == Spec /\ Fairness

-----------------------------------------------------------------------------
Waiting == {t \in Threads : pc[t] \in {"exchange", "spin"}}
Holders == {t \in Threads : pc[t] = "locked"}

TypeOK ==
    /\ m_lock \in BOOLEAN
    /\ pc \in [Threads -> Pcs]

\* The critical sections of nc_object.h rest on this: no two threads are
\* between lock() and unlock() at the same time.
MutualExclusion ==
    \A t, u \in Threads : pc[t] = "locked" /\ pc[u] = "locked" => t = u

\* The flag is set exactly while somebody holds the lock: a flag left set
\* with no holder would make every later lock() spin forever.
FlagMatchesHolder == m_lock <=> \E t \in Threads : pc[t] = "locked"

IInv == TypeOK /\ MutualExclusion /\ FlagMatchesHolder

\* The lock implements the abstract lock, its progress promise included: the
\* double loop of lock() never leaves a free lock ungranted while threads spin.
M == INSTANCE Mutex WITH waiting <- Waiting, holders <- Holders

ImplementsMutex == M!FairSpec
=============================================================================
