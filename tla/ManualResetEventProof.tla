----------------------- MODULE ManualResetEventProof -----------------------
(***************************************************************************)
(* For any number of threads, any timeouts and any jumps of the clock: no  *)
(* wake-up of a ManualResetEvent is lost, and a timed wait does not give   *)
(* up early.                                                               *)
(***************************************************************************)
EXTENDS ManualResetEvent, TLAPS

Types ==
    /\ m_signaled \in BOOLEAN /\ adjusted \in BOOLEAN /\ deleted \in BOOLEAN
    /\ pc \in [Threads -> {"idle", "notify", "test", "asleep", "woken"}]
    /\ limit \in [Threads -> Timeouts \cup {Forever}]
    /\ left \in [Threads -> Nat]
    /\ waited \in [Threads -> Nat]

\* The time of a thread that is in no timed wait does not run.
Unhurried ==
    \A t \in Threads :
        /\ pc[t] \in {"idle", "notify"} => limit[t] = Forever
        /\ limit[t] = Forever => waited[t] = 0

\* What is left of a sleep is at least what is left of the time asked for.
SleepsEnough ==
    \A t \in Threads :
        Timed(t) =>
            /\ waited[t] <= limit[t]
            /\ ~adjusted /\ pc[t] \in {"asleep", "woken"} => limit[t] <= waited[t] + left[t]

\* The inductive invariant.
IInv ==
    /\ Types
    /\ NoMissedSignal
    /\ Unhurried
    /\ SleepsEnough

-----------------------------------------------------------------------------
(* A step of one thread t: what it does to the others.                     *)

\* What remains of a sleep is a number, and falls by no more than d.
LEMMA SoonerIsLess ==
    ASSUME NEW n \in Nat, NEW d \in Nat
    PROVE  Sooner(n, d) \in Nat /\ n <= Sooner(n, d) + d
BY DEF Sooner

\* Leaving a wait, by any of its exits, keeps the invariant.
LEMMA ReturnKeeps ==
    ASSUME IInv, NEW t \in Threads, NEW from, Return(t, from),
           from \in {"test", "woken"},
           UNCHANGED <<m_signaled, deleted>>
    PROVE  IInv'
<1> USE TimeAssumption
<1>1. Types'
  BY DEF IInv, Types, Return, Move, Forever
<1>2. NoMissedSignal'
  <2> SUFFICES ASSUME NEW s \in Threads, m_signaled', pc'[s] = "asleep"
               PROVE  \E u \in Threads : pc'[u] = "notify"
    BY DEF NoMissedSignal
  <2>1. m_signaled /\ pc[s] = "asleep"
    BY DEF IInv, Types, Return, Move
  <2>2. PICK u \in Threads : pc[u] = "notify"
    BY <2>1 DEF IInv, NoMissedSignal
  <2> QED
    BY <2>2 DEF IInv, Types, Return, Move
<1>3. SleepsEnough'
  BY DEF IInv, Types, SleepsEnough, Return, Move, Timed, Forever
<1>4. Unhurried'
  BY DEF IInv, Types, Unhurried, Return, Move
<1> QED
  BY <1>1, <1>2, <1>3, <1>4 DEF IInv

\* So does a look at the flag, whether it ends the wait or begins a sleep.
LEMMA LookKeeps ==
    ASSUME IInv, NEW t \in Threads, NEW from, Look(t, from),
           from \in {"test", "woken"},
           UNCHANGED <<m_signaled, deleted>>
    PROVE  IInv'
<1>1. CASE m_signaled /\ Return(t, from)
  BY <1>1, ReturnKeeps
<1>2. CASE /\ ~m_signaled
           /\ Move(t, from, "asleep")
           /\ left' = [left EXCEPT ![t] = IF Timed(t) THEN limit[t] ELSE 0]
           /\ UNCHANGED <<limit, waited, adjusted>>
  <2> USE <1>2
  <2>1. Types'
    <3>1. (IF Timed(t) THEN limit[t] ELSE 0) \in Nat
      BY TimeAssumption DEF IInv, Types, Timed, Forever
    <3> QED
      BY <3>1 DEF IInv, Types, Move
  <2>2. NoMissedSignal'
    BY DEF NoMissedSignal
  <2>3. SleepsEnough'
    <3> SUFFICES ASSUME NEW s \in Threads, Timed(s)'
                 PROVE  /\ waited'[s] <= limit'[s]
                        /\ ~adjusted' /\ pc'[s] \in {"asleep", "woken"}
                              => limit'[s] <= waited'[s] + left'[s]
      BY DEF SleepsEnough
    <3>1. Timed(s) /\ limit[s] \in Nat /\ waited[s] \in Nat
      BY TimeAssumption DEF IInv, Types, Timed, Forever
    <3>2. CASE s = t
      BY <3>1, <3>2 DEF IInv, Types, SleepsEnough, Timed
    <3>3. CASE s # t
      BY <3>1, <3>3 DEF IInv, Types, SleepsEnough, Move
    <3> QED
      BY <3>2, <3>3
  <2>4. Unhurried'
    BY DEF IInv, Types, Unhurried, Move
  <2> QED
    BY <2>1, <2>2, <2>3, <2>4 DEF IInv
<1> QED
  BY <1>1, <1>2 DEF Look

-----------------------------------------------------------------------------
LEMMA InitHolds == Init => IInv
<1> SUFFICES ASSUME Init PROVE IInv
  OBVIOUS
<1>1. Types
  BY DEF Init, Types
<1> QED
  BY <1>1 DEF Init, IInv, NoMissedSignal, Unhurried, SleepsEnough, Timed, Forever

\* A thread that goes from one place to another without touching the clocks.
LEMMA MoveKeeps ==
    ASSUME IInv, NEW t \in Threads, NEW from, NEW to, Move(t, from, to),
           <<from, to>> \in {<<"idle", "notify">>, <<"asleep", "woken">>},
           m_signaled' \in {m_signaled, to = "notify"},
           UNCHANGED <<clocks, deleted>>
    PROVE  IInv'
<1> USE DEF Move, clocks
<1>1. from \in {"idle", "asleep"} /\ to \in {"notify", "woken"} /\ (from = "idle" <=> to = "notify")
  OBVIOUS
<1>2. Types'
  BY <1>1 DEF IInv, Types
<1>3. NoMissedSignal'
  <2> SUFFICES ASSUME NEW s \in Threads, m_signaled', pc'[s] = "asleep"
               PROVE  \E u \in Threads : pc'[u] = "notify"
    BY DEF NoMissedSignal
  <2>1. CASE to = "notify"
    <3>1. pc'[t] = "notify"
      BY <2>1 DEF IInv, Types
    <3> QED
      BY <3>1
  <2>2. CASE to # "notify"
    <3>1. m_signaled /\ pc[s] = "asleep"
      BY <2>2, <1>1 DEF IInv, Types
    <3>2. PICK u \in Threads : pc[u] = "notify"
      BY <3>1 DEF IInv, NoMissedSignal
    <3>3. pc'[u] = "notify"
      BY <3>2, <2>2, <1>1 DEF IInv, Types
    <3> QED
      BY <3>3
  <2> QED
    BY <2>1, <2>2
<1>4. SleepsEnough'
  BY <1>1 DEF IInv, Types, SleepsEnough, Timed
<1>5. Unhurried'
  BY <1>1 DEF IInv, Types, Unhurried
<1> QED
  BY <1>2, <1>3, <1>4, <1>5 DEF IInv

\* Every step keeps the invariant.
LEMMA NextKeeps == IInv /\ [Next]_vars => IInv'
<1> SUFFICES ASSUME IInv, [Next]_vars PROVE IInv'
  OBVIOUS
<1> USE TimeAssumption
<1>1. ASSUME NEW t \in Threads, SetFlag(t) PROVE IInv'
  BY <1>1, MoveKeeps DEF SetFlag, clocks
<1>2. ASSUME NEW t \in Threads, NotifyAll(t) PROVE IInv'
  <2> USE <1>2 DEF NotifyAll, clocks
  <2>1. Types'
    BY DEF IInv, Types
  <2>2. \A s \in Threads : pc'[s] # "asleep"
    BY DEF IInv, Types
  <2>3. NoMissedSignal'
    BY <2>2 DEF NoMissedSignal
  <2>4. SleepsEnough'
    BY DEF IInv, Types, SleepsEnough, Timed
  <2>5. Unhurried'
    BY DEF IInv, Types, Unhurried
  <2> QED
    BY <2>1, <2>3, <2>4, <2>5 DEF IInv
<1>3. ASSUME NEW t \in Threads, Unset(t) PROVE IInv'
  BY <1>3 DEF Unset, clocks, IInv, Types, NoMissedSignal, Unhurried, SleepsEnough, Timed
<1>4. ASSUME NEW t \in Threads, Call(t) PROVE IInv'
  <2> USE <1>4 DEF Call, Move
  <2>1. Types'
    BY DEF IInv, Types
  <2>2. NoMissedSignal'
    <3> SUFFICES ASSUME NEW s \in Threads, m_signaled', pc'[s] = "asleep"
                 PROVE  \E u \in Threads : pc'[u] = "notify"
      BY DEF NoMissedSignal
    <3>1. m_signaled /\ pc[s] = "asleep"
      BY DEF IInv, Types
    <3>2. PICK u \in Threads : pc[u] = "notify"
      BY <3>1 DEF IInv, NoMissedSignal
    <3>3. pc'[u] = "notify"
      BY <3>2 DEF IInv, Types
    <3> QED
      BY <3>3
  <2>3. Unhurried'
    BY DEF IInv, Types, Unhurried
  <2>4. SleepsEnough'
    <3>1. waited[t] = 0 /\ pc'[t] = "test" /\ limit'[t] \in Nat \cup {Forever}
      BY DEF IInv, Types, Unhurried
    <3> QED
      BY <3>1 DEF IInv, Types, SleepsEnough, Timed
  <2> QED
    BY <2>1, <2>2, <2>3, <2>4 DEF IInv
<1>5. ASSUME NEW t \in Threads, Test(t) PROVE IInv'
  BY <1>5, LookKeeps DEF Test
<1>6. ASSUME NEW t \in Threads, TimeUp(t) PROVE IInv'
  BY <1>6, MoveKeeps DEF TimeUp, clocks
<1>7. ASSUME NEW t \in Threads, Spurious(t) PROVE IInv'
  BY <1>7, MoveKeeps DEF Spurious, clocks
<1>8. ASSUME NEW t \in Threads, Resume(t) PROVE IInv'
  BY <1>8, LookKeeps, ReturnKeeps DEF Resume
<1>9. CASE Tick
  <2> USE <1>9 DEF Tick
  <2>1. Types'
    <3>1. left' \in [Threads -> Nat]
      BY SoonerIsLess DEF IInv, Types
    <3>2. waited' \in [Threads -> Nat]
      BY DEF IInv, Types
    <3> QED
      BY <3>1, <3>2 DEF IInv, Types
  <2>2. SleepsEnough'
    <3> SUFFICES ASSUME NEW s \in Threads, Timed(s)'
                 PROVE  /\ waited'[s] <= limit'[s]
                        /\ ~adjusted' /\ pc'[s] \in {"asleep", "woken"}
                              => limit'[s] <= waited'[s] + left'[s]
      BY DEF SleepsEnough
    <3>1. Timed(s) /\ limit[s] \in Nat /\ waited[s] \in Nat /\ left[s] \in Nat
      BY DEF IInv, Types, Timed, Forever
    <3>2. left'[s] \in Nat /\ left[s] <= left'[s] + 1
      BY <3>1, SoonerIsLess
    <3> QED
      BY <3>1, <3>2 DEF IInv, SleepsEnough
  <2>3. Unhurried'
    BY DEF IInv, Types, Unhurried, Forever
  <2> QED
    BY <2>1, <2>2, <2>3 DEF IInv, NoMissedSignal
<1>10. ASSUME NEW d \in Jumps, Jump(d) PROVE IInv'
  <2> USE <1>10 DEF Jump
  <2>1. Types'
    BY SoonerIsLess DEF IInv, Types
  <2> QED
    BY <2>1 DEF IInv, NoMissedSignal, Unhurried, SleepsEnough, Timed
<1>11. CASE Delete
  BY <1>11 DEF Delete, clocks, IInv, Types, NoMissedSignal, Unhurried, SleepsEnough, Timed
<1>12. CASE UNCHANGED vars
  BY <1>12 DEF vars, IInv, Types, NoMissedSignal, Unhurried, SleepsEnough, Timed
<1> QED
  BY <1>1, <1>2, <1>3, <1>4, <1>5, <1>6, <1>7, <1>8, <1>9, <1>10, <1>11, <1>12 DEF Next

\* The invariant holds in every state of every behaviour.
THEOREM EventInvariant == Spec => []IInv
<1> QED
  BY InitHolds, NextKeeps, PTL DEF Spec

-----------------------------------------------------------------------------
\* No wake-up is lost between the unlock of set() and its notify_all(), however
\* many threads wait: a sleeper on a set event has a notify_all() coming.
THEOREM EventNoMissedSignal == Spec => []NoMissedSignal
<1>1. IInv => NoMissedSignal
  BY DEF IInv
<1> QED
  BY <1>1, EventInvariant, PTL

\* waitWithTimeout() answers false only after the whole of its time, whatever
\* wakes it in between, as long as the system clock has not been set.
THEOREM EventNotEarly == Spec => NotEarly
<1>1. IInv /\ [Next]_vars
         => [~adjusted => \A t \in Threads : ReturnsFalse(t) => waited[t] = limit[t]]_vars
  <2> SUFFICES ASSUME IInv, Next, ~adjusted, NEW t \in Threads, ReturnsFalse(t)
               PROVE  waited[t] = limit[t]
    OBVIOUS
  <2>1. TimeIsUp(t)
    <3> SUFFICES ASSUME ~m_signaled PROVE TimeIsUp(t)
      BY DEF ReturnsFalse
    <3>1. pc[t] = "woken" /\ pc'[t] = "idle"
      BY DEF ReturnsFalse
    <3>2. \A from, to : \A u \in Threads : Move(u, from, to) /\ to # "idle" => FALSE
      BY <3>1 DEF IInv, Types, Move
    <3>3. \A from : \A u \in Threads : Return(u, from) => u = t
      BY <3>1 DEF IInv, Types, Return, Move
    <3>4. \A from : \A u \in Threads : from = "woken" /\ Look(u, from) => FALSE
      BY <3>2, <3>3 DEF Look
    <3> QED
      BY <3>1, <3>2, <3>3, <3>4 DEF Next, SetFlag, NotifyAll, Unset, Call, Test, TimeUp,
         Spurious, Resume, Tick, Jump, Delete, IInv, Types, Look, Return, Move
  <2>2. limit[t] \in Nat /\ waited[t] \in Nat /\ left[t] = 0
    BY <2>1, TimeAssumption DEF IInv, Types, TimeIsUp, Timed, Forever
  <2>3. waited[t] <= limit[t] /\ limit[t] <= waited[t] + left[t]
    BY <2>1 DEF IInv, SleepsEnough, TimeIsUp, ReturnsFalse
  <2> QED
    BY <2>2, <2>3
<1> QED
  BY <1>1, EventInvariant, PTL DEF Spec, NotEarly
=============================================================================
