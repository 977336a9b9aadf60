-------------------------- MODULE ManualResetEvent --------------------------
(***************************************************************************)
(* ManualResetEventImple of nc_stdlib.cpp: a flag, a mutex and a condition *)
(* variable.  A section under m_mutex is one step; m_cv.notify_all() is    *)
(* called after the mutex is given back and is a step of its own, and so   *)
(* is a sleeper's way from being woken to having the mutex again.          *)
(*                                                                         *)
(* std::condition_variable is external: wait_until() sleeps until it is    *)
(* notified, until its time has come, or until it wakes for no reason; it  *)
(* then takes the mutex and answers timeout exactly when the system clock  *)
(* has reached the given time.                                             *)
(*                                                                         *)
(* Time is kept per waiter, as what is left of it, so that no clock grows. *)
(***************************************************************************)
EXTENDS Integers

CONSTANTS
    Threads,
    Timeouts,   \* the arguments of waitWithTimeout(), in ticks
    Jumps,      \* the amounts by which the system clock may be set forward
    Joined      \* does the owner join the threads that set, too, before it
                \* destroys the event?

ASSUME TimeAssumption == Timeouts \subseteq Nat /\ Jumps \subseteq Nat
ASSUME JoinedAssumption == Joined \in BOOLEAN

VARIABLES
    m_signaled,
    pc,         \* what each thread does with the event: nothing, "idle";
                \*   in set(), "notify", before m_cv.notify_all();
                \*   in a wait, "test", before it has looked at the flag,
                \*   "asleep" in m_cv.wait() or m_cv.wait_until(), or
                \*   "woken", about to take the mutex again
    limit,      \* the timeout of its wait, or Forever
    left,       \* ticks of the system clock until the time it sleeps to
    waited,     \* ticks since it called waitWithTimeout(), up to limit
    adjusted,   \* has the system clock ever been set forward?
    deleted     \* has ~ManualResetEvent() deleted m_imple?

vars == <<m_signaled, pc, limit, left, waited, adjusted, deleted>>
clocks == <<limit, left, waited, adjusted>>

Forever == -1

Init ==
    /\ m_signaled \in BOOLEAN       \* the argument of the constructor
    /\ pc = [t \in Threads |-> "idle"]
    /\ limit = [t \in Threads |-> Forever]
    /\ left = [t \in Threads |-> 0]
    /\ waited = [t \in Threads |-> 0]
    /\ adjusted = FALSE
    /\ deleted = FALSE

Move(t, from, to) == pc[t] = from /\ pc' = [pc EXCEPT ![t] = to]
Return(t, from) ==
    /\ Move(t, from, "idle")
    /\ limit' = [limit EXCEPT ![t] = Forever]
    /\ left' = [left EXCEPT ![t] = 0]
    /\ waited' = [waited EXCEPT ![t] = 0]
    /\ UNCHANGED adjusted

Timed(t)    == limit[t] # Forever
TimeIsUp(t) == Timed(t) /\ left[t] = 0

-----------------------------------------------------------------------------
(* Mutated forms of the steps below, used to test the properties.          *)

\* notify_one()
NotifyOne(t) ==
    /\ pc[t] = "notify"
    /\ \/ \E u \in Threads :
              pc[u] = "asleep" /\ pc' = [pc EXCEPT ![t] = "idle", ![u] = "woken"]
       \/ (\A u \in Threads : pc[u] # "asleep") /\ pc' = [pc EXCEPT ![t] = "idle"]
    /\ UNCHANGED <<m_signaled, clocks, deleted>>

\* every wake-up of a timed wait is taken for its end
ResumeGivesUp(t) ==
    /\ \/ (Timed(t) \/ m_signaled) /\ Return(t, "woken")
       \/ ~Timed(t) /\ ~m_signaled /\ Move(t, "woken", "asleep") /\ UNCHANGED clocks
    /\ UNCHANGED <<m_signaled, deleted>>

\* the answer of wait_until() is ignored
ResumeIgnoresTimeout(t) ==
    /\ \/ m_signaled /\ Return(t, "woken")
       \/ /\ ~m_signaled /\ Move(t, "woken", "asleep")
          /\ left' = [left EXCEPT ![t] = IF Timed(t) THEN limit[t] ELSE 0]
          /\ UNCHANGED <<limit, waited, adjusted>>
    /\ UNCHANGED <<m_signaled, deleted>>

-----------------------------------------------------------------------------
\* set(): { lock_guard; m_signaled = true; }
SetFlag(t) ==
    /\ ~deleted
    /\ Move(t, "idle", "notify")
    /\ m_signaled' = TRUE
    /\ UNCHANGED <<clocks, deleted>>

\* m_cv.notify_all()
NotifyAll(t) ==
    /\ pc[t] = "notify"
    /\ pc' = [u \in Threads |-> IF u = t THEN "idle"
                                ELSE IF pc[u] = "asleep" THEN "woken" ELSE pc[u]]
    /\ UNCHANGED <<m_signaled, clocks, deleted>>

\* unset()
Unset(t) ==
    /\ ~deleted
    /\ pc[t] = "idle"
    /\ m_signaled' = FALSE
    /\ UNCHANGED <<pc, clocks, deleted>>

\* wait() or waitWithTimeout() is called.
Call(t) ==
    /\ ~deleted
    /\ Move(t, "idle", "test")
    /\ \E n \in Timeouts \cup {Forever} : limit' = [limit EXCEPT ![t] = n]
    /\ UNCHANGED <<m_signaled, left, waited, adjusted, deleted>>

\* while (!m_signaled) fall asleep, with a new `until' each time round.  The
\* test and falling asleep are one step: the mutex is held until sleep begins.
Look(t, from) ==
    \/ m_signaled /\ Return(t, from)
    \/ /\ ~m_signaled
       /\ Move(t, from, "asleep")
       /\ left' = [left EXCEPT ![t] = IF Timed(t) THEN limit[t] ELSE 0]
       /\ UNCHANGED <<limit, waited, adjusted>>

Test(t) == Look(t, "test") /\ UNCHANGED <<m_signaled, deleted>>

\* The sleep to `until' ends because the system clock has got there.
TimeUp(t) ==
    /\ TimeIsUp(t)
    /\ Move(t, "asleep", "woken")
    /\ UNCHANGED <<m_signaled, clocks, deleted>>

\* A condition variable may wake a sleeper for no reason, before its time.
Spurious(t) ==
    /\ ~TimeIsUp(t)
    /\ Move(t, "asleep", "woken")
    /\ UNCHANGED <<m_signaled, clocks, deleted>>

\* The woken thread has the mutex again.  If wait_until() answers timeout it
\* returns false; else it goes round the loop.
Resume(t) ==
    /\ \/ TimeIsUp(t) /\ Return(t, "woken")
       \/ ~TimeIsUp(t) /\ Look(t, "woken")
    /\ UNCHANGED <<m_signaled, deleted>>

Sooner(n, d) == IF n > d THEN n - d ELSE 0

Tick ==
    /\ left' = [t \in Threads |-> Sooner(left[t], 1)]
    /\ waited' = [t \in Threads |-> IF waited[t] < limit[t]
                                    THEN waited[t] + 1 ELSE waited[t]]
    /\ UNCHANGED <<m_signaled, pc, limit, adjusted, deleted>>

\* The administrator, or the time service, sets the system clock forward.
\* The waits are measured by it, the time that passes is not.
Jump(d) ==
    /\ left' = [t \in Threads |-> Sooner(left[t], d)]
    /\ adjusted' = TRUE
    /\ UNCHANGED <<m_signaled, pc, limit, waited, deleted>>

\* ~ManualResetEvent(): delete m_imple.  Its owner has seen every wait return.
Delete ==
    /\ ~deleted
    /\ \A t \in Threads : pc[t] \in {"idle", "notify"}
    /\ Joined => \A t \in Threads : pc[t] = "idle"
    /\ deleted' = TRUE
    /\ UNCHANGED <<m_signaled, pc, clocks>>

Next ==
    \/ \E t \in Threads :
           \/ SetFlag(t) \/ NotifyAll(t) \/ Unset(t)
           \/ Call(t) \/ Test(t) \/ TimeUp(t) \/ Spurious(t) \/ Resume(t)
    \/ Tick \/ Delete
    \/ \E d \in Jumps : Jump(d)

Spec == Init /\ [][Next]_vars

\* Threads run, time passes, sleeps end when their time is up, and a thread
\* that asks for the mutex gets it: no section under it waits for anything.
\* Nobody is obliged to set the event, or to leave it set.
Fairness ==
    /\ \A t \in Threads : WF_vars(NotifyAll(t) \/ Test(t) \/ TimeUp(t) \/ Resume(t))
    /\ WF_vars(Tick)

FairSpec == Spec /\ Fairness

-----------------------------------------------------------------------------
Waiting(t) == pc[t] \in {"test", "asleep", "woken"}

\* No wake-up is lost: a thread can be asleep while the event is set only as
\* long as the notify_all() of some set() is still to come.
NoMissedSignal ==
    \A t \in Threads : m_signaled /\ pc[t] = "asleep" => \E u \in Threads : pc[u] = "notify"

\* waitWithTimeout() returns without having seen the event, or because its time
\* is up.
ReturnsFalse(t) == pc[t] = "woken" /\ pc'[t] = "idle" /\ (TimeIsUp(t) \/ ~m_signaled)

\* waitWithTimeout() does not give up before its time has passed, whatever
\* wakes it in between, as long as nobody sets the system clock.
NotEarly ==
    [][~adjusted => \A t \in Threads : ReturnsFalse(t) => waited[t] = limit[t]]_vars

\* The same whatever happens to the system clock.  It does not hold: the time
\* slept is measured by it.
NeverEarly == [][\A t \in Threads : ReturnsFalse(t) => waited[t] = limit[t]]_vars

\* A waiter sees the event for as long as it is set: waitWithTimeout() does
\* not return false on an event that is set.
SetMeansTrue == [][\A t \in Threads : ReturnsFalse(t) => ~m_signaled]_vars

\* Nothing is done with the event after it is deleted.  This holds only if the
\* setters are waited for: that a wait has returned does not say that the set()
\* it has seen is over.
UsedWhileThere == deleted => \A t \in Threads : pc[t] = "idle"

\* Once the event stays set, every wait on it returns.
WaitersReturn ==
    <>[]m_signaled => \A t \in Threads : Waiting(t) ~> pc[t] = "idle"

\* A sleep is disturbed: each disturbance starts the timeout anew.
Disturbed == \E t \in Threads : Spurious(t) \/ NotifyAll(t)

\* Once nothing disturbs the sleepers any more, waitWithTimeout() returns.
TimedWaitReturns ==
    <>[][~Disturbed]_vars => \A t \in Threads : Waiting(t) /\ Timed(t) ~> pc[t] = "idle"
=============================================================================
