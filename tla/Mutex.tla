-------------------------------- MODULE Mutex --------------------------------
(***************************************************************************)
(* What a lock promises, whatever its implementation: a thread asks for    *)
(* the lock, is granted it only while nobody holds it, and gives it back.  *)
(* Which of the waiting threads is granted the lock is left open: the      *)
(* lock is not fair, but a free lock somebody waits for is granted.        *)
(*                                                                         *)
(* Spinlock implements this module.                                        *)
(***************************************************************************)
CONSTANT Threads        \* the threads that may call lock() and unlock()

VARIABLES waiting,      \* threads inside lock()
          holders       \* threads between the return of lock() and unlock()

vars == <<waiting, holders>>

Init == waiting = {} /\ holders = {}

Request(t) ==
    /\ t \notin waiting \cup holders
    /\ waiting' = waiting \cup {t}
    /\ UNCHANGED holders

Grant(t) ==
    /\ t \in waiting
    /\ holders = {}
    /\ holders' = {t}
    /\ waiting' = waiting \ {t}

Return(t) ==
    /\ t \in holders
    /\ holders' = holders \ {t}
    /\ UNCHANGED waiting

Next == \E t \in Threads : Request(t) \/ Grant(t) \/ Return(t)

Spec == Init /\ [][Next]_vars

\* Some waiting thread is granted the lock whenever it stays free, and the
\* critical sections end.
Fairness ==
    /\ WF_vars(\E t \in Threads : Grant(t))
    /\ \A t \in Threads : WF_vars(Return(t))

FairSpec == Spec /\ Fairness
=============================================================================
