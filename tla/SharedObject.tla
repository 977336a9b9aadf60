---------------------------- MODULE SharedObject ----------------------------
(***************************************************************************)
(* What sp<T> and wp<T> promise of one object, stated without counters:    *)
(* the object is there while some strong handle holds it, a weak handle    *)
(* can be turned into a strong one exactly as long as that is so, and the  *)
(* memory is given back once, after the last handle of either kind is gone.*)
(*                                                                         *)
(* ControlBlock implements this module with two integers.                  *)
(***************************************************************************)
CONSTANT Handles        \* the smart pointer variables of the program

VARIABLES strong,       \* handles that keep the object alive
          weak,         \* handles that only keep its memory
          reclaimed     \* has the memory been given back?

vars == <<strong, weak, reclaimed>>

Free(g) == g \in Handles \ (strong \cup weak)

Init ==
    /\ \E h \in Handles : strong = {h}
    /\ weak = {}
    /\ reclaimed = FALSE

Share(h, g) ==
    /\ h \in strong /\ Free(g)
    /\ strong' = strong \cup {g}
    /\ UNCHANGED <<weak, reclaimed>>

Observe(h, g) ==
    /\ h \in strong \cup weak /\ Free(g)
    /\ weak' = weak \cup {g}
    /\ UNCHANGED <<strong, reclaimed>>

Promote(h, g) ==
    /\ h \in weak /\ Free(g)
    /\ strong # {}
    /\ strong' = strong \cup {g}
    /\ UNCHANGED <<weak, reclaimed>>

Drop(h) ==
    /\ h \in strong
    /\ strong' = strong \ {h}
    /\ UNCHANGED <<weak, reclaimed>>

Forget(h) ==
    /\ h \in weak
    /\ weak' = weak \ {h}
    /\ UNCHANGED <<strong, reclaimed>>

Reclaim ==
    /\ strong \cup weak = {}
    /\ ~reclaimed
    /\ reclaimed' = TRUE
    /\ UNCHANGED <<strong, weak>>

Next ==
    \/ \E h, g \in Handles : Share(h, g) \/ Observe(h, g) \/ Promote(h, g)
    \/ \E h \in Handles : Drop(h) \/ Forget(h)
    \/ Reclaim

Spec == Init /\ [][Next]_vars
=============================================================================
