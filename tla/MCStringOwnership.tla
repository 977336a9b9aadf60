------------------------- MODULE MCStringOwnership -------------------------
(* A few variables of each type and two strings. *)
EXTENDS StringOwnership, TLC

Symmetry ==
    Permutations(Strings) \cup Permutations(SliceVars) \cup Permutations(PtrVars)
    \cup Permutations(IterVars)
=============================================================================
