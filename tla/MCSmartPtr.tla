----------------------------- MODULE MCSmartPtr -----------------------------
(* A few variables and objects; every structure of fields among them. *)
EXTENDS SmartPtr, TLC

\* Objects differ in nothing but their names; nor do the sp<T> variables.
Symmetry == Permutations(Objs) \cup Permutations(SpVars)
=============================================================================
