------------------------------ MODULE MCNcFile ------------------------------
(* Two objects on a short file. *)
EXTENDS NcFile, TLC

Symmetry == Permutations(Files)
=============================================================================
