--------------------------- MODULE MCTwoPassFormat ---------------------------
(* Lengths on both sides of a small STR_MAX_LEN, and far beyond it. *)
EXTENDS TwoPassFormat

SmallRequests == 0 .. 5
AnyRequest == 0 .. Modulus - 1
SmallLengths == 0 .. 4
=============================================================================
