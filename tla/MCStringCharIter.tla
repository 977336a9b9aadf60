-------------------------- MODULE MCStringCharIter --------------------------
(* Bytes on both sides of every bound that UTF-8 has: all short texts of   *)
(* them, and texts of two characters, whole and cut.                       *)
EXTENDS StringCharIter

SomeBytes == {\h41, \h7F, \h80, \h8F, \h90, \h9F, \hA0, \hBF, \hC1, \hC2,
              \hDF, \hE0, \hE1, \hED, \hEF, \hF0, \hF1, \hF4, \hF5}
SomeCodePoints == {\h41, \h7F, \h80, \h7FF, \h800, \hD7FF, \hD800, \hE000, \hFFFF,
                   \h10000, \h10FFFF}

Short == UNION {[1..n -> SomeBytes] : n \in 0..3}
Long  == {<<f>> \o t : f \in {\hF0, \hF1, \hF4, \hF5}, t \in [1..3 -> SomeBytes]}
Two   == {Encode(c) \o Encode(d) : c, d \in SomeCodePoints}

\* The memory goes on behind the slice with a byte that could continue it.
Cut(text, n) == [mem |-> text \o <<\h80, Nul>>, at |-> 0, len |-> n]

SomeSlices ==
    {Cut(t, Len(t)) : t \in Short \cup Long} \cup
    UNION {{Cut(t, n) : n \in {Len(t) - 1, Len(t)}} : t \in Two}
=============================================================================
