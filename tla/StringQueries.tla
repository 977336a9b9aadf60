--------------------------- MODULE StringQueries ---------------------------
(***************************************************************************)
(* The search functions of StringSlice asked about every slice and every   *)
(* needle of a bounded size, and what their answers have to do with each   *)
(* other and with the text.  StringIter then takes the slice apart at the  *)
(* needle.                                                                 *)
(***************************************************************************)
EXTENDS StringSlices

CONSTANTS
    Alphabet,       \* the bytes strings are made of
    MaxMemory,      \* bound: the length of the string a slice is a part of
    MaxNeedle       \* bound: the length of the needle

ASSUME AlphabetAssumption == Alphabet \subseteq Nat /\ MaxMemory \in Nat /\ MaxNeedle \in Nat

VARIABLES text, sep     \* the slice; the needle, or the separator

Words(n)  == UNION {[1 .. k -> Alphabet] : k \in 0 .. n}

\* The slices of C strings: all their parts, at any place.
SlicesOf(n) == UNION {{x \in {Window(CString(w), p, k) : p, k \in 0 .. Len(w)} : EndOf(x) <= Len(w)} :
                         w \in Words(n)}

-----------------------------------------------------------------------------
Prefix(len) == Window(text, 0, len)

\* Where the needle occurs in the slice, by definition.
Occurrences == {p \in 0 .. text.len - sep.len : Text(Window(text, p, sep.len)) = Text(sep)}

Terminated(x) == At(x.mem, EndOf(x)) = Nul

\* findSliceFrom() answers with the first occurrence at or after start, also
\* when occurrences overlap or a partial match comes before, and with
\* invalidRange only when there is none; it never looks beyond the slice.
FindsFirst ==
    sep.len > 0 =>
        \A start \in 0 .. text.len :
            FindSliceFrom(text, start, sep) =
                LET S == {p \in Occurrences : p >= start} IN
                IF S = {} THEN NotFound ELSE MakeRange(Min(S), sep.len)

\* countSlice(), findSlice(), startsWith() and endsWith() tell one story, and
\* so do find(c) and rfind(c), which bracket the places of a byte in a slice
\* that a '\0' follows.  Two whole C strings are equal without regard to case
\* when they differ in nothing but the case of letters (1 is 'a', 2 is 'A').
SearchesAgree ==
    /\ sep.len > 0 =>
        /\ CountSlice(text, sep) = 0 <=> FindSliceFrom(text, 0, sep) = NotFound
        /\ StartsWith(text, sep) <=> FindSliceFrom(text, 0, sep) = MakeRange(0, sep.len)
        /\ text.len > 0 =>
              CountSlice(text, sep) = CountSlice(Prefix(text.len - 1), sep)
                                      + (IF EndsWith(text, sep) THEN 1 ELSE 0)
    /\ Terminated(text) =>
        \A i \in 1 .. text.len :
            LET c == Text(text)[i]
                first == FindCharFrom(text, 0, c)
            IN  first # NoIndex /\ first < i /\ RfindChar(text, c) >= i - 1
    /\ Terminated(text) /\ Terminated(sep) =>
        (EqualsCaseInsensitive(text, sep) <=>
            /\ text.len = sep.len
            /\ \A i \in 1 .. text.len :
                  LET pair == {Text(text)[i], Text(sep)[i]} IN
                  pair \subseteq {1, 2} \/ Cardinality(pair) = 1)

\* Cutting a slice in two, at a place counted from the start or from the end,
\* loses nothing, and replaceInRange() changes the range and nothing else:
\* putting back the piece cut out gives the slice again.
ReplaceUndone ==
    \A from \in 0 .. text.len : \A len \in 0 .. text.len - from :
        LET cut == Subslice(SubsliceFrom(text, IF from < text.len THEN from - text.len ELSE from), 0, len)
            new == ReplaceInRange(text, MakeRange(from, len), sep)
        IN  /\ new.len = text.len - len + sep.len
            /\ Equals(ReplaceInRange(new, MakeRange(from, sep.len), cut), text)

-----------------------------------------------------------------------------
\* "It may not be null terminated" (string_slice.h): find(c) answers with a
\* place in the slice.  It does not: it looks for the end at a '\0'.
FindStaysInside == \A c \in Alphabet \ {Nul} : FindCharFrom(text, 0, c) < text.len

\* "It may not be null terminated" (string_slice.h): equal slices are equal
\* without regard to case, whatever follows them in memory.
EqualIgnoringCaseAnywhere == Equals(text, sep) => EqualsCaseInsensitive(text, sep)
=============================================================================
