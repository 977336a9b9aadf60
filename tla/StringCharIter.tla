--------------------------- MODULE StringCharIter ---------------------------
(***************************************************************************)
(* StringCharIter of string_slice.h and string_slice.cpp: one call of      *)
(* next() a step, over a slice, until it answers false.  utf8_iterate()    *)
(* answers NULL for bytes that are no character; next() takes that for a   *)
(* place in the text, answers true with whatever c happened to be, and     *)
(* reads through NULL the next time, unless the length it has computed     *)
(* from NULL is zero.  The member m_str is m_charStr here: m_str is that   *)
(* of the iterators of StringIter, beside which this one is reasoned about.*)
(***************************************************************************)
EXTENDS Utf8, SequencesExt

CONSTANTS
    Slices,     \* the slices iterated over
    CodePoints  \* those looked for by find(wchar32)

VARIABLES
    slice,
    m_charStr, m_length,    \* the iterator; a length computed from NULL is "zero" or not
    read,                   \* the characters next() has answered: their values
    state                   \* "iterating", "ended" or "crashed"

charVars == <<slice, m_charStr, m_length, read, state>>

Junk == -2              \* the value of a c that was never written

CharInit ==
    /\ slice \in Slices
    /\ m_charStr = slice.at /\ m_length = slice.len
    /\ read = <<>>
    /\ state = "iterating"

\* next() answers true: a character
NextChar ==
    /\ m_charStr # NULL
    /\ LET next == Iterate(slice.mem, m_charStr, m_length) IN
       /\ next.at \notin {NULL, m_charStr}
       /\ m_length' = m_length - (next.at - m_charStr)
       /\ m_charStr' = next.at
       /\ read' = Append(read, next.value)
    /\ UNCHANGED <<slice, state>>

\* next() answers true although utf8_iterate() has found no character
NextLost ==
    /\ m_charStr # NULL
    /\ Iterate(slice.mem, m_charStr, m_length).at = NULL
    /\ m_length' \in {0, 1}
    /\ m_charStr' = NULL
    /\ read' = Append(read, Junk)
    /\ UNCHANGED <<slice, state>>

\* next() answers false
NextFalse ==
    /\ m_length = 0
    /\ state' = "ended"
    /\ UNCHANGED <<slice, m_charStr, m_length, read>>

\* utf8_iterate(NULL, ...) reads the first byte
NextCrashes ==
    /\ m_charStr = NULL /\ m_length # 0
    /\ state' = "crashed"
    /\ UNCHANGED <<slice, m_charStr, m_length, read>>

CharNext == state = "iterating" /\ (NextChar \/ NextLost \/ NextFalse \/ NextCrashes)

CharSpec == CharInit /\ [][CharNext]_charVars

\* findFrom(start, wchar32 code) with the offsets counted from 0
FindCodeFromZero(s, start, code) ==
    LET from[p \in s.at + start .. EndOf(s)] ==
            LET next == Iterate(s.mem, p, EndOf(s) - p) IN
            IF next.at = p THEN NotFound
            ELSE IF next.value = code THEN MakeRange(p - s.at - start, next.at - p)
            ELSE from[next.at]
    IN  from[s.at + start]

\* findFrom(start, wchar32 code); when the iterator is lost no answer is defined
FindCodeFrom(s, start, code) ==
    LET from[p \in s.at + start .. EndOf(s)] ==
            LET next == Iterate(s.mem, p, EndOf(s) - p) IN
            IF next.at = p THEN NotFound
            ELSE IF next.at = NULL THEN MakeRange(Junk, 0)
            ELSE IF next.value = code THEN MakeRange(p - s.at, next.at - p)
            ELSE from[next.at]
    IN  from[s.at + start]

-----------------------------------------------------------------------------
Lost == Junk \in Range(read)

\* What UTF-8 is (Unicode, table of well-formed byte sequences): the ranges of
\* the bytes of one character.
WellFormed == {
    << \h00..\h7F >>,
    << \hC2..\hDF, Continuation >>,
    << {\hE0}, \hA0..\hBF, Continuation >>,
    << \hE1..\hEC \cup \hEE..\hEF, Continuation, Continuation >>,
    << {\hED}, \h80..\h9F, Continuation >>,
    << {\hF0}, \h90..\hBF, Continuation, Continuation >>,
    << \hF1..\hF3, Continuation, Continuation, Continuation >>,
    << {\hF4}, \h80..\h8F, Continuation, Continuation >> }

\* A character begins at p and ends before e.
CharacterAt(p, e) ==
    \E row \in WellFormed :
        /\ p + Len(row) <= e
        /\ \A i \in DOMAIN row : At(slice.mem, p + i - 1) \in row[i]

\* "Iterate characters(as Unicode Code Points) in a string" (string_slice.h):
\* the code points answered so far are Unicode's, and written out again they
\* are the bytes of the slice up to where the iterator is.
CodePointsAreText ==
    m_charStr # NULL =>
        /\ \A i \in DOMAIN read : IsScalar(read[i])
        /\ FlattenSeq([i \in DOMAIN read |-> Encode(read[i])]) = Bytes(slice.mem, slice.at, m_charStr)

\* The iterator never leaves the slice for the memory behind it, loses its way
\* only where the bytes are no character, ends at the end of the slice when it
\* has not, and utf8_check_string() tells the two apart.
LostOnlyIfMalformed ==
    /\ m_charStr \in {NULL} \cup slice.at .. EndOf(slice)
    /\ m_charStr # NULL /\ Iterate(slice.mem, m_charStr, m_length).at = NULL
         => ~CharacterAt(m_charStr, EndOf(slice))
    /\ state = "ended" /\ ~Lost => m_charStr = EndOf(slice)
    /\ state = "ended" => (Lost <=> ~CheckString(slice.mem, slice.at, slice.len))

\* In a well-formed text find(wchar32) finds what findSlice() finds for the
\* bytes of the character, from the beginning and from behind the first one.
FindsAgree ==
    state = "ended" /\ ~Lost =>
        \A c \in CodePoints, start \in {0} \cup {Len(Encode(read[i])) : i \in DOMAIN read \cap {1}} :
            FindCodeFrom(slice, start, c) = FindSliceFrom(slice, start, CString(Encode(c)))

\* Every character the iterator answers is one of the text.  This does not hold
\* of malformed text, nor of a slice cut inside a character.
NeverLost == ~Lost
=============================================================================
