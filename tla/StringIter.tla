----------------------------- MODULE StringIter -----------------------------
(***************************************************************************)
(* StringSubsliceIter and StringTokenIter of string_slice.h, the iterators *)
(* behind split(), splitWithLimit() and tokenize(): one call of next()     *)
(* after the other on one text, the pieces they hand out collected in a    *)
(* vector or in an array of limited size.                                  *)
(***************************************************************************)
EXTENDS StringQueries

CONSTANT Limits         \* the room for pieces: the arguments maxNum of splitWithLimit()

ASSUME LimitsAssumption == Limits \subseteq Nat

VARIABLES
    tokens,         \* is it a StringTokenIter?
    maxNum,         \* the room for pieces
    m_str,          \* the position of the iterator
    m_foundSep,     \* did the last piece end at a separator?
    pieces,         \* what next() has handed out: the ranges
    over            \* has next() returned false, or is there no more room?

vars == <<text, sep, tokens, maxNum, m_str, m_foundSep, pieces, over>>

m_strEnd == EndOf(text)

\* the constructor StringSubsliceIter(slice, sep)
Init ==
    /\ text \in SlicesOf(MaxMemory)
    /\ sep \in SlicesOf(MaxNeedle)
    /\ tokens \in BOOLEAN
    /\ maxNum \in Limits
    /\ m_str = text.at
    /\ m_foundSep = FALSE
    /\ pieces = <<>>
    /\ over = FALSE

Give(from, to) == pieces' = Append(pieces, MakeRange(from - text.at, to - from))

\* the iterator forgets that a separator at the end has an empty piece after it
PieceLeftForgets == m_str # m_strEnd

\* if (m_str == m_strEnd && !m_foundSep) return false;
PieceLeft == m_str # m_strEnd \/ m_foundSep

-----------------------------------------------------------------------------
(* Mutated forms of the steps below, used to test the properties.          *)

\* m_foundSep is not cleared with the last piece
NextSubsliceNoClear ==
    /\ PieceLeft
    /\ LET newStr == Strstr(text.mem, m_str, m_strEnd, sep) IN
       /\ Give(m_str, newStr)
       /\ m_str' = IF newStr # m_strEnd THEN newStr + sep.len ELSE newStr
       /\ m_foundSep' = (m_foundSep \/ newStr # m_strEnd)

-----------------------------------------------------------------------------
\* StringSubsliceIter::next() returning true
NextSubslice ==
    /\ PieceLeft
    /\ LET newStr == Strstr(text.mem, m_str, m_strEnd, sep) IN
       /\ Give(m_str, newStr)
       /\ m_str' = IF newStr # m_strEnd THEN newStr + sep.len ELSE newStr
       /\ m_foundSep' = (newStr # m_strEnd)

IsSep(c) == \E i \in 1 .. sep.len : Text(sep)[i] = c    \* memchr(m_sep, c, m_sepLength)

FirstNonSep == FirstOr({p \in m_str .. m_strEnd - 1 : ~IsSep(At(text.mem, p))}, m_strEnd)

\* a token that begins at the iterator, separators and all
NextTokenNoSkip ==
    /\ FirstNonSep # m_strEnd
    /\ LET end == FirstOr({p \in FirstNonSep + 1 .. m_strEnd - 1 : IsSep(At(text.mem, p))}, m_strEnd) IN
       /\ Give(m_str, end)
       /\ m_str' = end
    /\ UNCHANGED m_foundSep

\* StringTokenIter::next() returning true
NextToken ==
    /\ FirstNonSep # m_strEnd
    /\ LET end == FirstOr({p \in FirstNonSep + 1 .. m_strEnd - 1 : IsSep(At(text.mem, p))}, m_strEnd) IN
       /\ Give(FirstNonSep, end)
       /\ m_str' = end
    /\ UNCHANGED m_foundSep

HasNext == IF tokens THEN FirstNonSep # m_strEnd ELSE PieceLeft

\* while (created < maxNum && iter.next(&slice))
Step ==
    /\ ~over /\ Len(pieces) < maxNum
    /\ IF tokens THEN NextToken ELSE NextSubslice
    /\ UNCHANGED <<text, sep, tokens, maxNum, over>>

\* No room is left, or next() returns false.  That of StringTokenIter has then
\* passed over the separators at the end.
Stop ==
    /\ ~over
    /\ \/ Len(pieces) >= maxNum /\ UNCHANGED m_str
       \/ Len(pieces) < maxNum /\ ~HasNext /\ m_str' = m_strEnd
    /\ over' = TRUE
    /\ UNCHANGED <<text, sep, tokens, maxNum, m_foundSep, pieces>>

Next == Step \/ Stop

Spec == Init /\ [][Next]_vars

-----------------------------------------------------------------------------
Piece(i)  == Window(text, pieces[i].location, pieces[i].length)
AllPieces == [i \in DOMAIN pieces |-> Piece(i)]
Occurs(r, s) == \E p \in 0 .. s.len - r.len : Text(Window(s, p, r.len)) = Text(r)

Parted == over /\ Len(pieces) < maxNum      \* the text was taken apart to its end

\* join() of what split() made, with the same separator, is the text again,
\* with a separator at its end or start and with separators that overlap
\* themselves; and at every moment it is what has been read, so that nothing
\* is lost when the loop ends early, at the limit of splitWithLimit().
JoinUndoesSplit ==
    ~tokens =>
        LET joined == JoinSlices(AllPieces, sep) IN
        /\ Text(joined) \o (IF m_foundSep THEN Text(sep) ELSE <<>>) = Bytes(text.mem, text.at, m_str)
        /\ Parted => Equals(joined, text)
        /\ sep.len > 0 => \A i \in DOMAIN pieces : ~Occurs(sep, Piece(i))

\* tokenize() finds the maximal runs of bytes that are no separators, each
\* once and in order.
TokensAreRuns ==
    Parted /\ tokens =>
        LET Other(i) == ~IsSep(At(text.mem, text.at + i))
            IsRun(p, q) == /\ p < q
                           /\ \A i \in p .. q - 1 : Other(i)
                           /\ p > 0 => ~Other(p - 1)
                           /\ q < text.len => ~Other(q)
            Runs == {r \in (0 .. text.len) \X (0 .. text.len) : IsRun(r[1], r[2])}
        IN  /\ {<<pieces[i].location, pieces[i].location + pieces[i].length>> : i \in DOMAIN pieces} = Runs
            /\ \A i, j \in DOMAIN pieces : i < j => pieces[i].location < pieces[j].location

\* The loop over the iterator ends by itself and inside the text: at the latest
\* when every byte was a separator and there is an empty piece on both sides of
\* each.  With an empty separator split() need not end, see NextSubslice.
PiecesRunOut ==
    sep.len > 0 => m_str \in text.at .. m_strEnd /\ Len(pieces) <= text.len + 1

-----------------------------------------------------------------------------
\* "non-exist splitter should produce a single result"
\* (string_slice_unittest.cpp).  It does not for an empty text.
NoSeparatorOnePiece == Parted /\ ~tokens /\ sep.len > 0 /\ ~Occurs(sep, text) => Len(pieces) = 1
=============================================================================
