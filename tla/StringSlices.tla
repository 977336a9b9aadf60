---------------------------- MODULE StringSlices ----------------------------
(***************************************************************************)
(* The algorithms of StringSlice (string_slice.h, string_slice.cpp) as     *)
(* functions of what they read.                                            *)
(*                                                                         *)
(* Bytes are numbers, 0 is '\0'.  A slice is a window on a piece of memory *)
(* that goes on behind it: mem is the memory, a sequence of bytes with a   *)
(* '\0' somewhere at or behind the end of the window, at the offset of     *)
(* m_str in it, len is m_length.  A pointer into the memory is an offset.  *)
(***************************************************************************)
EXTENDS Integers, Sequences, FiniteSetsExt

Nul == 0

At(mem, p) == mem[p + 1]

\* The bytes from pointer p up to pointer e.
Bytes(mem, p, e) == SubSeq(mem, p + 1, e)

EndOf(s)  == s.at + s.len
Text(s)   == Bytes(s.mem, s.at, EndOf(s))
Window(s, from, len) == [mem |-> s.mem, at |-> s.at + from, len |-> len]

\* A slice over a whole C string of its own.
CString(text) == [mem |-> text \o <<Nul>>, at |-> 0, len |-> Len(text)]

\* Where a loop that tries the offsets in order stops: at the first in S.
FirstOr(S, otherwise) == IF S = {} THEN otherwise ELSE Min(S)

-----------------------------------------------------------------------------
\* static _strchr(s, sEnd, c): sEnd when there is no c.
Strchr(mem, s, e, c) == FirstOr({p \in s .. e - 1 : At(mem, p) = c}, e)

\* static _strncmp(s1, s1End, s2, n) = 0: the comparison also ends, with 0, at
\* a '\0' that both have.
StrncmpIsZero(mem, s, e, mem2, s2, n) ==
    LET compared == Min({n, e - s})
        stop     == FirstOr({i \in 0 .. compared - 1 :
                               \/ At(mem, s + i) # At(mem2, s2 + i)
                               \/ At(mem, s + i) = Nul}, compared)
    IN  stop < compared => At(mem, s + stop) = At(mem2, s2 + stop)

\* the loop of _strstr with a longer step after a partial match
StrstrLeaps(mem, s, e, r) ==
    LET from[p \in s .. e + r.len] ==
            IF p > e THEN e ELSE
            LET q == Strchr(mem, p, e, At(r.mem, r.at)) IN
            IF e - q < r.len THEN e
            ELSE IF StrncmpIsZero(mem, q, e, r.mem, r.at, r.len) THEN q
            ELSE from[q + r.len]
    IN  from[s]

\* static _strstr(s1, s1End, s2, s2len) for s2, s2len of the slice r: s1End
\* when there is no r.  The byte at r is read even when r is empty.
Strstr(mem, s, e, r) ==
    LET from[p \in s .. e] ==
            LET q == Strchr(mem, p, e, At(r.mem, r.at)) IN
            IF e - q < r.len THEN e
            ELSE IF StrncmpIsZero(mem, q, e, r.mem, r.at, r.len) THEN q
            ELSE from[q + 1]
    IN  from[s]

\* Range; NotFound is invalidRange, NoIndex the answer -1 of find and rfind.
MakeRange(location, length) == [location |-> location, length |-> length]
NotFound == MakeRange(-1, 0)
NoIndex == -1

\* findSliceFrom(start, needle)
FindSliceFrom(s, start, needle) ==
    LET p == Strstr(s.mem, s.at + start, EndOf(s), needle) IN
    IF p = EndOf(s) THEN NotFound ELSE MakeRange(p - s.at, needle.len)

\* findFrom(start, char c): the loop ends at a '\0', wherever the slice ends.
FindCharFrom(s, start, c) ==
    LET p == Min({q \in s.at + start .. Len(s.mem) - 1 : At(s.mem, q) \in {c, Nul}}) IN
    IF At(s.mem, p) = Nul THEN NoIndex ELSE p - s.at

\* a loop that ends before the first byte
RfindCharShort(s, c) == Max({i \in 1 .. s.len - 1 : At(s.mem, s.at + i) = c} \cup {NoIndex})

\* rfind(c)
RfindChar(s, c) == Max({i \in 0 .. s.len - 1 : At(s.mem, s.at + i) = c} \cup {NoIndex})

\* memcmp(...) = 0 of len bytes
SameBytes(s, p, r, q, len) == Bytes(s.mem, p, p + len) = Bytes(r.mem, q, q + len)

Equals(s, r)     == s.len = r.len /\ SameBytes(s, s.at, r, r.at, s.len)
StartsWith(s, r) == s.len >= r.len /\ SameBytes(s, s.at, r, r.at, r.len)

\* the end of s is compared without a look at the lengths
EndsWithNoLength(s, r) == SameBytes(s, Max({s.at, EndOf(s) - r.len}), r, r.at, Min({r.len, s.len}))

EndsWith(s, r) == s.len >= r.len /\ SameBytes(s, EndOf(s) - r.len, r, r.at, r.len)

\* strcasecmp() compares up to the '\0'; bytes 1 and 2 stand for 'a' and 'A'.
Lower(byte) == IF byte = 2 THEN 1 ELSE byte
UpToNul(s)  == Bytes(s.mem, s.at, Strchr(s.mem, s.at, Len(s.mem), Nul))

EqualsCaseInsensitive(s, r) ==
    /\ s.len = r.len
    /\ Len(UpToNul(s)) = Len(UpToNul(r))
    /\ \A i \in DOMAIN UpToNul(s) : Lower(UpToNul(s)[i]) = Lower(UpToNul(r)[i])

\* a loop over the offsets that stops one too early
CountSliceShort(s, r) ==
    IF r.len > s.len THEN 0
    ELSE Cardinality({p \in s.at .. EndOf(s) - r.len - 1 : SameBytes(s, p, r, r.at, r.len)})

\* countSlice(target)
CountSlice(s, r) ==
    IF r.len > s.len THEN 0
    ELSE Cardinality({p \in s.at .. EndOf(s) - r.len : SameBytes(s, p, r, r.at, r.len)})

\* subslice(start, length) takes its arguments as they are.
Subslice(s, start, length) == Window(s, start, length)

\* a negative start taken from the beginning
SubsliceFromForward(s, start) == Window(s, start, s.len - start)

\* subsliceFrom(start), for a start that passes the assertions
SubsliceFrom(s, start) ==
    IF start < 0 THEN Window(s, s.len + start, -start) ELSE Window(s, start, s.len - start)

\* replaceInRange that copies the rest from the end of the replacement
ReplaceInRangeShifted(s, range, r) ==
    IF range.location < 0 THEN s
    ELSE CString(Bytes(s.mem, s.at, s.at + range.location) \o Text(r)
                 \o Bytes(s.mem, s.at + range.location + r.len, EndOf(s)))

\* replaceInRange(range, replacement), for a range inside the slice
ReplaceInRange(s, range, r) ==
    IF range.location < 0 THEN s
    ELSE CString(Bytes(s.mem, s.at, s.at + range.location) \o Text(r)
                 \o Bytes(s.mem, s.at + range.location + range.length, EndOf(s)))

\* NcString::initByJoiningSlices(slices, sep), behind StringSlice::join()
JoinSlices(slices, sep) ==
    LET upTo[i \in 0 .. Len(slices)] ==
            IF i = 0 THEN <<>>
            ELSE upTo[i - 1] \o (IF i > 1 THEN Text(sep) ELSE <<>>) \o Text(slices[i])
    IN  CString(upTo[Len(slices)])
=============================================================================
