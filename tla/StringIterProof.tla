--------------------------- MODULE StringIterProof ---------------------------
(***************************************************************************)
(* What the functions of StringSlice and its iterators do for every text,  *)
(* separator and limit, of any length, made of any bytes other than '\0'.  *)
(* The '\0' is excluded because static _strncmp() of string_slice.cpp stops *)
(* at one: with '\0' inside a slice the searches find what is not there.   *)
(*                                                                         *)
(* UTF-8, its iterator and find(wchar32) come last: what is accepted is    *)
(* worked out from the quotients and remainders of the bytes, and carried  *)
(* over to texts by the places where utf8_check_string() comes through.    *)
(*                                                                         *)
(* The loops are recursive functions.  That each of them is what its       *)
(* definition says, and what it computes, is shown by the least (or the    *)
(* greatest) argument at which it would not be so: LeastUpTo.              *)
(***************************************************************************)
EXTENDS StringIter, StringCharIter, FiniteSetTheorems, SequenceTheorems, WellFoundedInduction, TLAPS

-----------------------------------------------------------------------------
(* Numbers: the least and the greatest of a set.                           *)

\* A set of numbers below a bound has a least member.  That is the induction
\* that all proofs about recursive definitions below rest on.
LEMMA LeastUpTo ==
    ASSUME NEW S, NEW N \in Nat, S \subseteq 0 .. N, S # {}
    PROVE  \E m \in S : \A n \in S : m <= n
<1> DEFINE D == 0 .. N
           T == {0 .. n : n \in S}
<1>1. IsFiniteSet(D)
  BY FS_Interval
<1>2. FiniteSubsetsOf(D) = SUBSET D
  BY <1>1, FS_FiniteSubsetsOfFinite
<1>3. IsWellFoundedOn(StrictSubsetOrdering(D), SUBSET D)
  BY <1>2, FS_StrictSubsetOrderingWellFounded
<1>4. T \subseteq SUBSET D
  OBVIOUS
<1>5. T # {}
  <2>1. PICK n : n \in S
    OBVIOUS
  <2>2. 0 .. n \in T
    BY <2>1
  <2> QED
    BY <2>2
<1> HIDE DEF T
<1>6. PICK x \in T : \A y \in T : ~(<<y, x>> \in StrictSubsetOrdering(D))
  BY <1>3, <1>4, <1>5, WFMin
<1>7. PICK m \in S : x = 0 .. m
  BY DEF T
<1>8. ASSUME NEW n \in S, n < m PROVE FALSE
  <2>1. (0 .. n) \in T /\ (0 .. n) \subseteq D /\ x \subseteq D
    BY <1>7 DEF T
  <2>2. (0 .. n) \subseteq x /\ m \in x /\ m \notin 0 .. n
    BY <1>7, <1>8
  <2>3. <<0 .. n, x>> \in StrictSubsetOrdering(D)
    BY <2>1, <2>2 DEF StrictSubsetOrdering
  <2> QED
    BY <1>6, <2>1, <2>3
<1> QED
  BY <1>8

\* Min of numbers: its value is there, and bounds the others.
LEMMA MinIs ==
    ASSUME NEW S, NEW N \in Nat, S \subseteq 0 .. N, S # {}
    PROVE  Min(S) \in S /\ \A n \in S : Min(S) <= n
<1>1. \E m \in S : \A n \in S : m <= n
  BY LeastUpTo
<1> QED
  BY <1>1 DEF Min

\* Max of a place in a text, or -1.
LEMMA MaxIs ==
    ASSUME NEW S, NEW N \in Nat, S \subseteq -1 .. N, S # {}
    PROVE  Max(S) \in S /\ \A n \in S : n <= Max(S)
<1> DEFINE T == {N - n : n \in S}
<1>1. T \subseteq 0 .. N + 1 /\ N + 1 \in Nat
  OBVIOUS
<1>2. T # {}
  <2>1. PICK n : n \in S
    OBVIOUS
  <2>2. N - n \in T
    BY <2>1
  <2> QED
    BY <2>2
<1>3. PICK m \in T : \A n \in T : m <= n
  BY <1>1, <1>2, LeastUpTo
<1>4. PICK k \in S : m = N - k
  BY <1>3
<1>5. ASSUME NEW n \in S PROVE n <= k
  <2>1. N - n \in T
    OBVIOUS
  <2>2. m <= N - n
    BY <1>3, <2>1
  <2>3. n \in Int /\ k \in Int
    OBVIOUS
  <2> HIDE DEF T
  <2> QED
    BY <1>4, <2>2, <2>3
<1> QED
  BY <1>5 DEF Max

\* Where a loop over offsets stops.
LEMMA FirstOrIs ==
    ASSUME NEW S, NEW e \in Nat, S \subseteq 0 .. e
    PROVE  /\ FirstOr(S, e) \in 0 .. e /\ \A p \in S : FirstOr(S, e) <= p
           /\ FirstOr(S, e) \in S \/ (S = {} /\ FirstOr(S, e) = e)
<1>1. CASE S = {}
  BY <1>1 DEF FirstOr
<1>2. CASE S # {}
  BY <1>2, MinIs DEF FirstOr
<1> QED
  BY <1>1, <1>2

-----------------------------------------------------------------------------
(* The slices.                                                             *)

\* What a slice is: a window, followed by at least the '\0' of its string,
\* which is the only one.
IsSlice(x) ==
    /\ x = [mem |-> x.mem, at |-> x.at, len |-> x.len]
    /\ x.mem \in Seq(Nat) /\ x.at \in Nat /\ x.len \in Nat
    /\ x.at + x.len < Len(x.mem)
    /\ \A p \in 0 .. Len(x.mem) - 1 : At(x.mem, p) = Nul <=> p = Len(x.mem) - 1

LEMMA SlicesAre ==
    ASSUME Nul \notin Alphabet, NEW n \in Nat, NEW x \in SlicesOf(n)
    PROVE  IsSlice(x)
<1>1. PICK w \in Words(n) : \E p, k \in 0 .. Len(w) :
          x = Window(CString(w), p, k) /\ EndOf(x) <= Len(w)
  BY DEF SlicesOf
<1>2. PICK p \in 0 .. Len(w), k \in 0 .. Len(w) : x = Window(CString(w), p, k) /\ EndOf(x) <= Len(w)
  BY <1>1
<1>3. PICK l \in 0 .. n : w \in [1 .. l -> Alphabet]
  BY DEF Words
<1>4. l \in Nat /\ w \in Seq(Nat) /\ Len(w) = l /\ \A i \in 1 .. l : w[i] \in Nat /\ w[i] # Nul
  <2>1. l \in Nat
    OBVIOUS
  <2>2. w \in [1 .. l -> Nat] /\ \A i \in 1 .. l : w[i] # Nul
    BY <1>3, AlphabetAssumption
  <2>3. w \in Seq(Nat) /\ DOMAIN w = 1 .. l
    BY <2>1, <2>2
  <2>4. Len(w) = l
    BY <2>1, <2>3, LenProperties
  <2> QED
    BY <2>1, <2>2, <2>3, <2>4
<1>5. DEFINE mem == w \o <<Nul>>
<1>6. /\ mem \in Seq(Nat) /\ Len(mem) = l + 1
      /\ \A i \in 1 .. l : mem[i] = w[i]
      /\ mem[l + 1] = Nul
  <2>1. <<Nul>> \in Seq(Nat) /\ Len(<<Nul>>) = 1 /\ <<Nul>>[1] = Nul
    BY DEF Nul
  <2> QED
    BY <1>4, <2>1, ConcatProperties
<1>7. x.mem = mem /\ x.at = p /\ x.len = k /\ x = [mem |-> mem, at |-> p, len |-> k]
  BY <1>2, <1>4 DEF Window, CString
<1> HIDE DEF mem
<1>8. \A q \in 0 .. l : mem[q + 1] = Nul <=> q = l
  BY <1>4, <1>6
<1> QED
  BY <1>2, <1>4, <1>6, <1>7, <1>8 DEF IsSlice, EndOf, At

LEMMA SliceBytes ==
    ASSUME NEW x, IsSlice(x)
    PROVE  /\ x.at \in Nat /\ x.len \in Nat /\ EndOf(x) \in Nat /\ EndOf(x) = x.at + x.len
           /\ x.mem \in Seq(Nat) /\ Len(x.mem) \in Nat /\ EndOf(x) < Len(x.mem)
           /\ \A p \in 0 .. Len(x.mem) - 1 : At(x.mem, p) = x.mem[p + 1] /\ At(x.mem, p) \in Nat
           /\ \A p \in 0 .. EndOf(x) - 1 : At(x.mem, p) # Nul
<1>1. /\ x.mem \in Seq(Nat) /\ x.at \in Nat /\ x.len \in Nat
      /\ x.at + x.len < Len(x.mem)
      /\ \A p \in 0 .. Len(x.mem) - 1 : At(x.mem, p) = Nul <=> p = Len(x.mem) - 1
  BY DEF IsSlice
<1>2. Len(x.mem) \in Nat /\ \A p \in 0 .. Len(x.mem) - 1 : x.mem[p + 1] \in Nat
  BY <1>1
<1>3. EndOf(x) = x.at + x.len /\ EndOf(x) \in Nat /\ EndOf(x) < Len(x.mem)
  BY <1>1, <1>2 DEF EndOf
<1>4. \A p \in 0 .. Len(x.mem) - 1 : At(x.mem, p) = x.mem[p + 1] /\ At(x.mem, p) \in Nat
  BY <1>2 DEF At
<1>5. \A p \in 0 .. EndOf(x) - 1 : At(x.mem, p) # Nul
  <2> SUFFICES ASSUME NEW p \in 0 .. EndOf(x) - 1 PROVE At(x.mem, p) # Nul
    OBVIOUS
  <2>1. p \in 0 .. Len(x.mem) - 1 /\ p # Len(x.mem) - 1
    BY <1>2, <1>3
  <2> QED
    BY <1>1, <2>1
<1> QED
  BY <1>1, <1>2, <1>3, <1>4, <1>5

-----------------------------------------------------------------------------
(* Searching.                                                              *)

LEMMA StrchrIs ==
    ASSUME NEW mem, NEW e \in Nat, NEW s \in 0 .. e, NEW c
    PROVE  /\ Strchr(mem, s, e, c) \in s .. e
           /\ Strchr(mem, s, e, c) # e => At(mem, Strchr(mem, s, e, c)) = c
           /\ \A p \in s .. Strchr(mem, s, e, c) - 1 : At(mem, p) # c
<1> DEFINE S == {p \in s .. e - 1 : At(mem, p) = c}
<1>1. S \subseteq 0 .. e /\ Strchr(mem, s, e, c) = FirstOr(S, e)
  BY DEF Strchr
<1>2. /\ FirstOr(S, e) \in 0 .. e /\ \A p \in S : FirstOr(S, e) <= p
      /\ FirstOr(S, e) \in S \/ (S = {} /\ FirstOr(S, e) = e)
  BY <1>1, FirstOrIs
<1> QED
  BY <1>1, <1>2

\* Does what r shows stand at p?
Same(mem, p, r) == \A i \in 0 .. r.len - 1 : At(mem, p + i) = At(r.mem, r.at + i)

\* As long as no '\0' is in the way, static _strncmp() compares all bytes.
LEMMA ComparesAll ==
    ASSUME NEW x, NEW r, IsSlice(x), IsSlice(r), NEW q \in x.at .. EndOf(x), q + r.len <= EndOf(x)
    PROVE  StrncmpIsZero(x.mem, q, EndOf(x), r.mem, r.at, r.len) <=> Same(x.mem, q, r)
<1> DEFINE e == EndOf(x)
           S == {i \in 0 .. r.len - 1 : \/ At(x.mem, q + i) # At(r.mem, r.at + i)
                                        \/ At(x.mem, q + i) = Nul}
           stop == FirstOr(S, r.len)
<1>1. /\ x.at \in Nat /\ r.len \in Nat /\ e \in Nat /\ q \in Nat
      /\ \A p \in 0 .. e - 1 : At(x.mem, p) # Nul
  BY SliceBytes
<1>2. Min({r.len, e - q}) = r.len
  <2>1. {r.len, e - q} \subseteq 0 .. e /\ r.len <= e - q
    BY <1>1
  <2>2. Min({r.len, e - q}) \in {r.len, e - q} /\ Min({r.len, e - q}) <= r.len
    BY <1>1, <2>1, MinIs
  <2> QED
    BY <1>1, <2>1, <2>2
<1>3. S \subseteq 0 .. r.len
  BY <1>1
<1>4. stop \in 0 .. r.len /\ (stop \in S \/ (S = {} /\ stop = r.len))
  BY <1>1, <1>3, FirstOrIs
<1>5. StrncmpIsZero(x.mem, q, e, r.mem, r.at, r.len)
          <=> (stop < r.len => At(x.mem, q + stop) = At(r.mem, r.at + stop))
  BY <1>2 DEF StrncmpIsZero
<1>6. S = {i \in 0 .. r.len - 1 : At(x.mem, q + i) # At(r.mem, r.at + i)}
  BY <1>1
<1> HIDE DEF S, stop
<1>7. CASE S = {}
  BY <1>1, <1>4, <1>5, <1>6, <1>7 DEF Same
<1>8. CASE stop \in S
  BY <1>1, <1>5, <1>6, <1>8 DEF Same
<1> QED
  BY <1>4, <1>7, <1>8

\* Where r is found in the slice x.
Found(x, r) == {p \in x.at .. EndOf(x) : p + r.len <= EndOf(x) /\ Same(x.mem, p, r)}

\* One turn of the loop of _strstr(), in terms of where r is found: the loop
\* is at p, q is the next place with the first byte of r.
LEMMA StrstrTurn ==
    ASSUME NEW x, NEW r, IsSlice(x), IsSlice(r), r.len > 0, NEW p \in x.at .. EndOf(x), NEW q,
           q = Strchr(x.mem, p, EndOf(x), At(r.mem, r.at))
    PROVE  /\ q \in p .. EndOf(x)
           /\ \A f \in Found(x, r) : f >= p => f >= q
           /\ EndOf(x) - q < r.len => \A f \in Found(x, r) : f < p
           /\ EndOf(x) - q >= r.len =>
                /\ q + 1 \in x.at .. EndOf(x)
                /\ StrncmpIsZero(x.mem, q, EndOf(x), r.mem, r.at, r.len) <=> q \in Found(x, r)
<1>1. x.at \in Nat /\ EndOf(x) \in Nat /\ r.len \in Nat
  BY SliceBytes
<1>2. /\ q \in p .. EndOf(x)
      /\ \A i \in p .. q - 1 : At(x.mem, i) # At(r.mem, r.at)
  BY <1>1, StrchrIs
<1>3. \A f \in Found(x, r) : At(x.mem, f) = At(r.mem, r.at)
  <2> SUFFICES ASSUME NEW f \in Found(x, r) PROVE At(x.mem, f) = At(r.mem, r.at)
    OBVIOUS
  <2>1. At(x.mem, f + 0) = At(r.mem, r.at + 0)
    BY <1>1 DEF Found, Same
  <2>2. f + 0 = f /\ r.at + 0 = r.at
    BY <1>1, SliceBytes DEF Found
  <2> QED
    BY <2>1, <2>2
<1>4. \A f \in Found(x, r) : f >= p => f >= q
  BY <1>1, <1>2, <1>3 DEF Found
<1>5. EndOf(x) - q < r.len => \A f \in Found(x, r) : f < p
  BY <1>1, <1>2, <1>4 DEF Found
<1>6. ASSUME EndOf(x) - q >= r.len
      PROVE  /\ q + 1 \in x.at .. EndOf(x)
             /\ StrncmpIsZero(x.mem, q, EndOf(x), r.mem, r.at, r.len) <=> q \in Found(x, r)
  <2>1. q \in x.at .. EndOf(x) /\ q + r.len <= EndOf(x) /\ q + 1 \in x.at .. EndOf(x)
    BY <1>1, <1>2, <1>6
  <2> QED
    BY <2>1, ComparesAll DEF Found
<1> QED
  BY <1>2, <1>4, <1>5, <1>6

\* _strstr() answers with the first place where r is found, and with the end
\* when there is none.
LEMMA StrstrIs ==
    ASSUME NEW x, NEW r, IsSlice(x), IsSlice(r), r.len > 0, NEW a \in x.at .. EndOf(x), NEW q,
           q = Strstr(x.mem, a, EndOf(x), r)
    PROVE  /\ q \in a .. EndOf(x)
           /\ q # EndOf(x) => q \in Found(x, r)
           /\ \A f \in Found(x, r) : f >= a => f >= q
           /\ EndOf(x) \notin Found(x, r)
<1> DEFINE e == EndOf(x)
           Q(p) == Strchr(x.mem, p, e, At(r.mem, r.at))
           Turn(g, p) == IF e - Q(p) < r.len THEN e
                         ELSE IF StrncmpIsZero(x.mem, Q(p), e, r.mem, r.at, r.len) THEN Q(p)
                         ELSE g[Q(p) + 1]
           from == CHOOSE g : g = [p \in a .. e |-> Turn(g, p)]
           First(p) == FirstOr({f \in Found(x, r) : f >= p}, e)
           answer == [p \in a .. e |-> First(p)]
<1>1. x.at \in Nat /\ e \in Nat /\ r.len \in Nat /\ Found(x, r) \subseteq 0 .. e /\ e \notin Found(x, r)
  BY SliceBytes DEF Found
<1>2. \A p \in a .. e : /\ First(p) \in p .. e
                        /\ First(p) # e => First(p) \in Found(x, r)
                        /\ \A f \in Found(x, r) : f >= p => f >= First(p)
  <2> SUFFICES ASSUME NEW p \in a .. e
               PROVE  /\ First(p) \in p .. e
                      /\ First(p) # e => First(p) \in Found(x, r)
                      /\ \A f \in Found(x, r) : f >= p => f >= First(p)
    OBVIOUS
  <2> DEFINE S == {f \in Found(x, r) : f >= p}
  <2>1. S \subseteq 0 .. e
    BY <1>1
  <2>2. /\ First(p) \in 0 .. e /\ \A f \in S : First(p) <= f
        /\ First(p) \in S \/ (S = {} /\ First(p) = e)
    BY <1>1, <2>1, FirstOrIs
  <2> QED
    BY <1>1, <2>2
<1> HIDE DEF First
<1>3. \A p \in a .. e : /\ Q(p) \in p .. e
                        /\ \A f \in Found(x, r) : f >= p => f >= Q(p)
                        /\ e - Q(p) < r.len => \A f \in Found(x, r) : f < p
                        /\ e - Q(p) >= r.len =>
                             /\ Q(p) + 1 \in a .. e
                             /\ StrncmpIsZero(x.mem, Q(p), e, r.mem, r.at, r.len) <=> Q(p) \in Found(x, r)
  <2> SUFFICES ASSUME NEW p \in a .. e
               PROVE  /\ Q(p) \in p .. e
                      /\ \A f \in Found(x, r) : f >= p => f >= Q(p)
                      /\ e - Q(p) < r.len => \A f \in Found(x, r) : f < p
                      /\ e - Q(p) >= r.len =>
                           /\ Q(p) + 1 \in a .. e
                           /\ StrncmpIsZero(x.mem, Q(p), e, r.mem, r.at, r.len) <=> Q(p) \in Found(x, r)
    OBVIOUS
  <2>1. p \in x.at .. e
    BY <1>1
  <2> QED
    BY <1>1, <2>1, StrstrTurn
<1> HIDE DEF Q
<1>4. \A p \in a .. e : Turn(answer, p) = answer[p]
  <2> SUFFICES ASSUME NEW p \in a .. e PROVE Turn(answer, p) = First(p)
    OBVIOUS
  <2>1. CASE e - Q(p) < r.len
    BY <1>1, <1>2, <1>3, <2>1
  <2>2. CASE e - Q(p) >= r.len /\ Q(p) \in Found(x, r)
    <3>1. Turn(answer, p) = Q(p) /\ Q(p) \in p .. e /\ Q(p) # e
      BY <1>1, <1>3, <2>2
    <3>2. First(p) <= Q(p) /\ First(p) \in p .. e
      BY <1>1, <1>2, <2>2, <3>1
    <3>3. First(p) \in Found(x, r)
      BY <1>1, <1>2, <3>1, <3>2
    <3>4. Q(p) <= First(p)
      BY <1>1, <1>3, <3>2, <3>3
    <3> QED
      BY <1>1, <3>1, <3>2, <3>4
  <2>3. CASE e - Q(p) >= r.len /\ Q(p) \notin Found(x, r)
    <3>1. Turn(answer, p) = First(Q(p) + 1) /\ Q(p) + 1 \in a .. e
      BY <1>1, <1>3, <2>3
    <3>2. \A f \in Found(x, r) : f >= p => f >= Q(p) + 1
      BY <1>1, <1>3, <2>3, SMTT(40)
    <3>3. First(p) <= First(Q(p) + 1) /\ First(Q(p) + 1) <= First(p)
      BY <1>1, <1>2, <1>3, <3>1, <3>2
    <3> QED
      BY <1>1, <1>2, <3>1, <3>3
  <2> QED
    BY <1>1, <1>3, <2>1, <2>2, <2>3
<1>5. answer = [p \in a .. e |-> Turn(answer, p)]
  BY <1>4
<1>6. from = [p \in a .. e |-> Turn(from, p)]
  BY <1>5
<1> HIDE DEF answer, from
<1>7. \A p \in a .. e : from[p] = Turn(from, p)
  BY <1>6
<1>8. ASSUME NEW b \in {p \in a .. e : from[p] # answer[p]} PROVE FALSE
  <2> DEFINE S == {p \in a .. e : from[p] # answer[p]}
  <2>1. S \subseteq -1 .. e /\ S # {}
    BY <1>1, <1>8
  <2>2. PICK p \in S : \A f \in S : f <= p
    BY <1>1, <2>1, MaxIs
  <2>3. from[p] # answer[p] /\ Q(p) \in p .. e /\ \A f \in a .. e : f > p => from[f] = answer[f]
    BY <1>1, <1>3, <2>2
  <2>4. e - Q(p) >= r.len => from[Q(p) + 1] = answer[Q(p) + 1]
    BY <1>1, <1>3, <2>2, <2>3
  <2>5. Turn(from, p) = Turn(answer, p)
    BY <1>1, <1>3, <2>2, <2>4
  <2> QED
    BY <1>4, <1>7, <2>2, <2>3, <2>5
<1>9. from[a] = First(a) /\ a \in a .. e
  BY <1>1, <1>8 DEF answer
<1>10. q = from[a]
  BY DEF Strstr, from, Q
<1> QED
  BY <1>1, <1>2, <1>9, <1>10

-----------------------------------------------------------------------------
(* What the bytes of a range are.                                          *)

LEMMA BytesAre ==
    ASSUME NEW mem \in Seq(Nat), NEW p \in Nat, NEW n \in Nat, p + n <= Len(mem)
    PROVE  /\ Bytes(mem, p, p + n) \in Seq(Nat) /\ Len(Bytes(mem, p, p + n)) = n
           /\ \A i \in 1 .. n : Bytes(mem, p, p + n)[i] = At(mem, p + (i - 1))
<1>1. \A i \in p + 1 .. p + n : mem[i] \in Nat
  BY LenProperties
<1>2. /\ SubSeq(mem, p + 1, p + n) \in Seq(Nat)
      /\ Len(SubSeq(mem, p + 1, p + n)) = IF p + 1 <= p + n THEN p + n - (p + 1) + 1 ELSE 0
      /\ \A i \in 1 .. p + n - (p + 1) + 1 : SubSeq(mem, p + 1, p + n)[i] = mem[p + 1 + i - 1]
  BY <1>1, SubSeqProperties
<1>3. ASSUME NEW i \in 1 .. n PROVE SubSeq(mem, p + 1, p + n)[i] = At(mem, p + (i - 1))
  <2>1. p + 1 + i - 1 = p + (i - 1) + 1 /\ i \in 1 .. p + n - (p + 1) + 1
    OBVIOUS
  <2> QED
    BY <1>2, <2>1 DEF At
<1>4. Len(SubSeq(mem, p + 1, p + n)) = n
  <2>1. p + n - (p + 1) + 1 = n /\ (p + 1 <= p + n <=> n # 0)
    OBVIOUS
  <2> QED
    BY <1>2, <2>1
<1> QED
  BY <1>2, <1>3, <1>4 DEF Bytes

\* memcmp() of a place in a slice with another slice.
LEMMA SameAsBytes ==
    ASSUME NEW x, NEW r, IsSlice(x), IsSlice(r), NEW p \in x.at .. EndOf(x), p + r.len <= EndOf(x)
    PROVE  /\ SameBytes(x, p, r, r.at, r.len) <=> Same(x.mem, p, r)
           /\ Bytes(x.mem, p, p + r.len) = Text(r) <=> Same(x.mem, p, r)
<1> DEFINE b == Bytes(x.mem, p, p + r.len)
           c == Bytes(r.mem, r.at, r.at + r.len)
<1>1. /\ x.mem \in Seq(Nat) /\ p \in Nat /\ r.len \in Nat /\ p + r.len <= Len(x.mem)
      /\ r.mem \in Seq(Nat) /\ r.at \in Nat /\ r.at + r.len <= Len(r.mem)
  <2>1. x.at \in Nat /\ EndOf(x) \in Nat /\ EndOf(x) < Len(x.mem) /\ x.mem \in Seq(Nat) /\ Len(x.mem) \in Nat
    BY SliceBytes
  <2>2. r.mem \in Seq(Nat) /\ r.at \in Nat /\ r.len \in Nat /\ r.at + r.len < Len(r.mem) /\ Len(r.mem) \in Nat
    BY SliceBytes
  <2> QED
    BY <2>1, <2>2, SMTT(40)
<1>2. b \in Seq(Nat) /\ Len(b) = r.len /\ \A i \in 1 .. r.len : b[i] = At(x.mem, p + (i - 1))
  BY <1>1, BytesAre
<1>3. c \in Seq(Nat) /\ Len(c) = r.len /\ \A i \in 1 .. r.len : c[i] = At(r.mem, r.at + (i - 1))
  BY <1>1, BytesAre
<1> HIDE DEF b, c
<1>6. b = c <=> \A i \in 1 .. r.len : b[i] = c[i]
  BY <1>2, <1>3, SeqEqual
<1>7. (\A i \in 1 .. r.len : b[i] = c[i]) <=> Same(x.mem, p, r)
  <2>1. ASSUME \A i \in 1 .. r.len : b[i] = c[i], NEW i \in 0 .. r.len - 1
        PROVE  At(x.mem, p + i) = At(r.mem, r.at + i)
    <3>1. i + 1 \in 1 .. r.len /\ (i + 1) - 1 = i
      BY <1>1
    <3> QED
      BY <1>2, <1>3, <2>1, <3>1
  <2>2. ASSUME Same(x.mem, p, r), NEW i \in 1 .. r.len
        PROVE  b[i] = c[i]
    <3>1. i - 1 \in 0 .. r.len - 1
      BY <1>1
    <3> QED
      BY <1>2, <1>3, <2>2, <3>1 DEF Same
  <2> QED
    BY <2>1, <2>2 DEF Same
<1> QED
  BY <1>6, <1>7 DEF SameBytes, Text, EndOf, b, c

LEMMA BytesJoin ==
    ASSUME NEW x, IsSlice(x), NEW a \in Nat, NEW b \in Nat, NEW c \in Nat, a <= b, b <= c, c <= EndOf(x)
    PROVE  Bytes(x.mem, a, b) \o Bytes(x.mem, b, c) = Bytes(x.mem, a, c)
<1>1. x.mem \in Seq(Nat) /\ Len(x.mem) \in Nat /\ EndOf(x) \in Nat /\ EndOf(x) < Len(x.mem)
  BY SliceBytes
<1> DEFINE m == a + 1
<1>2. m \in 1 .. Len(x.mem) + 1 /\ b \in m - 1 .. Len(x.mem) /\ c \in b .. Len(x.mem)
  BY <1>1
<1> HIDE DEF m
<1>3. SubSeq(x.mem, m, b) \o SubSeq(x.mem, b + 1, c) = SubSeq(x.mem, m, c)
  BY <1>1, <1>2, ConcatAdjacentSubSeq
<1> QED
  BY <1>3 DEF Bytes, m

LEMMA OccurrencesAre ==
    ASSUME IsSlice(text), IsSlice(sep), NEW p \in Nat
    PROVE  p \in Occurrences <=> text.at + p \in Found(text, sep)
<1>1. /\ text.at \in Nat /\ text.len \in Nat /\ sep.len \in Nat /\ EndOf(text) = text.at + text.len
  BY SliceBytes
<1>2. p \in 0 .. text.len - sep.len
        <=> text.at + p \in text.at .. EndOf(text) /\ text.at + p + sep.len <= EndOf(text)
  BY <1>1
<1>3. ASSUME p \in 0 .. text.len - sep.len
      PROVE  Text(Window(text, p, sep.len)) = Text(sep) <=> Same(text.mem, text.at + p, sep)
  <2>1. Text(Window(text, p, sep.len)) = Bytes(text.mem, text.at + p, text.at + p + sep.len)
    BY DEF Text, Window, EndOf
  <2> QED
    BY <1>2, <1>3, <2>1, SameAsBytes
<1> QED
  BY <1>2, <1>3 DEF Occurrences, Found

\* What findSliceFrom() answers.
LEMMA FindSliceFromIs ==
    ASSUME IsSlice(text), IsSlice(sep), sep.len > 0, NEW start \in 0 .. text.len,
           NEW S, S = {p \in Occurrences : p >= start}
    PROVE  FindSliceFrom(text, start, sep) = IF S = {} THEN NotFound ELSE MakeRange(Min(S), sep.len)
<1> DEFINE e == EndOf(text)
           q == Strstr(text.mem, text.at + start, e, sep)
<1>1. /\ text.at \in Nat /\ text.len \in Nat /\ sep.len \in Nat /\ e = text.at + text.len
  BY SliceBytes
<1>2. text.at + start \in text.at .. e
  BY <1>1
<1>3. /\ q \in text.at + start .. e
      /\ q # e => q \in Found(text, sep)
      /\ \A f \in Found(text, sep) : f >= text.at + start => f >= q
      /\ e \notin Found(text, sep)
  BY <1>2, StrstrIs
<1> HIDE DEF q
<1>4. S \subseteq 0 .. text.len
  BY <1>1 DEF Occurrences
<1>5. \A p \in S : p \in Nat /\ p >= start /\ text.at + p \in Found(text, sep)
  BY <1>4, OccurrencesAre
<1>6. CASE q = e
  <2>1. S = {}
    BY <1>1, <1>3, <1>5, <1>6 DEF Found
  <2> QED
    BY <1>6, <2>1 DEF FindSliceFrom, q
<1>7. CASE q # e
  <2>1. q - text.at \in Nat /\ text.at + (q - text.at) = q /\ q - text.at >= start
    BY <1>1, <1>3
  <2>2. q - text.at \in S
    BY <1>3, <1>7, <2>1, OccurrencesAre
  <2>3. \A p \in S : p >= q - text.at
    BY <1>1, <1>3, <1>5
  <2>4. Min(S) \in S /\ \A p \in S : Min(S) <= p
    BY <1>1, <1>4, <2>2, MinIs
  <2>5. Min(S) = q - text.at
    BY <1>4, <2>1, <2>2, <2>3, <2>4
  <2> QED
    BY <1>7, <2>2, <2>5 DEF FindSliceFrom, q
<1> QED
  BY <1>6, <1>7

LEMMA FirstFound == ASSUME IsSlice(text), IsSlice(sep) PROVE FindsFirst
  BY FindSliceFromIs DEF FindsFirst

-----------------------------------------------------------------------------
(* Counting, the ends, single bytes and letters.                           *)

LEMMA CountIs ==
    ASSUME NEW x, NEW r, IsSlice(x), IsSlice(r)
    PROVE  CountSlice(x, r) = Cardinality(Found(x, r)) /\ IsFiniteSet(Found(x, r))
<1>1. /\ x.at \in Nat /\ x.len \in Nat /\ EndOf(x) \in Nat /\ EndOf(x) = x.at + x.len /\ r.len \in Nat
  BY SliceBytes
<1>2. IsFiniteSet(Found(x, r))
  <2>1. IsFiniteSet(x.at .. EndOf(x))
    <3>1. x.at \in Int /\ EndOf(x) \in Int
      BY <1>1
    <3> QED
      BY <3>1, FS_Interval
  <2> QED
    BY <2>1, FS_Subset DEF Found
<1>3. CASE r.len > x.len
  <2>1. Found(x, r) = {}
    BY <1>1, <1>3 DEF Found
  <2> QED
    BY <1>2, <1>3, <2>1, FS_EmptySet DEF CountSlice
<1>4. CASE r.len <= x.len
  <2> DEFINE C == {p \in x.at .. EndOf(x) - r.len : SameBytes(x, p, r, r.at, r.len)}
  <2>1. \A p \in x.at .. EndOf(x) - r.len : p \in x.at .. EndOf(x) /\ p + r.len <= EndOf(x)
    BY <1>1
  <2>2. \A p \in x.at .. EndOf(x) - r.len : SameBytes(x, p, r, r.at, r.len) <=> Same(x.mem, p, r)
    BY <2>1, SameAsBytes
  <2>3. \A p \in Found(x, r) : p \in x.at .. EndOf(x) - r.len
    BY <1>1 DEF Found
  <2>4. C = Found(x, r)
    BY <2>1, <2>2, <2>3 DEF Found
  <2>5. CountSlice(x, r) = Cardinality(C)
    BY <1>1, <1>4 DEF CountSlice
  <2> QED
    BY <1>2, <2>4, <2>5
<1> QED
  BY <1>1, <1>3, <1>4, <1>2

LEMMA PrefixIs ==
    ASSUME IsSlice(text), NEW len \in 0 .. text.len
    PROVE  /\ IsSlice(Prefix(len)) /\ Prefix(len).mem = text.mem /\ Prefix(len).at = text.at
           /\ Prefix(len).len = len /\ EndOf(Prefix(len)) = text.at + len
<1>1. text.at \in Nat /\ text.len \in Nat /\ text.at + 0 = text.at /\ Len(text.mem) \in Nat
  BY SliceBytes
<1>2. Prefix(len) = [mem |-> text.mem, at |-> text.at, len |-> len]
  BY <1>1 DEF Prefix, Window
<1>3. text.at + len < Len(text.mem) /\ len \in Nat
  BY <1>1 DEF IsSlice
<1> QED
  BY <1>2, <1>3 DEF IsSlice, EndOf

LEMMA CountsAgree ==
    ASSUME IsSlice(text), IsSlice(sep), sep.len > 0
    PROVE  /\ CountSlice(text, sep) = 0 <=> FindSliceFrom(text, 0, sep) = NotFound
           /\ StartsWith(text, sep) <=> FindSliceFrom(text, 0, sep) = MakeRange(0, sep.len)
<1>1. /\ text.at \in Nat /\ text.len \in Nat /\ EndOf(text) \in Nat /\ EndOf(text) = text.at + text.len
      /\ sep.len \in Nat
  BY SliceBytes
<1>2. Occurrences \subseteq 0 .. text.len
  BY <1>1 DEF Occurrences
<1>3. FindSliceFrom(text, 0, sep) = IF Occurrences = {} THEN NotFound ELSE MakeRange(Min(Occurrences), sep.len)
  <2>1. Occurrences = {p \in Occurrences : p >= 0} /\ 0 \in 0 .. text.len
    <3>1. 0 \in 0 .. text.len /\ \A p \in 0 .. text.len : p >= 0
      BY <1>1
    <3>2. \A p \in Occurrences : p >= 0
      BY <1>2, <3>1
    <3>3. Occurrences = {p \in Occurrences : p >= 0}
      BY <3>2
    <3> QED
      BY <3>1, <3>3
  <2> QED
    BY <2>1, FindSliceFromIs
<1>4. Occurrences # {} => /\ Min(Occurrences) \in Occurrences /\ Min(Occurrences) \in Nat
                          /\ \A p \in Occurrences : Min(Occurrences) <= p
  <2> SUFFICES ASSUME Occurrences # {}
               PROVE  /\ Min(Occurrences) \in Occurrences /\ Min(Occurrences) \in Nat
                      /\ \A p \in Occurrences : Min(Occurrences) <= p
    OBVIOUS
  <2>1. Min(Occurrences) \in Occurrences /\ \A p \in Occurrences : Min(Occurrences) <= p
    BY <1>1, <1>2, MinIs
  <2>2. 0 .. text.len \subseteq Nat
    BY <1>1
  <2> QED
    BY <1>2, <2>1, <2>2
<1>5. \A n \in Nat : MakeRange(n, sep.len) # NotFound
  <2>1. \A n \in Nat : MakeRange(n, sep.len).location # NotFound.location
    BY DEF MakeRange, NotFound
  <2> QED
    BY <2>1
<1>6. Found(text, sep) = {} <=> Occurrences = {}
  <2>1. ASSUME NEW f \in Found(text, sep) PROVE f - text.at \in Occurrences
    <3>1. f - text.at \in Nat /\ text.at + (f - text.at) = f
      BY <1>1 DEF Found
    <3> QED
      BY <3>1, OccurrencesAre
  <2>2. ASSUME NEW p \in Occurrences PROVE text.at + p \in Found(text, sep)
    BY <1>2, OccurrencesAre
  <2> QED
    BY <2>1, <2>2
<1>7. CountSlice(text, sep) = 0 <=> Found(text, sep) = {}
  BY CountIs, FS_EmptySet
<1>8. StartsWith(text, sep) <=> 0 \in Occurrences
  <2>1. 0 \in Occurrences <=> text.at \in Found(text, sep)
    BY <1>1, OccurrencesAre
  <2>2. text.at + sep.len <= EndOf(text) <=> text.len >= sep.len
    BY <1>1
  <2>3. text.len >= sep.len => (SameBytes(text, text.at, sep, sep.at, sep.len) <=> Same(text.mem, text.at, sep))
    BY <1>1, <2>2, SameAsBytes
  <2> QED
    BY <1>1, <2>1, <2>2, <2>3 DEF StartsWith, Found
<1>9. 0 \in Occurrences <=> Occurrences # {} /\ Min(Occurrences) = 0
  BY <1>2, <1>4
<1>10. \A n \in Nat : MakeRange(n, sep.len) = MakeRange(0, sep.len) <=> n = 0
  <2>1. \A n \in Nat : MakeRange(n, sep.len).location = n
    BY DEF MakeRange
  <2> QED
    BY <2>1
<1>11. CountSlice(text, sep) = 0 <=> FindSliceFrom(text, 0, sep) = NotFound
  BY <1>3, <1>4, <1>5, <1>6, <1>7
<1>12. StartsWith(text, sep) <=> FindSliceFrom(text, 0, sep) = MakeRange(0, sep.len)
  <2>1. CASE Occurrences = {}
    BY <1>3, <1>5, <1>8, <2>1
  <2>2. CASE Occurrences # {}
    BY <1>3, <1>4, <1>8, <1>9, <1>10, <2>2
  <2> QED
    BY <2>1, <2>2
<1> QED
  BY <1>11, <1>12

\* The last byte adds the occurrence the slice ends with, if it does.
LEMMA CountGrows ==
    ASSUME IsSlice(text), IsSlice(sep), sep.len > 0, text.len > 0
    PROVE  CountSlice(text, sep) = CountSlice(Prefix(text.len - 1), sep)
                                   + (IF EndsWith(text, sep) THEN 1 ELSE 0)
<1> DEFINE y == Prefix(text.len - 1)
           last == EndOf(text) - sep.len
<1>1. /\ text.at \in Nat /\ text.len \in Nat /\ EndOf(text) \in Nat /\ EndOf(text) = text.at + text.len
      /\ sep.len \in Nat
  BY SliceBytes
<1>2. IsSlice(y) /\ y.mem = text.mem /\ y.at = text.at /\ EndOf(y) = text.at + (text.len - 1)
  <2>1. text.len - 1 \in 0 .. text.len
    BY <1>1
  <2> QED
    BY <2>1, PrefixIs
<1> HIDE DEF y
<1>3. /\ CountSlice(text, sep) = Cardinality(Found(text, sep)) /\ IsFiniteSet(Found(text, sep))
      /\ CountSlice(y, sep) = Cardinality(Found(y, sep)) /\ IsFiniteSet(Found(y, sep))
  BY <1>2, CountIs
<1>4. Cardinality(Found(y, sep)) \in Nat
  BY <1>3, FS_CardinalityType
<1>5. EndsWith(text, sep) <=> last \in Found(text, sep)
  <2>1. text.len >= sep.len <=> last \in text.at .. EndOf(text)
    BY <1>1
  <2>2. last + sep.len = EndOf(text) /\ last + sep.len <= EndOf(text)
    BY <1>1
  <2>3. text.len >= sep.len => (SameBytes(text, last, sep, sep.at, sep.len) <=> Same(text.mem, last, sep))
    BY <2>1, <2>2, SameAsBytes
  <2> QED
    BY <2>1, <2>2, <2>3 DEF EndsWith, Found
<1>6. Found(y, sep) = Found(text, sep) \ {last}
  <2>1. \A p \in Int : p + sep.len <= EndOf(y) <=> p + sep.len <= EndOf(text) /\ p # last
    BY <1>1, <1>2
  <2>2. \A p \in Int : p + sep.len <= EndOf(y) =>
            (p \in text.at .. EndOf(y) <=> p \in text.at .. EndOf(text))
    BY <1>1, <1>2
  <2>3. Found(y, sep) \subseteq Int /\ Found(text, sep) \subseteq Int
    BY <1>1, <1>2 DEF Found
  <2>4. \A p \in Int : p \in Found(y, sep) <=> p \in Found(text, sep) /\ p # last
    BY <1>2, <2>1, <2>2 DEF Found, Same
  <2> QED
    BY <2>3, <2>4
<1>7. CASE EndsWith(text, sep)
  <2>1. Found(text, sep) = Found(y, sep) \cup {last} /\ last \notin Found(y, sep)
    BY <1>5, <1>6, <1>7
  <2>2. Cardinality(Found(text, sep)) = Cardinality(Found(y, sep)) + 1
    BY <1>3, <2>1, FS_AddElement
  <2> QED
    BY <1>3, <1>7, <2>2 DEF y
<1>8. CASE ~EndsWith(text, sep)
  BY <1>3, <1>4, <1>5, <1>6, <1>8 DEF y
<1> QED
  BY <1>7, <1>8

\* find(c) and rfind(c) of a byte that is there.
LEMMA BytesFound ==
    ASSUME IsSlice(text), NEW i \in 1 .. text.len, NEW c, c = Text(text)[i],
           NEW first, first = FindCharFrom(text, 0, c)
    PROVE  first # NoIndex /\ first < i /\ RfindChar(text, c) >= i - 1
<1> DEFINE S == {q \in text.at + 0 .. Len(text.mem) - 1 : At(text.mem, q) \in {c, Nul}}
           p == Min(S)
           k == i - 1
           R == {j \in 0 .. text.len - 1 : At(text.mem, text.at + j) = c} \cup {NoIndex}
<1>1. /\ text.at \in Nat /\ text.len \in Nat /\ text.mem \in Seq(Nat) /\ Len(text.mem) \in Nat
      /\ EndOf(text) = text.at + text.len /\ EndOf(text) < Len(text.mem)
      /\ \A q \in 0 .. EndOf(text) - 1 : At(text.mem, q) # Nul
  BY SliceBytes
<1>2. k \in 0 .. text.len - 1 /\ text.at + k \in text.at .. EndOf(text) - 1
  BY <1>1
<1>3. c = At(text.mem, text.at + k)
  <2>1. text.at + text.len <= Len(text.mem)
    BY <1>1
  <2>2. Bytes(text.mem, text.at, text.at + text.len)[i] = At(text.mem, text.at + (i - 1))
    BY <1>1, <2>1, BytesAre
  <2> QED
    BY <2>2 DEF Text, EndOf
<1>4. text.at + k \in S /\ S \subseteq 0 .. Len(text.mem)
  <2>1. text.at + k \in text.at + 0 .. Len(text.mem) - 1
    BY <1>1, <1>2, SMTT(40)
  <2>2. text.at + 0 .. Len(text.mem) - 1 \subseteq 0 .. Len(text.mem)
    BY <1>1
  <2> QED
    BY <1>3, <2>1, <2>2
<1>5. p \in S /\ p <= text.at + k
  BY <1>1, <1>4, MinIs
<1>6. p >= text.at /\ p \in 0 .. EndOf(text) - 1 /\ p < text.at + i
  BY <1>1, <1>2, <1>5, SMTT(40)
<1>7. first = p - text.at
  BY <1>1, <1>6 DEF FindCharFrom
<1>8. first # NoIndex /\ first < i
  BY <1>1, <1>6, <1>7, SMTT(40) DEF NoIndex
<1>9. R \subseteq -1 .. text.len /\ k \in R /\ RfindChar(text, c) = Max(R)
  BY <1>1, <1>2, <1>3 DEF NoIndex, RfindChar
<1>10. Max(R) \in R /\ k <= Max(R)
  BY <1>1, <1>9, MaxIs
<1> QED
  BY <1>8, <1>9, <1>10

LEMMA UpToNulIs ==
    ASSUME NEW x, IsSlice(x), Terminated(x)
    PROVE  UpToNul(x) = Text(x) /\ UpToNul(x) \in Seq(Nat) /\ Len(UpToNul(x)) = x.len
<1> DEFINE q == Strchr(x.mem, x.at, Len(x.mem), Nul)
<1>1. /\ x.at \in Nat /\ x.len \in Nat /\ x.mem \in Seq(Nat) /\ Len(x.mem) \in Nat
      /\ EndOf(x) = x.at + x.len /\ EndOf(x) < Len(x.mem)
      /\ \A p \in 0 .. EndOf(x) - 1 : At(x.mem, p) # Nul
  BY SliceBytes
<1>2. At(x.mem, EndOf(x)) = Nul
  BY DEF Terminated
<1>3. /\ q \in x.at .. Len(x.mem)
      /\ q # Len(x.mem) => At(x.mem, q) = Nul
      /\ \A p \in x.at .. q - 1 : At(x.mem, p) # Nul
  <2>1. x.at \in 0 .. Len(x.mem)
    BY <1>1
  <2> QED
    BY <1>1, <2>1, StrchrIs
<1> HIDE DEF q
<1>4. q = EndOf(x)
  <2>1. ~(q > EndOf(x))
    BY <1>1, <1>2, <1>3
  <2>2. ~(q < EndOf(x))
    BY <1>1, <1>3
  <2>3. q \in Int /\ EndOf(x) \in Int
    BY <1>1, <1>3
  <2> QED
    BY <2>1, <2>2, <2>3
<1>5. UpToNul(x) = Bytes(x.mem, x.at, x.at + x.len)
  BY <1>1, <1>4 DEF UpToNul, q
<1>6. x.at + x.len <= Len(x.mem)
  BY <1>1
<1> QED
  BY <1>1, <1>5, <1>6, BytesAre DEF Text

LEMMA CaseIgnored ==
    ASSUME IsSlice(text), IsSlice(sep), Terminated(text), Terminated(sep)
    PROVE  EqualsCaseInsensitive(text, sep) <=>
            /\ text.len = sep.len
            /\ \A i \in 1 .. text.len :
                  LET pair == {Text(text)[i], Text(sep)[i]} IN
                  pair \subseteq {1, 2} \/ Cardinality(pair) = 1
<1>1. /\ UpToNul(text) = Text(text) /\ Len(UpToNul(text)) = text.len /\ DOMAIN UpToNul(text) = 1 .. text.len
      /\ UpToNul(sep) = Text(sep) /\ Len(UpToNul(sep)) = sep.len
  <2>1. UpToNul(text) = Text(text) /\ UpToNul(text) \in Seq(Nat) /\ Len(UpToNul(text)) = text.len
    BY UpToNulIs
  <2>2. UpToNul(sep) = Text(sep) /\ Len(UpToNul(sep)) = sep.len
    BY UpToNulIs
  <2> QED
    BY <2>1, <2>2, LenProperties
<1>2. \A a, b : Cardinality({a, b}) = 1 <=> a = b
  <2> SUFFICES ASSUME NEW a, NEW b PROVE Cardinality({a, b}) = 1 <=> a = b
    OBVIOUS
  <2>1. IsFiniteSet({a, b})
    <3>1. IsFiniteSet({a} \cup {b})
      BY FS_Singleton, FS_AddElement
    <3>2. {a} \cup {b} = {a, b}
      OBVIOUS
    <3> QED
      BY <3>1, <3>2
  <2>2. Cardinality({a, b}) = 1 <=> \E v : {a, b} = {v}
    BY <2>1, FS_Singleton
  <2> QED
    BY <2>2
<1>3. \A a, b : Lower(a) = Lower(b) <=> {a, b} \subseteq {1, 2} \/ Cardinality({a, b}) = 1
  <2> SUFFICES ASSUME NEW a, NEW b PROVE Lower(a) = Lower(b) <=> {a, b} \subseteq {1, 2} \/ a = b
    BY <1>2
  <2> QED
    BY DEF Lower
<1>4. EqualsCaseInsensitive(text, sep) <=>
        text.len = sep.len /\ \A i \in 1 .. text.len : Lower(Text(text)[i]) = Lower(Text(sep)[i])
  BY <1>1 DEF EqualsCaseInsensitive
<1> QED
  BY <1>3, <1>4

LEMMA Agreed == ASSUME IsSlice(text), IsSlice(sep) PROVE SearchesAgree
<1>1. ASSUME sep.len > 0
      PROVE  /\ CountSlice(text, sep) = 0 <=> FindSliceFrom(text, 0, sep) = NotFound
             /\ StartsWith(text, sep) <=> FindSliceFrom(text, 0, sep) = MakeRange(0, sep.len)
             /\ text.len > 0 =>
                   CountSlice(text, sep) = CountSlice(Prefix(text.len - 1), sep)
                                           + (IF EndsWith(text, sep) THEN 1 ELSE 0)
  BY <1>1, CountsAgree, CountGrows
<1>2. ASSUME NEW i \in 1 .. text.len
      PROVE  LET c == Text(text)[i]
                 first == FindCharFrom(text, 0, c)
             IN  first # NoIndex /\ first < i /\ RfindChar(text, c) >= i - 1
  BY BytesFound
<1>3. ASSUME Terminated(text), Terminated(sep)
      PROVE  EqualsCaseInsensitive(text, sep) <=>
               /\ text.len = sep.len
               /\ \A i \in 1 .. text.len :
                     LET pair == {Text(text)[i], Text(sep)[i]} IN
                     pair \subseteq {1, 2} \/ Cardinality(pair) = 1
  BY <1>3, CaseIgnored
<1> QED
  BY <1>1, <1>2, <1>3 DEF SearchesAgree

-----------------------------------------------------------------------------
(* Replacing.                                                              *)

\* A window that lies in its memory, whatever bytes are there.
InMemory(x) == /\ x.mem \in Seq(Nat) /\ x.at \in Nat /\ x.len \in Nat
               /\ x.at + x.len <= Len(x.mem)

ByteOf(x, i) == At(x.mem, x.at + i)

LEMMA SliceInMemory == ASSUME NEW x, IsSlice(x) PROVE InMemory(x)
<1>1. x.mem \in Seq(Nat) /\ x.at \in Nat /\ x.len \in Nat /\ x.at + x.len < Len(x.mem) /\ Len(x.mem) \in Nat
  BY SliceBytes
<1> QED
  BY <1>1 DEF InMemory

LEMMA TextIs ==
    ASSUME NEW x, InMemory(x)
    PROVE  /\ Text(x) \in Seq(Nat) /\ Len(Text(x)) = x.len
           /\ \A i \in 1 .. x.len : Text(x)[i] = ByteOf(x, i - 1)
<1>1. x.mem \in Seq(Nat) /\ x.at \in Nat /\ x.len \in Nat /\ x.at + x.len <= Len(x.mem)
  BY DEF InMemory
<1> QED
  BY <1>1, BytesAre DEF Text, EndOf, ByteOf

\* Windows that show the same bytes.
LEMMA EqualsIs ==
    ASSUME NEW x, NEW y, InMemory(x), InMemory(y), x.len = y.len
    PROVE  Equals(x, y) <=> \A i \in 0 .. x.len - 1 : ByteOf(x, i) = ByteOf(y, i)
<1>1. Equals(x, y) <=> Text(x) = Text(y)
  BY DEF Equals, SameBytes, Text, EndOf
<1>2. /\ Text(x) \in Seq(Nat) /\ Len(Text(x)) = x.len /\ \A i \in 1 .. x.len : Text(x)[i] = ByteOf(x, i - 1)
      /\ Text(y) \in Seq(Nat) /\ Len(Text(y)) = x.len /\ \A i \in 1 .. x.len : Text(y)[i] = ByteOf(y, i - 1)
  BY TextIs
<1>3. x.len \in Nat
  BY DEF InMemory
<1>4. Text(x) = Text(y) <=> \A i \in 1 .. x.len : Text(x)[i] = Text(y)[i]
  BY <1>2, SeqEqual
<1>5. ASSUME Text(x) = Text(y), NEW i \in 0 .. x.len - 1 PROVE ByteOf(x, i) = ByteOf(y, i)
  <2>1. i + 1 \in 1 .. x.len /\ (i + 1) - 1 = i
    BY <1>3
  <2> QED
    BY <1>2, <1>5, <2>1
<1>6. ASSUME \A i \in 0 .. x.len - 1 : ByteOf(x, i) = ByteOf(y, i), NEW i \in 1 .. x.len
      PROVE  Text(x)[i] = Text(y)[i]
  <2>1. i - 1 \in 0 .. x.len - 1
    BY <1>3
  <2> QED
    BY <1>2, <1>6, <2>1
<1> QED
  BY <1>1, <1>4, <1>5, <1>6

\* A string of its own shows its text.
LEMMA CStringIs ==
    ASSUME NEW w \in Seq(Nat)
    PROVE  /\ InMemory(CString(w)) /\ CString(w).len = Len(w)
           /\ \A i \in 0 .. Len(w) - 1 : ByteOf(CString(w), i) = w[i + 1]
           /\ Text(CString(w)) = w
<1> DEFINE x == CString(w)
<1>1. x.mem = w \o <<Nul>> /\ x.at = 0 /\ x.len = Len(w) /\ Len(w) \in Nat
  BY DEF CString
<1>2. <<Nul>> \in Seq(Nat) /\ Len(<<Nul>>) = 1
  BY DEF Nul
<1>3. /\ w \o <<Nul>> \in Seq(Nat) /\ Len(w \o <<Nul>>) = Len(w) + 1
      /\ \A i \in 1 .. Len(w) : (w \o <<Nul>>)[i] = w[i]
  BY <1>1, <1>2, ConcatProperties
<1>4. InMemory(x)
  BY <1>1, <1>3 DEF InMemory
<1>5. ASSUME NEW i \in 0 .. Len(w) - 1 PROVE ByteOf(x, i) = w[i + 1]
  <2>1. i + 1 \in 1 .. Len(w) /\ 0 + i + 1 = i + 1
    BY <1>1
  <2> QED
    BY <1>1, <1>3, <2>1 DEF ByteOf, At
<1>6. Text(x) \in Seq(Nat) /\ Len(Text(x)) = Len(w) /\ \A i \in 1 .. Len(w) : Text(x)[i] = ByteOf(x, i - 1)
  BY <1>1, <1>4, TextIs
<1>7. ASSUME NEW i \in 1 .. Len(w) PROVE Text(x)[i] = w[i]
  <2>1. i - 1 \in 0 .. Len(w) - 1 /\ (i - 1) + 1 = i
    BY <1>1
  <2> QED
    BY <1>5, <1>6, <2>1
<1>8. Text(x) = w
  BY <1>6, <1>7, SeqEqual
<1> QED
  BY <1>1, <1>4, <1>5, <1>8

IsJoined(w, A, B, C) ==
    /\ w \in Seq(Nat) /\ Len(w) = Len(A) + Len(B) + Len(C)
    /\ \A i \in 0 .. Len(A) - 1 : w[i + 1] = A[i + 1]
    /\ \A i \in 0 .. Len(B) - 1 : w[Len(A) + i + 1] = B[i + 1]
    /\ \A i \in 0 .. Len(C) - 1 : w[Len(A) + Len(B) + i + 1] = C[i + 1]

LEMMA ThreeParts ==
    ASSUME NEW A \in Seq(Nat), NEW B \in Seq(Nat), NEW C \in Seq(Nat),
           NEW w, w = A \o B \o C
    PROVE  IsJoined(w, A, B, C)
<1> PICK a \in Nat, b \in Nat, c \in Nat : Len(A) = a /\ Len(B) = b /\ Len(C) = c
  OBVIOUS
<1>1. /\ A \o B \in Seq(Nat) /\ Len(A \o B) = a + b
      /\ \A i \in 1 .. a + b : (A \o B)[i] = IF i <= a THEN A[i] ELSE B[i - a]
  BY ConcatProperties
<1>2. /\ w \in Seq(Nat) /\ Len(w) = a + b + c
      /\ \A i \in 1 .. a + b + c : w[i] = IF i <= a + b THEN (A \o B)[i] ELSE C[i - (a + b)]
  <2> DEFINE AB == A \o B
  <2>1. AB \in Seq(Nat) /\ Len(AB) = a + b
    BY <1>1
  <2>2. w = AB \o C
    OBVIOUS
  <2> HIDE DEF AB
  <2>3. /\ AB \o C \in Seq(Nat) /\ Len(AB \o C) = Len(AB) + Len(C)
        /\ \A i \in 1 .. Len(AB) + Len(C) : (AB \o C)[i] = IF i <= Len(AB) THEN AB[i] ELSE C[i - Len(AB)]
    <3>1. AB \in Seq(Nat) /\ C \in Seq(Nat)
      BY <2>1
    <3> QED
      BY ONLY <3>1, ConcatProperties, Zenon
  <2>4. /\ w \in Seq(Nat) /\ Len(w) = a + b + c
        /\ \A i \in 1 .. a + b + c : w[i] = IF i <= a + b THEN AB[i] ELSE C[i - (a + b)]
    BY <2>1, <2>2, <2>3
  <2> QED
    BY <2>4 DEF AB
<1>3. ASSUME NEW i \in 0 .. a - 1 PROVE w[i + 1] = A[i + 1]
  <2>1. i + 1 \in 1 .. a + b + c /\ i + 1 <= a + b /\ i + 1 \in 1 .. a + b /\ i + 1 <= a
    OBVIOUS
  <2> QED
    BY <1>1, <1>2, <2>1
<1>4. ASSUME NEW i \in 0 .. b - 1 PROVE w[a + i + 1] = B[i + 1]
  <2>1. /\ a + i + 1 \in 1 .. a + b + c /\ a + i + 1 <= a + b /\ a + i + 1 \in 1 .. a + b
        /\ ~(a + i + 1 <= a) /\ (a + i + 1) - a = i + 1
    OBVIOUS
  <2>2. w[a + i + 1] = (A \o B)[a + i + 1] /\ (A \o B)[a + i + 1] = B[(a + i + 1) - a]
    <3>1. PICK j : j = a + i + 1
      OBVIOUS
    <3>2. j \in 1 .. a + b + c /\ j <= a + b /\ j \in 1 .. a + b /\ ~(j <= a)
      BY <2>1, <3>1, Zenon
    <3>3. w[j] = (A \o B)[j]
      BY <1>2, <3>2, Zenon
    <3>4. (A \o B)[j] = B[j - a]
      BY <1>1, <3>2, Zenon
    <3> QED
      BY <3>1, <3>3, <3>4, Zenon
  <2> QED
    BY <2>1, <2>2
<1>5. ASSUME NEW i \in 0 .. c - 1 PROVE w[a + b + i + 1] = C[i + 1]
  <2>1. /\ a + b + i + 1 \in 1 .. a + b + c /\ ~(a + b + i + 1 <= a + b)
        /\ a + b + i + 1 - (a + b) = i + 1
    OBVIOUS
  <2>2. w[a + b + i + 1] = C[a + b + i + 1 - (a + b)]
    BY <1>2, <2>1
  <2> QED
    BY <2>1, <2>2
<1> QED
  BY <1>2, <1>3, <1>4, <1>5 DEF IsJoined

\* What replaceInRange() makes of x, byte by byte: n bytes are behind the range.
Replaced(y, x, r, from, len, n) ==
    /\ InMemory(y) /\ y.len = from + r.len + n
    /\ \A i \in 0 .. from - 1 : ByteOf(y, i) = ByteOf(x, i)
    /\ \A i \in 0 .. r.len - 1 : ByteOf(y, from + i) = ByteOf(r, i)
    /\ \A i \in 0 .. n - 1 : ByteOf(y, from + r.len + i) = ByteOf(x, from + len + i)

LEMMA ReplaceIs ==
    ASSUME NEW x, NEW r, InMemory(x), InMemory(r),
           NEW from \in Nat, NEW len \in Nat, NEW n \in Nat, x.len = from + len + n,
           NEW y, y = ReplaceInRange(x, MakeRange(from, len), r)
    PROVE  Replaced(y, x, r, from, len, n)
<1>1. PICK m \in Nat : m = r.len
  BY DEF InMemory
<1>2. PICK at \in Nat : at = x.at
  BY DEF InMemory
<1> DEFINE A == Bytes(x.mem, at, at + from)
           B == Text(r)
           to == at + from + len
           C == Bytes(x.mem, to, to + n)
<1>3. PICK l \in Nat : l = Len(x.mem) /\ at + (from + len + n) <= l /\ x.mem \in Seq(Nat)
  BY <1>2 DEF InMemory
<1>4. A \in Seq(Nat) /\ Len(A) = from /\ \A i \in 1 .. from : A[i] = At(x.mem, at + (i - 1))
  <2>1. at + from <= l
    BY <1>3
  <2> QED
    BY <1>3, <2>1, BytesAre
<1>5. B \in Seq(Nat) /\ Len(B) = m /\ \A i \in 1 .. m : B[i] = ByteOf(r, i - 1)
  BY <1>1, TextIs
<1>6. C \in Seq(Nat) /\ Len(C) = n /\ \A i \in 1 .. n : C[i] = At(x.mem, to + (i - 1))
  <2>1. to + n <= l /\ to \in Nat
    BY <1>3
  <2> QED
    BY <1>3, <2>1, BytesAre
<1>7. PICK w : w = A \o B \o C
  OBVIOUS
<1>8. y = CString(w)
  <2>1. MakeRange(from, len).location = from /\ MakeRange(from, len).length = len
    BY DEF MakeRange
  <2>2. EndOf(x) = to + n
    BY <1>2 DEF EndOf
  <2> QED
    BY <1>2, <1>7, <2>1, <2>2 DEF ReplaceInRange
<1> HIDE DEF A, B, C, to
<1>9. /\ w \in Seq(Nat) /\ Len(w) = from + m + n
      /\ \A i \in 0 .. from - 1 : w[i + 1] = A[i + 1]
      /\ \A i \in 0 .. m - 1 : w[from + i + 1] = B[i + 1]
      /\ \A i \in 0 .. n - 1 : w[from + m + i + 1] = C[i + 1]
  <2>1. /\ A \in Seq(Nat) /\ B \in Seq(Nat) /\ C \in Seq(Nat)
        /\ Len(A) = from /\ Len(B) = m /\ Len(C) = n
    BY <1>4, <1>5, <1>6
  <2>2. IsJoined(w, A, B, C)
    BY <2>1, <1>7, ThreeParts
  <2> QED
    BY <2>1, <2>2 DEF IsJoined
<1>10. InMemory(y) /\ y.len = from + m + n /\ \A i \in 0 .. from + m + n - 1 : ByteOf(y, i) = w[i + 1]
  <2>1. /\ InMemory(CString(w)) /\ CString(w).len = Len(w)
        /\ \A i \in 0 .. Len(w) - 1 : ByteOf(CString(w), i) = w[i + 1]
    BY <1>9, CStringIs
  <2> QED
    BY <1>8, <1>9, <2>1
<1>11. ASSUME NEW i \in 0 .. from - 1 PROVE ByteOf(y, i) = ByteOf(x, i)
  <2>1. i \in 0 .. from + m + n - 1 /\ i + 1 \in 1 .. from /\ (i + 1) - 1 = i
    OBVIOUS
  <2> QED
    BY <1>2, <1>4, <1>9, <1>10, <2>1, SMTT(40) DEF ByteOf
<1>12. ASSUME NEW i \in 0 .. m - 1 PROVE ByteOf(y, from + i) = ByteOf(r, i)
  <2>1. from + i \in 0 .. from + m + n - 1 /\ i + 1 \in 1 .. m /\ (i + 1) - 1 = i
    OBVIOUS
  <2> QED
    BY <1>5, <1>9, <1>10, <2>1
<1>13. ASSUME NEW i \in 0 .. n - 1
       PROVE  ByteOf(y, from + m + i) = ByteOf(x, from + len + i)
  <2>1. /\ from + m + i \in 0 .. from + m + n - 1 /\ i + 1 \in 1 .. n
        /\ to + ((i + 1) - 1) = at + (from + len + i)
    BY DEF to
  <2>2. C[i + 1] = At(x.mem, to + ((i + 1) - 1))
    BY <1>6, <2>1
  <2>3. ByteOf(y, from + m + i) = C[i + 1]
    BY <1>9, <1>10, <2>1
  <2> QED
    BY <1>2, <2>1, <2>2, <2>3 DEF ByteOf
<1> QED
  BY <1>1, <1>10, <1>11, <1>12, <1>13 DEF Replaced

LEMMA Undone == ASSUME IsSlice(text), IsSlice(sep) PROVE ReplaceUndone
<1> SUFFICES
      ASSUME NEW from \in 0 .. text.len, NEW len \in 0 .. text.len - from,
             NEW cut, cut = Subslice(SubsliceFrom(text, IF from < text.len THEN from - text.len ELSE from), 0, len),
             NEW new, new = ReplaceInRange(text, MakeRange(from, len), sep),
             NEW old, old = ReplaceInRange(new, MakeRange(from, sep.len), cut)
      PROVE  new.len = text.len - len + sep.len /\ Equals(old, text)
  BY DEF ReplaceUndone
<1>1. InMemory(text) /\ InMemory(sep)
  BY SliceInMemory
<1>2. PICK l \in Nat : l = text.len
  BY <1>1 DEF InMemory
<1>3. PICK at \in Nat : at = text.at
  BY <1>1 DEF InMemory
<1>4. from \in Nat /\ len \in Nat /\ from + len <= l
  BY <1>2
<1>5. PICK n \in Nat : n = l - from - len
  BY <1>4
<1>6. l = from + len + n
  BY <1>4, <1>5
<1>7. PICK m \in Nat : m = sep.len
  BY <1>1 DEF InMemory
<1>8. cut.mem = text.mem /\ cut.at = at + from /\ cut.len = len
  <2>1. CASE from < l
    <3>1. from - l < 0 /\ l + (from - l) = from
      BY <1>4, <2>1
    <3>2. cut.mem = text.mem /\ cut.at = at + from + 0 /\ cut.len = len
      BY <1>2, <1>3, <2>1, <3>1 DEF Subslice, SubsliceFrom, Window
    <3> QED
      BY <1>4, <3>2
  <2>2. CASE from >= l
    <3>1. ~(from < l) /\ ~(from < 0)
      BY <1>4, <2>2
    <3>2. cut.mem = text.mem /\ cut.at = at + from + 0 /\ cut.len = len
      BY <1>2, <1>3, <3>1 DEF Subslice, SubsliceFrom, Window
    <3> QED
      BY <1>4, <3>2
  <2> QED
    BY <1>4, <2>1, <2>2
<1>9. InMemory(cut) /\ \A i \in 0 .. len - 1 : ByteOf(cut, i) = ByteOf(text, from + i)
  <2>1. at + l <= Len(text.mem) /\ Len(text.mem) \in Nat /\ text.mem \in Seq(Nat)
    BY <1>1, <1>2, <1>3 DEF InMemory
  <2>2. at + from + len <= Len(text.mem) /\ at + from \in Nat
    BY <1>4, <2>1
  <2>3. \A i \in 0 .. len - 1 : at + from + i = at + (from + i)
    BY <1>4
  <2> QED
    BY <1>3, <1>4, <1>8, <2>1, <2>2, <2>3 DEF InMemory, ByteOf
<1>10. /\ InMemory(new) /\ new.len = from + m + n
       /\ \A i \in 0 .. from - 1 : ByteOf(new, i) = ByteOf(text, i)
       /\ \A i \in 0 .. n - 1 : ByteOf(new, from + m + i) = ByteOf(text, from + len + i)
  <2>1. text.len = from + len + n
    BY <1>2, <1>6
  <2>2. Replaced(new, text, sep, from, len, n)
    BY <1>1, <1>4, <2>1, ReplaceIs
  <2> QED
    BY <1>7, <2>2 DEF Replaced
<1>11. /\ InMemory(old) /\ old.len = from + len + n
       /\ \A i \in 0 .. from - 1 : ByteOf(old, i) = ByteOf(new, i)
       /\ \A i \in 0 .. len - 1 : ByteOf(old, from + i) = ByteOf(cut, i)
       /\ \A i \in 0 .. n - 1 : ByteOf(old, from + len + i) = ByteOf(new, from + m + i)
  <2>1. new.len = from + m + n /\ old = ReplaceInRange(new, MakeRange(from, m), cut)
    BY <1>7, <1>10
  <2>2. Replaced(old, new, cut, from, m, n)
    BY <1>4, <1>9, <1>10, <2>1, ReplaceIs
  <2> QED
    BY <1>8, <2>2 DEF Replaced
<1>12. ASSUME NEW i \in 0 .. l - 1 PROVE ByteOf(old, i) = ByteOf(text, i)
  <2>1. CASE i < from
    BY <1>10, <1>11, <2>1
  <2>2. CASE i >= from /\ i < from + len
    <3>1. i - from \in 0 .. len - 1 /\ from + (i - from) = i
      BY <1>4, <2>2
    <3> QED
      BY <1>9, <1>11, <3>1
  <2>3. CASE i >= from + len
    <3> DEFINE k == i - from - len
    <3>1. k \in 0 .. n - 1 /\ from + len + k = i
      BY <1>4, <1>6, <2>3
    <3> HIDE DEF k
    <3>2. ByteOf(old, from + len + k) = ByteOf(text, from + len + k)
      BY <1>10, <1>11, <3>1
    <3> QED
      BY <3>1, <3>2
  <2> QED
    BY <1>4, <2>1, <2>2, <2>3
<1>13. Equals(old, text)
  <2>1. old.len = l /\ old.len = text.len
    BY <1>2, <1>6, <1>11
  <2> QED
    BY <1>1, <1>11, <1>12, <2>1, EqualsIs
<1>14. new.len = text.len - len + sep.len
  BY <1>2, <1>4, <1>6, <1>7, <1>10
<1> QED
  BY <1>13, <1>14

-----------------------------------------------------------------------------
(* The iterators: one search.                                              *)

\* An empty r is found at the first place that has the byte behind it.
LEMMA StrstrOfEmpty ==
    ASSUME NEW x, NEW r, IsSlice(x), IsSlice(r), r.len = 0, NEW a \in x.at .. EndOf(x), NEW q,
           q = Strstr(x.mem, a, EndOf(x), r)
    PROVE  q \in a .. EndOf(x) /\ q \in Found(x, r)
<1> DEFINE e == EndOf(x)
           Q(p) == Strchr(x.mem, p, e, At(r.mem, r.at))
           Turn(g, p) == IF e - Q(p) < r.len THEN e
                         ELSE IF StrncmpIsZero(x.mem, Q(p), e, r.mem, r.at, r.len) THEN Q(p)
                         ELSE g[Q(p) + 1]
           from == CHOOSE g : g = [p \in a .. e |-> Turn(g, p)]
           answer == [p \in a .. e |-> Q(p)]
<1>1. x.at \in Nat /\ e \in Nat
  BY SliceBytes
<1>2. \A p \in a .. e : Q(p) \in p .. e
  <2> SUFFICES ASSUME NEW p \in a .. e PROVE Q(p) \in p .. e
    OBVIOUS
  <2>1. p \in 0 .. e
    BY <1>1
  <2> QED
    BY <1>1, <2>1, StrchrIs
<1>3. \A p \in a .. e : Q(p) \in x.at .. e /\ Q(p) + r.len <= e /\ ~(e - Q(p) < r.len)
  BY <1>1, <1>2
<1>4. \A p \in a .. e : StrncmpIsZero(x.mem, Q(p), e, r.mem, r.at, r.len)
  <2> SUFFICES ASSUME NEW p \in a .. e PROVE StrncmpIsZero(x.mem, Q(p), e, r.mem, r.at, r.len)
    OBVIOUS
  <2>1. Same(x.mem, Q(p), r)
    BY DEF Same
  <2> QED
    BY <1>3, <2>1, ComparesAll
<1> HIDE DEF Q
<1>5. answer = [p \in a .. e |-> Turn(answer, p)]
  BY <1>3, <1>4
<1>6. from = [p \in a .. e |-> Turn(from, p)]
  BY <1>5
<1> HIDE DEF from
<1>7. a \in a .. e
  BY <1>1
<1>8. from[a] = Q(a)
  <2>1. from[a] = Turn(from, a)
    BY <1>6, <1>7
  <2> QED
    BY <1>3, <1>4, <1>7, <2>1
<1>9. q = from[a]
  BY DEF Strstr, from, Q
<1> QED
  BY <1>2, <1>3, <1>7, <1>8, <1>9 DEF Found, Same

\* What the iterator is told, whatever the separator.
LEMMA SeparatorIs ==
    ASSUME IsSlice(text), IsSlice(sep), NEW a \in text.at .. m_strEnd, NEW q,
           q = Strstr(text.mem, a, m_strEnd, sep)
    PROVE  /\ q \in a .. m_strEnd
           /\ q # m_strEnd => q + sep.len \in a .. m_strEnd /\ Same(text.mem, q, sep)
           /\ q # m_strEnd /\ sep.len > 0 => q + sep.len > a
           /\ sep.len > 0 => \A f \in Found(text, sep) : f >= a => f >= q
<1>1. text.at \in Nat /\ EndOf(text) \in Nat /\ sep.len \in Nat
  BY SliceBytes
<1>2. CASE sep.len > 0
  <2>1. /\ q \in a .. EndOf(text)
        /\ q # EndOf(text) => q \in Found(text, sep)
        /\ \A f \in Found(text, sep) : f >= a => f >= q
    BY <1>2, StrstrIs DEF m_strEnd
  <2> QED
    BY <1>1, <1>2, <2>1 DEF Found, m_strEnd
<1>3. CASE sep.len = 0
  <2>1. q \in a .. EndOf(text) /\ q \in Found(text, sep)
    BY <1>3, StrstrOfEmpty DEF m_strEnd
  <2> QED
    BY <1>1, <1>3, <2>1 DEF Found, m_strEnd
<1> QED
  BY <1>1, <1>2, <1>3

-----------------------------------------------------------------------------
(* join(): the recursion of JoinSlices, and what one more slice adds.      *)

Joint(i, r) == IF i > 1 THEN Text(r) ELSE <<>>

\* f is the text joined so far, for the first n slices.
JoinedUpTo(n, slices, r, f) ==
    /\ f[0] = <<>>
    /\ \A i \in 1 .. n : f[i] = f[i - 1] \o Joint(i, r) \o Text(slices[i])

\* f is what upTo is defined to be in JoinSlices.
IsUpTo(n, slices, r, f) ==
    f = [i \in 0 .. n |-> IF i = 0 THEN <<>>
                          ELSE f[i - 1] \o (IF i > 1 THEN Text(r) ELSE <<>>) \o Text(slices[i])]

LEMMA JoinExists ==
    ASSUME NEW n \in Nat, NEW slices, NEW r
    PROVE  \E f : IsUpTo(n, slices, r, f)
<1> DEFINE Part(i) == (IF i > 1 THEN Text(r) ELSE <<>>)
           Body(f, i) == IF i = 0 THEN <<>> ELSE f[i - 1] \o Part(i) \o Text(slices[i])
           Has(k) == \E f : f = [i \in 0 .. k |-> Body(f, i)]
           S == {k \in 0 .. n : ~Has(k)}
<1>1. Has(0)
  <2> DEFINE f == [i \in 0 .. 0 |-> <<>>]
  <2>1. f = [i \in 0 .. 0 |-> Body(f, i)]
    OBVIOUS
  <2> QED
    BY <2>1
<1>2. ASSUME NEW k \in Nat, Has(k) PROVE Has(k + 1)
  <2>1. PICK f : f = [i \in 0 .. k |-> Body(f, i)]
    BY <1>2
  <2> DEFINE g == [i \in 0 .. k + 1 |-> IF i = k + 1 THEN f[k] \o Part(k + 1) \o Text(slices[k + 1])
                                        ELSE f[i]]
  <2>2. ASSUME NEW i \in 0 .. k + 1 PROVE g[i] = Body(g, i)
    <3>1. CASE i = k + 1
      <4>1. k \in 0 .. k + 1 /\ k # k + 1 /\ (k + 1) - 1 = k /\ k + 1 # 0
        OBVIOUS
      <4>2. g[k] = f[k] /\ g[i] = f[k] \o Part(k + 1) \o Text(slices[k + 1])
        BY <3>1, <4>1
      <4> QED
        BY <3>1, <4>1, <4>2
    <3>2. CASE i \in 0 .. k
      <4>1. g[i] = f[i] /\ f[i] = Body(f, i)
        <5>1. f[i] = Body(f, i)
          BY <2>1, <3>2, Zenon
        <5>2. i # k + 1
          BY <3>2
        <5> QED
          BY <5>1, <5>2
      <4>2. CASE i = 0
        BY <4>1, <4>2
      <4>3. CASE i # 0
        <5>1. i - 1 \in 0 .. k + 1 /\ i - 1 # k + 1
          BY <3>2, <4>3
        <5>2. g[i - 1] = f[i - 1]
          BY <5>1
        <5> QED
          BY <4>1, <4>3, <5>2
      <4> QED
        BY <4>2, <4>3
    <3> QED
      BY <3>1, <3>2
  <2>3. g = [i \in 0 .. k + 1 |-> Body(g, i)]
    BY <2>2
  <2> QED
    BY <2>3
<1> HIDE DEF Has
<1>3. ASSUME S # {} PROVE FALSE
  <2>1. PICK m \in S : \A k \in S : m <= k
    BY <1>3, LeastUpTo
  <2>2. m # 0 /\ m - 1 \in 0 .. n /\ (m - 1) + 1 = m
    BY <1>1, <2>1
  <2>3. m - 1 \notin S
    BY <2>1, <2>2
  <2>4. Has(m - 1)
    BY <2>2, <2>3
  <2> QED
    BY <1>2, <2>1, <2>2, <2>4
<1>4. Has(n)
  BY <1>3
<1> QED
  BY <1>4 DEF Has, IsUpTo

LEMMA JoinIs ==
    ASSUME NEW slices, NEW r, Len(slices) \in Nat
    PROVE  \E f : JoinedUpTo(Len(slices), slices, r, f) /\ JoinSlices(slices, r) = CString(f[Len(slices)])
<1> DEFINE n == Len(slices)
           upTo == CHOOSE f : IsUpTo(n, slices, r, f)
<1>1. \E f : IsUpTo(n, slices, r, f)
  BY JoinExists
<1>2. IsUpTo(n, slices, r, upTo)
  BY <1>1
<1>3. JoinSlices(slices, r) = CString(upTo[n])
  BY DEF JoinSlices, IsUpTo
<1> HIDE DEF upTo
<1>4. JoinedUpTo(n, slices, r, upTo)
  BY <1>2 DEF JoinedUpTo, Joint, IsUpTo
<1> QED
  BY <1>3, <1>4

\* The join of some slices is determined by those slices.
LEMMA JoinUnique ==
    ASSUME NEW n \in Nat, NEW slices, NEW others, NEW r, NEW f, NEW g,
           \A i \in 1 .. n : slices[i] = others[i],
           JoinedUpTo(n, slices, r, f), JoinedUpTo(n, others, r, g)
    PROVE  f[n] = g[n]
<1> DEFINE S == {k \in 0 .. n : f[k] # g[k]}
<1>1. ASSUME S # {} PROVE FALSE
  <2>1. PICK m \in S : \A k \in S : m <= k
    BY <1>1, LeastUpTo
  <2>2. m # 0
    BY <2>1 DEF JoinedUpTo
  <2>3. m \in 1 .. n /\ m - 1 \in 0 .. n /\ ~(m <= m - 1)
    BY <2>1, <2>2
  <2>4. f[m - 1] = g[m - 1]
    BY <2>1, <2>3
  <2> QED
    BY <2>1, <2>3, <2>4 DEF JoinedUpTo
<1> QED
  BY <1>1

-----------------------------------------------------------------------------
(* The text joined, step by step.                                          *)

Ranges == [location : Nat, length : Nat]

LEMMA JoinOfNone == ASSUME pieces = <<>> PROVE Text(JoinSlices(AllPieces, sep)) = <<>>
<1>1. Len(AllPieces) = 0
  <2>1. DOMAIN pieces = {} /\ Len(<<>>) = 0
    BY EmptySeq
  <2>2. AllPieces = <<>>
    BY <2>1 DEF AllPieces
  <2> QED
    BY <2>1, <2>2
<1>2. PICK f : JoinedUpTo(0, AllPieces, sep, f) /\ JoinSlices(AllPieces, sep) = CString(f[0])
  BY <1>1, JoinIs
<1>3. <<>> \in Seq(Nat)
  OBVIOUS
<1> QED
  BY <1>2, <1>3, CStringIs DEF JoinedUpTo

LEMMA AllPiecesAre ==
    ASSUME pieces \in Seq(Ranges)
    PROVE  Len(AllPieces) = Len(pieces) /\ Len(pieces) \in Nat /\ \A i \in 1 .. Len(pieces) : AllPieces[i] = Piece(i)
<1>1. DOMAIN pieces = 1 .. Len(pieces) /\ Len(pieces) \in Nat
  BY LenProperties
<1>2. AllPieces = [i \in 1 .. Len(pieces) |-> Piece(i)]
  BY <1>1 DEF AllPieces
<1> QED
  BY <1>1, <1>2

LEMMA WindowInMemory ==
    ASSUME NEW x, IsSlice(x), NEW p \in Nat, NEW n \in Nat, p + n <= x.len
    PROVE  InMemory(Window(x, p, n))
<1>1. /\ x.at \in Nat /\ x.len \in Nat /\ x.mem \in Seq(Nat) /\ Len(x.mem) \in Nat
      /\ EndOf(x) = x.at + x.len /\ EndOf(x) < Len(x.mem)
  BY SliceBytes
<1> QED
  BY <1>1, SMTT(40) DEF Window, InMemory

\* The pieces joined are a text.
LEMMA JoinedText ==
    ASSUME IsSlice(text), IsSlice(sep), pieces \in Seq(Ranges),
           \A i \in DOMAIN pieces : pieces[i].location + pieces[i].length <= text.len
    PROVE  \E f : /\ JoinedUpTo(Len(pieces), AllPieces, sep, f)
                  /\ JoinSlices(AllPieces, sep) = CString(f[Len(pieces)])
                  /\ f[Len(pieces)] \in Seq(Nat)
<1> DEFINE n == Len(pieces)
<1>1. /\ Len(AllPieces) = n /\ n \in Nat /\ DOMAIN pieces = 1 .. n
      /\ \A i \in 1 .. n : AllPieces[i] = Piece(i)
  BY AllPiecesAre, LenProperties
<1>2. Text(sep) \in Seq(Nat)
  BY SliceInMemory, TextIs
<1>3. \A i \in 1 .. n : Text(AllPieces[i]) \in Seq(Nat)
  <2> SUFFICES ASSUME NEW i \in 1 .. n PROVE Text(Piece(i)) \in Seq(Nat)
    BY <1>1
  <2>1. pieces[i] \in Ranges /\ pieces[i].location + pieces[i].length <= text.len
    BY <1>1
  <2> QED
    BY <2>1, WindowInMemory, TextIs DEF Piece, Ranges
<1>4. PICK f : JoinedUpTo(n, AllPieces, sep, f) /\ JoinSlices(AllPieces, sep) = CString(f[n])
  BY <1>1, JoinIs
<1>5. f[n] \in Seq(Nat)
  <2> DEFINE S == {k \in 0 .. n : f[k] \notin Seq(Nat)}
  <2>1. ASSUME S # {} PROVE FALSE
    <3>1. PICK m \in S : \A k \in S : m <= k
      BY <1>1, <2>1, LeastUpTo
    <3>2. m # 0
      <4>1. <<>> \in Seq(Nat)
        OBVIOUS
      <4> QED
        BY <1>4, <3>1, <4>1 DEF JoinedUpTo
    <3>3. m \in 1 .. n /\ m - 1 \in 0 .. n /\ ~(m <= m - 1)
      BY <1>1, <3>1, <3>2
    <3>4. f[m - 1] \in Seq(Nat) /\ Joint(m, sep) \in Seq(Nat) /\ Text(AllPieces[m]) \in Seq(Nat)
      BY <1>2, <1>3, <3>1, <3>3 DEF Joint
    <3>5. f[m] = f[m - 1] \o Joint(m, sep) \o Text(AllPieces[m])
      BY <1>4, <3>3 DEF JoinedUpTo
    <3>6. f[m] \in Seq(Nat)
      BY <3>4, <3>5
    <3> QED
      BY <3>1, <3>6
  <2> QED
    BY <1>1, <2>1
<1> QED
  BY <1>4, <1>5

\* A piece more.
LEMMA JoinOfMore ==
    ASSUME IsSlice(text), IsSlice(sep), pieces \in Seq(Ranges),
           \A i \in DOMAIN pieces : pieces[i].location + pieces[i].length <= text.len,
           NEW range \in Ranges, range.location + range.length <= text.len, pieces' = Append(pieces, range),
           UNCHANGED <<text, sep>>
    PROVE  /\ Text(JoinSlices(AllPieces, sep)) \in Seq(Nat)
           /\ Text(JoinSlices(AllPieces, sep)') =
                Text(JoinSlices(AllPieces, sep)) \o (IF pieces = <<>> THEN <<>> ELSE Text(sep))
                  \o Text(Window(text, range.location, range.length))
<1> DEFINE more == AllPieces'
           n == Len(pieces)
<1>1. /\ Len(AllPieces) = n /\ n \in Nat /\ DOMAIN pieces = 1 .. n
      /\ \A i \in 1 .. n : AllPieces[i] = Piece(i)
  BY AllPiecesAre, LenProperties
<1>2. /\ pieces' \in Seq(Ranges) /\ Len(pieces') = n + 1 /\ pieces'[n + 1] = range
      /\ \A i \in 1 .. n : pieces'[i] = pieces[i]
  BY AppendProperties
<1>3. /\ Len(more) = n + 1 /\ \A i \in 1 .. n : more[i] = AllPieces[i]
      /\ more[n + 1] = Window(text, range.location, range.length)
  <2>1. DOMAIN pieces' = 1 .. n + 1
    BY <1>2, LenProperties
  <2>2. more = [i \in 1 .. n + 1 |-> Window(text, pieces'[i].location, pieces'[i].length)]
    BY <2>1 DEF AllPieces, Piece
  <2>3. \A i \in 1 .. n : i \in 1 .. n + 1
    BY <1>1
  <2> QED
    BY <1>1, <1>2, <2>2, <2>3 DEF Piece
<1>4. PICK f : /\ JoinedUpTo(n, AllPieces, sep, f) /\ JoinSlices(AllPieces, sep) = CString(f[n])
               /\ f[n] \in Seq(Nat)
  BY JoinedText
<1>5. PICK g : JoinedUpTo(n + 1, more, sep, g) /\ JoinSlices(more, sep) = CString(g[n + 1])
  <2>1. Len(more) \in Nat
    BY <1>1, <1>3
  <2>2. \E g : JoinedUpTo(Len(more), more, sep, g) /\ JoinSlices(more, sep) = CString(g[Len(more)])
    BY <2>1, JoinIs
  <2> QED
    BY <1>3, <2>2
<1> HIDE DEF more
<1>6. f[n] = g[n]
  <2>1. JoinedUpTo(n, more, sep, g)
    <3>1. \A i \in 1 .. n : i \in 1 .. n + 1
      BY <1>1
    <3> QED
      BY <1>5, <3>1 DEF JoinedUpTo
  <2> QED
    BY <1>1, <1>3, <1>4, <2>1, JoinUnique
<1>7. g[n + 1] = f[n] \o (IF pieces = <<>> THEN <<>> ELSE Text(sep))
                      \o Text(Window(text, range.location, range.length))
  <2>1. n + 1 \in 1 .. n + 1 /\ (n + 1) - 1 = n /\ (n + 1 > 1 <=> n # 0)
    BY <1>1
  <2>2. n = 0 <=> pieces = <<>>
    BY EmptySeq
  <2>3. g[n + 1] = g[n] \o Joint(n + 1, sep) \o Text(more[n + 1])
    BY <1>5, <2>1 DEF JoinedUpTo
  <2> QED
    BY <1>3, <1>6, <2>1, <2>2, <2>3 DEF Joint
<1>8. Text(sep) \in Seq(Nat)
  BY SliceInMemory, TextIs
<1>9. Text(Window(text, range.location, range.length)) \in Seq(Nat)
  BY WindowInMemory, TextIs DEF Ranges
<1>10. g[n + 1] \in Seq(Nat)
  BY <1>4, <1>7, <1>8, <1>9
<1>11. Text(JoinSlices(AllPieces, sep)) = f[n] /\ Text(JoinSlices(more, sep)) = g[n + 1]
  BY <1>4, <1>5, <1>10, CStringIs
<1>12. JoinSlices(AllPieces, sep)' = JoinSlices(more, sep)
  BY DEF more
<1> QED
  BY <1>4, <1>7, <1>11, <1>12

-----------------------------------------------------------------------------
(* The invariant.                                                          *)

Given == /\ IsSlice(text) /\ IsSlice(sep)
         /\ tokens \in BOOLEAN /\ maxNum \in Nat /\ m_foundSep \in BOOLEAN /\ over \in BOOLEAN
         /\ m_str \in text.at .. m_strEnd
         /\ pieces \in Seq(Ranges)
         /\ \A i \in DOMAIN pieces : pieces[i].location + pieces[i].length <= text.len

Joined == Text(JoinSlices(AllPieces, sep))

\* What split() has read so far.
Split ==
    ~tokens =>
        /\ pieces = <<>> => m_str = text.at /\ ~m_foundSep
        /\ pieces # <<>> /\ ~m_foundSep => m_str = m_strEnd
        /\ Parted => m_str = m_strEnd /\ ~m_foundSep
        /\ Joined \in Seq(Nat)
        /\ Joined \o (IF m_foundSep THEN Text(sep) ELSE <<>>) = Bytes(text.mem, text.at, m_str)
        /\ sep.len > 0 => \A i \in DOMAIN pieces : ~Occurs(sep, Piece(i))

\* A piece for each separator that was read, and one more at the end.
SplitCount ==
    ~tokens /\ sep.len > 0 =>
        /\ m_foundSep \/ pieces = <<>> => Len(pieces) <= m_str - text.at
        /\ Len(pieces) <= text.len + 1

LEMMA Started == ASSUME Nul \notin Alphabet, Init PROVE Given /\ Split /\ SplitCount
<1>1. IsSlice(text) /\ IsSlice(sep)
  BY AlphabetAssumption, SlicesAre DEF Init
<1>2. text.at \in Nat /\ text.len \in Nat /\ text.mem \in Seq(Nat) /\ EndOf(text) = text.at + text.len
  BY <1>1, SliceBytes
<1>3. pieces = <<>> /\ pieces \in Seq(Ranges) /\ DOMAIN pieces = {} /\ Len(pieces) = 0
  BY EmptySeq DEF Init
<1>4. m_str \in text.at .. m_strEnd
  BY <1>2 DEF Init, m_strEnd
<1>5. Given
  BY <1>1, <1>3, <1>4, LimitsAssumption DEF Init, Given
<1>6. Joined = <<>>
  BY <1>3, JoinOfNone DEF Joined
<1>7. Bytes(text.mem, text.at, text.at) = <<>>
  BY <1>2, SubSeqEmpty DEF Bytes
<1>8. <<>> \in Seq(Nat) /\ <<>> \o <<>> = <<>>
  OBVIOUS
<1>9. Split
  BY <1>3, <1>6, <1>7, <1>8 DEF Split, Init, Parted
<1>10. SplitCount
  BY <1>2, <1>3 DEF SplitCount, Init
<1> QED
  BY <1>5, <1>9, <1>10

\* What next() of StringSubsliceIter does, in the terms of the proof.
LEMMA SubsliceStep ==
    ASSUME Given, ~tokens, NextSubslice, UNCHANGED <<text, sep, tokens, maxNum, over>>,
           NEW q, q = Strstr(text.mem, m_str, m_strEnd, sep)
    PROVE  /\ q \in m_str .. m_strEnd /\ m_str \in Nat /\ m_strEnd \in Nat /\ text.at \in Nat
           /\ m_strEnd = text.at + text.len /\ text.len \in Nat /\ sep.len \in Nat
           /\ MakeRange(m_str - text.at, q - m_str) \in Ranges
           /\ pieces' = Append(pieces, MakeRange(m_str - text.at, q - m_str))
           /\ q = m_strEnd => m_str' = q /\ m_foundSep' = FALSE
           /\ q # m_strEnd => m_str' = q + sep.len /\ m_foundSep' = TRUE
           /\ m_str' \in m_str .. m_strEnd
           /\ sep.len > 0 /\ q # m_strEnd => m_str' > m_str
<1>1. text.at \in Nat /\ text.len \in Nat /\ sep.len \in Nat /\ m_strEnd = text.at + text.len
  BY SliceBytes DEF Given, m_strEnd
<1>2. m_str \in text.at .. m_strEnd /\ m_str \in Nat /\ m_strEnd \in Nat
  BY <1>1 DEF Given
<1>3. /\ q \in m_str .. m_strEnd
      /\ q # m_strEnd => q + sep.len \in m_str .. m_strEnd
      /\ q # m_strEnd /\ sep.len > 0 => q + sep.len > m_str
  BY <1>2, SeparatorIs DEF Given
<1>4. /\ pieces' = Append(pieces, MakeRange(m_str - text.at, q - m_str))
      /\ m_str' = (IF q # m_strEnd THEN q + sep.len ELSE q)
      /\ m_foundSep' = (q # m_strEnd)
  BY DEF NextSubslice, Give
<1>5. m_str - text.at \in Nat /\ q - m_str \in Nat
  BY <1>1, <1>2, <1>3
<1>6. MakeRange(m_str - text.at, q - m_str) \in Ranges
  BY <1>5 DEF MakeRange, Ranges
<1> QED
  BY <1>1, <1>2, <1>3, <1>4, <1>6

LEMMA SubsliceGiven ==
    ASSUME Given, ~tokens, NextSubslice, UNCHANGED <<text, sep, tokens, maxNum, over>>
    PROVE  Given'
<1> DEFINE q == Strstr(text.mem, m_str, m_strEnd, sep)
           range == MakeRange(m_str - text.at, q - m_str)
<1>1. /\ q \in m_str .. m_strEnd /\ m_str \in Nat /\ m_strEnd \in Nat /\ text.at \in Nat
      /\ m_strEnd = text.at + text.len /\ text.len \in Nat
      /\ range \in Ranges /\ pieces' = Append(pieces, range)
      /\ m_foundSep' \in BOOLEAN /\ m_str' \in m_str .. m_strEnd
  BY SubsliceStep
<1> HIDE DEF q
<1>2. m_strEnd' = m_strEnd /\ m_str \in text.at .. m_strEnd /\ m_str' \in text.at .. m_strEnd
  <2>1. m_strEnd' = m_strEnd /\ m_str \in text.at .. m_strEnd
    BY DEF m_strEnd, EndOf, Given
  <2> QED
    BY <1>1, <2>1
<1>3. range.location + range.length <= text.len
  <2>1. range.location = m_str - text.at /\ range.length = q - m_str
    BY DEF MakeRange
  <2> QED
    BY <1>1, <1>2, <2>1
<1> HIDE DEF range
<1>4. /\ pieces' \in Seq(Ranges) /\ Len(pieces') = Len(pieces) + 1
      /\ \A i \in 1 .. Len(pieces) : pieces'[i] = pieces[i]
      /\ pieces'[Len(pieces) + 1] = range /\ DOMAIN pieces = 1 .. Len(pieces) /\ Len(pieces) \in Nat
  BY <1>1, AppendProperties, LenProperties DEF Given
<1>5. DOMAIN pieces' = 1 .. Len(pieces) + 1
  BY <1>4, LenProperties
<1>6. \A i \in DOMAIN pieces' : pieces'[i].location + pieces'[i].length <= text.len
  BY <1>3, <1>4, <1>5 DEF Given
<1> QED
  BY <1>1, <1>2, <1>4, <1>6 DEF Given

LEMMA SubsliceCount ==
    ASSUME Given, Split, SplitCount, ~tokens, NextSubslice, UNCHANGED <<text, sep, tokens, maxNum, over>>
    PROVE  SplitCount'
<1> SUFFICES ASSUME sep.len > 0
             PROVE  /\ m_foundSep' \/ pieces' = <<>> => Len(pieces') <= m_str' - text.at
                    /\ Len(pieces') <= text.len + 1
  BY DEF SplitCount
<1> DEFINE q == Strstr(text.mem, m_str, m_strEnd, sep)
           range == MakeRange(m_str - text.at, q - m_str)
<1>1. /\ q \in m_str .. m_strEnd /\ m_str \in Nat /\ m_strEnd \in Nat /\ text.at \in Nat
      /\ m_strEnd = text.at + text.len /\ text.len \in Nat
      /\ range \in Ranges /\ pieces' = Append(pieces, range)
      /\ q = m_strEnd => m_str' = q /\ m_foundSep' = FALSE
      /\ m_str' \in m_str .. m_strEnd
      /\ q # m_strEnd => m_str' > m_str
  BY SubsliceStep
<1> HIDE DEF q, range
<1>2. Len(pieces') = Len(pieces) + 1 /\ Len(pieces) \in Nat /\ pieces' # <<>>
  BY <1>1, AppendProperties DEF Given
<1>3. m_foundSep \/ pieces = <<>>
  BY DEF NextSubslice, PieceLeft, Split
<1>4. Len(pieces) <= m_str - text.at
  BY <1>3 DEF SplitCount
<1> QED
  <2>1. CASE q = m_strEnd
    <3>1. m_str' = m_strEnd /\ ~m_foundSep'
      BY <1>1, <2>1
    <3>2. Len(pieces') <= text.len + 1
      BY <1>1, <1>2, <1>4
    <3> QED
      BY <1>2, <3>1, <3>2
  <2>2. CASE q # m_strEnd
    <3>1. m_str' \in m_str + 1 .. m_strEnd
      BY <1>1, <2>2
    <3> QED
      BY <1>1, <1>2, <1>4, <3>1
  <2> QED
    BY <2>1, <2>2

\* Pointers and offsets.
LEMMA PlaceOfPiece ==
    ASSUME NEW at \in Nat, NEW l \in Nat, NEW e, e = at + l, NEW m \in at .. e, NEW q \in m .. e
    PROVE  /\ m - at \in Nat /\ q - m \in Nat /\ at + (m - at) = m /\ q = m + (q - m)
           /\ (m - at) + (q - m) <= l
  OBVIOUS

LEMMA SubsliceSplit ==
    ASSUME Given, Split, ~tokens, ~over, NextSubslice, UNCHANGED <<text, sep, tokens, maxNum, over>>
    PROVE  Split'
<1> DEFINE q == Strstr(text.mem, m_str, m_strEnd, sep)
           location == m_str - text.at
           length == q - m_str
           range == MakeRange(location, length)
           here == Window(text, location, length)
<1>1. /\ q \in m_str .. m_strEnd /\ m_str \in Nat /\ m_strEnd \in Nat /\ text.at \in Nat
      /\ m_strEnd = text.at + text.len /\ text.len \in Nat /\ sep.len \in Nat
      /\ range \in Ranges /\ pieces' = Append(pieces, range)
      /\ q = m_strEnd => m_str' = q /\ m_foundSep' = FALSE
      /\ q # m_strEnd => m_str' = q + sep.len /\ m_foundSep' = TRUE
  BY SubsliceStep
<1>2. /\ IsSlice(text) /\ IsSlice(sep) /\ m_str \in text.at .. m_strEnd /\ pieces \in Seq(Ranges)
      /\ \A i \in DOMAIN pieces : pieces[i].location + pieces[i].length <= text.len
      /\ m_strEnd' = m_strEnd
  BY DEF Given, m_strEnd, EndOf
<1>3. /\ q # m_strEnd => q + sep.len \in m_str .. m_strEnd /\ Same(text.mem, q, sep)
      /\ sep.len > 0 => \A f \in Found(text, sep) : f >= m_str => f >= q
  BY <1>2, SeparatorIs
<1> HIDE DEF q
<1>4. /\ location \in Nat /\ length \in Nat /\ text.at + location = m_str /\ q = m_str + length
      /\ location + length <= text.len
      /\ range.location = location /\ range.length = length
  <2>1. /\ location \in Nat /\ length \in Nat /\ text.at + location = m_str /\ q = m_str + length
        /\ location + length <= text.len
    BY <1>1, <1>2, PlaceOfPiece
  <2> QED
    BY <2>1 DEF MakeRange
<1> HIDE DEF location, length
<1>5. /\ Joined \in Seq(Nat)
      /\ Joined' = Joined \o (IF pieces = <<>> THEN <<>> ELSE Text(sep)) \o Text(here)
  BY <1>1, <1>2, <1>4, JoinOfMore DEF Joined
<1>6. Text(here) \in Seq(Nat) /\ Text(sep) \in Seq(Nat)
  BY <1>2, <1>4, WindowInMemory, SliceInMemory, TextIs
<1>7. Text(here) = Bytes(text.mem, m_str, q)
  <2> QED
    BY <1>4 DEF Text, Window, EndOf
<1>8. Joined \o (IF pieces = <<>> THEN <<>> ELSE Text(sep)) = Bytes(text.mem, text.at, m_str)
  <2>1. CASE pieces = <<>>
    <3>1. m_foundSep = FALSE
      BY <2>1 DEF Split, Given
    <3> QED
      BY <2>1, <3>1 DEF Split
  <2>2. CASE pieces # <<>>
    <3>1. m_foundSep = TRUE
      BY <2>2 DEF Split, NextSubslice, PieceLeft, Given
    <3> QED
      BY <2>2, <3>1 DEF Split
  <2> QED
    BY <2>1, <2>2
<1>9. Joined' = Bytes(text.mem, text.at, q) /\ Joined' \in Seq(Nat)
  <2>1. Bytes(text.mem, text.at, m_str) \o Bytes(text.mem, m_str, q) = Bytes(text.mem, text.at, q)
    <3>1. /\ text.at \in Nat /\ m_str \in Nat /\ q \in Nat /\ text.at <= m_str /\ m_str <= q
          /\ q <= EndOf(text) /\ IsSlice(text)
      BY <1>1, <1>2 DEF m_strEnd
    <3> QED
      BY <3>1, BytesJoin
  <2>2. Joined' = Bytes(text.mem, text.at, q)
    BY <1>5, <1>7, <1>8, <2>1
  <2>3. Joined' \in Seq(Nat)
    BY <1>5, <1>6
  <2> QED
    BY <2>2, <2>3
<1>10. Joined' \o (IF m_foundSep' THEN Text(sep) ELSE <<>>) = Bytes(text.mem, text.at, m_str')
  <2>1. CASE q = m_strEnd
    BY <1>1, <1>9, <2>1
  <2>2. CASE q # m_strEnd
    <3>1. q \in text.at .. m_strEnd /\ q + sep.len <= m_strEnd /\ q + sep.len \in text.at .. m_strEnd
      BY <1>1, <1>2, <1>3, <2>2
    <3>2. Bytes(text.mem, q, q + sep.len) = Text(sep)
      BY <1>2, <1>3, <2>2, <3>1, SameAsBytes DEF m_strEnd
    <3>3. Bytes(text.mem, text.at, q) \o Bytes(text.mem, q, q + sep.len) = Bytes(text.mem, text.at, q + sep.len)
      <4>1. /\ text.at \in Nat /\ q \in Nat /\ q + sep.len \in Nat /\ text.at <= q /\ q <= q + sep.len
            /\ q + sep.len <= EndOf(text) /\ IsSlice(text)
        BY <1>1, <1>2, <3>1 DEF m_strEnd
      <4> QED
        BY <4>1, BytesJoin
    <3> QED
      BY <1>1, <1>9, <2>2, <3>2, <3>3
  <2> QED
    BY <2>1, <2>2
<1>11. /\ Len(pieces') = Len(pieces) + 1 /\ Len(pieces) \in Nat /\ pieces' # <<>>
       /\ DOMAIN pieces = 1 .. Len(pieces) /\ DOMAIN pieces' = 1 .. Len(pieces) + 1
       /\ \A i \in 1 .. Len(pieces) : pieces'[i] = pieces[i]
       /\ pieces'[Len(pieces) + 1] = range
  <2>1. pieces \in Seq(Ranges) /\ range \in Ranges /\ pieces' = Append(pieces, range)
    BY <1>1, <1>2
  <2> HIDE DEF range
  <2> QED
    BY <2>1, AppendProperties, LenProperties
<1>12. ASSUME sep.len > 0, NEW i \in DOMAIN pieces' PROVE ~Occurs(sep, Piece(i)')
  <2>1. CASE i \in DOMAIN pieces
    <3>1. Piece(i)' = Piece(i)
      BY <1>11, <2>1 DEF Piece
    <3> QED
      BY <1>12, <2>1, <3>1 DEF Split
  <2>2. CASE i = Len(pieces) + 1
    <3>1. Piece(i)' = here
      BY <1>4, <1>11, <2>2 DEF Piece
    <3>2. ASSUME NEW p \in 0 .. here.len - sep.len, Text(Window(here, p, sep.len)) = Text(sep)
          PROVE  FALSE
      <4>1. here.len = length
        BY DEF Window
      <4>2. p \in Nat /\ p + sep.len <= length
        BY <1>1, <1>4, <4>1, SMTT(40)
      <4>3. /\ m_str + p \in text.at .. m_strEnd /\ m_str + p + sep.len <= m_strEnd
            /\ m_str + p >= m_str /\ m_str + p < q
        <5>1. m_str \in Nat /\ text.at \in Nat /\ sep.len \in Nat /\ sep.len > 0 /\ text.at <= m_str
          BY <1>1, <1>2, <1>12
        <5>2. length \in Nat /\ q = m_str + length /\ q <= m_strEnd /\ m_strEnd \in Nat
          BY <1>1, <1>4
        <5> QED
          BY <4>2, <5>1, <5>2
      <4>4. Text(Window(here, p, sep.len)) = Bytes(text.mem, m_str + p, m_str + p + sep.len)
        BY <1>4 DEF Text, Window, EndOf
      <4>5. Same(text.mem, m_str + p, sep)
        BY <1>2, <3>2, <4>3, <4>4, SameAsBytes DEF m_strEnd
      <4>6. m_str + p \in Found(text, sep)
        BY <4>3, <4>5 DEF Found, m_strEnd
      <4> QED
        BY <1>1, <1>3, <1>12, <4>2, <4>3, <4>6
    <3> QED
      BY <3>1, <3>2 DEF Occurs
  <2> QED
    BY <1>11, <2>1, <2>2
<1>13. pieces' # <<>> /\ ~m_foundSep' => m_str' = m_strEnd'
  BY <1>1, <1>2
<1>14. ~Parted'
  BY DEF Parted
<1> QED
  BY <1>9, <1>10, <1>11, <1>12, <1>13, <1>14 DEF Split

-----------------------------------------------------------------------------
(* tokenize(): offsets are counted from the beginning of the text.         *)

Other(i) == ~IsSep(At(text.mem, text.at + i))

IsRun(p, q) == /\ p < q
               /\ \A i \in p .. q - 1 : Other(i)
               /\ p > 0 => ~Other(p - 1)
               /\ q < text.len => ~Other(q)

\* Has next() handed out the run from p to q?
HandedOut(p, q) ==
    \E i \in DOMAIN pieces : p = pieces[i].location /\ q = pieces[i].location + pieces[i].length

\* All runs that end where the iterator is or before have been handed out, in
\* order, and nothing else; and the iterator is not inside a run.
Tokens ==
    tokens =>
        LET m == m_str - text.at IN
        /\ m_foundSep = FALSE
        /\ Len(pieces) <= m
        /\ m = 0 \/ m = text.len \/ ~Other(m)
        /\ Parted => m = text.len
        /\ \A i \in DOMAIN pieces :
              pieces[i].length > 0 /\ pieces[i].location + pieces[i].length <= m
        /\ \A i, j \in DOMAIN pieces : i < j => pieces[i].location < pieces[j].location
        /\ \A p, q \in 0 .. text.len : HandedOut(p, q) <=> IsRun(p, q) /\ q <= m

\* Between separators up to a and the end of the next run at b there is one run.
LEMMA OneRun ==
    ASSUME text.len \in Nat, NEW m \in 0 .. text.len, NEW a \in m .. text.len, NEW b \in a + 1 .. text.len,
           m = 0 \/ m = text.len \/ ~Other(m),
           \A i \in m .. a - 1 : ~Other(i), \A i \in a .. b - 1 : Other(i), b < text.len => ~Other(b)
    PROVE  /\ IsRun(a, b)
           /\ \A p, q \in 0 .. text.len : IsRun(p, q) /\ q <= b /\ ~(q <= m) => p = a /\ q = b
<1>1. a > 0 => ~Other(a - 1)
  <2>1. CASE a > m
    <3>1. a - 1 \in m .. a - 1
      BY <2>1
    <3> QED
      BY <3>1
  <2>2. CASE a = m
    <3>1. a \in a .. b - 1
      OBVIOUS
    <3> QED
      BY <2>2, <3>1
  <2> QED
    BY <2>1, <2>2
<1>2. IsRun(a, b)
  BY <1>1 DEF IsRun
<1>3. ASSUME NEW p \in 0 .. text.len, NEW q \in 0 .. text.len, IsRun(p, q), q <= b, ~(q <= m)
      PROVE  p = a /\ q = b
  <2>1. p < q /\ (\A i \in p .. q - 1 : Other(i)) /\ (p > 0 => ~Other(p - 1)) /\ (q < text.len => ~Other(q))
    BY <1>3 DEF IsRun
  <2>2. q - 1 >= a
    <3>1. ASSUME q - 1 < a PROVE FALSE
      <4>1. q - 1 \in m .. a - 1 /\ q - 1 \in p .. q - 1
        BY <1>3, <2>1, <3>1
      <4> QED
        BY <2>1, <4>1
    <3> QED
      BY <3>1
  <2>3. q = b
    <3>1. ASSUME q < b PROVE FALSE
      <4>1. q \in a .. b - 1 /\ q < text.len
        BY <2>2, <3>1
      <4> QED
        BY <2>1, <4>1
    <3> QED
      BY <1>3, <3>1
  <2>4. ~(p < a)
    <3>1. ASSUME p < a PROVE FALSE
      <4>1. a - 1 \in p .. q - 1 /\ a > 0
        BY <2>2, <3>1
      <4> QED
        BY <1>1, <2>1, <4>1
    <3> QED
      BY <3>1
  <2>5. ~(p > a)
    <3>1. ASSUME p > a PROVE FALSE
      <4>1. p - 1 \in a .. b - 1 /\ p > 0
        BY <1>3, <2>1, <3>1
      <4> QED
        BY <2>1, <4>1
    <3> QED
      BY <3>1
  <2> QED
    BY <2>3, <2>4, <2>5
<1> QED
  BY <1>2, <1>3

\* What next() of StringTokenIter looks at: a is where it finds a byte that is
\* no separator.
LEMMA FirstNonSepIs ==
    ASSUME Given, NEW m, m = m_str - text.at
    PROVE  \E a \in m .. text.len :
              /\ m \in 0 .. text.len /\ text.len \in Nat /\ m_str = text.at + m
              /\ FirstNonSep = text.at + a /\ m_strEnd = text.at + text.len
              /\ \A i \in m .. a - 1 : ~Other(i)
              /\ FirstNonSep # m_strEnd <=> a < text.len
              /\ a < text.len => Other(a)
<1> DEFINE S == {p \in m_str .. m_strEnd - 1 : ~IsSep(At(text.mem, p))}
           a == FirstNonSep - text.at
<1>1. PICK at \in Nat, l \in Nat : at = text.at /\ l = text.len /\ m_strEnd = at + l
  BY SliceBytes DEF Given, m_strEnd
<1>2. m_str \in at .. at + l /\ m \in 0 .. l /\ m_str = at + m
  <2>1. m_str \in at .. at + l /\ m = m_str - at
    BY <1>1 DEF Given
  <2> QED
    BY <2>1
<1>3. S \subseteq 0 .. at + l /\ FirstNonSep = FirstOr(S, at + l)
  BY <1>1, <1>2 DEF FirstNonSep
<1>4. /\ FirstNonSep \in 0 .. at + l /\ \A p \in S : FirstNonSep <= p
      /\ FirstNonSep \in S \/ (S = {} /\ FirstNonSep = at + l)
  <2>1. at + l \in Nat
    OBVIOUS
  <2> QED
    BY <1>3, <2>1, FirstOrIs
<1>5. FirstNonSep \in S => FirstNonSep \in m_str .. at + l - 1 /\ ~IsSep(At(text.mem, FirstNonSep))
  BY <1>1
<1>6. \A p \in m_str .. at + l - 1 : p < FirstNonSep => IsSep(At(text.mem, p))
  <2> SUFFICES ASSUME NEW p \in m_str .. at + l - 1, p < FirstNonSep, ~IsSep(At(text.mem, p)) PROVE FALSE
    OBVIOUS
  <2>1. p \in S
    BY <1>1
  <2> QED
    BY <1>2, <1>4, <2>1
<1> HIDE DEF S
<1>7. a \in m .. l /\ FirstNonSep = at + a
  BY <1>1, <1>2, <1>4, <1>5
<1> HIDE DEF a
<1>8. FirstNonSep # m_strEnd <=> a < l
  BY <1>1, <1>7
<1>9. a < l => Other(a)
  BY <1>1, <1>4, <1>5, <1>7 DEF Other
<1>10. ASSUME NEW i \in m .. a - 1 PROVE ~Other(i)
  <2>1. at + i \in m_str .. at + l - 1 /\ at + i < FirstNonSep
    BY <1>2, <1>7
  <2> QED
    BY <1>1, <1>6, <2>1 DEF Other
<1> QED
  BY <1>1, <1>2, <1>7, <1>8, <1>9, <1>10

LEMMA TokenStep ==
    ASSUME Given, NextToken, NEW m, m = m_str - text.at
    PROVE  \E a \in m .. text.len : \E b \in a + 1 .. text.len :
              /\ m \in 0 .. text.len /\ text.len \in Nat
              /\ \A i \in m .. a - 1 : ~Other(i)
              /\ \A i \in a .. b - 1 : Other(i)
              /\ b < text.len => ~Other(b)
              /\ pieces' = Append(pieces, MakeRange(a, b - a))
              /\ m_str' = text.at + b /\ m_foundSep' = m_foundSep
<1>1. PICK a \in m .. text.len :
        /\ m \in 0 .. text.len /\ text.len \in Nat /\ m_str = text.at + m
        /\ FirstNonSep = text.at + a /\ m_strEnd = text.at + text.len
        /\ \A i \in m .. a - 1 : ~Other(i)
        /\ FirstNonSep # m_strEnd <=> a < text.len
        /\ a < text.len => Other(a)
  BY FirstNonSepIs
<1>2. PICK at \in Nat, l \in Nat : at = text.at /\ l = text.len
  BY <1>1, SliceBytes DEF Given
<1>3. a \in 0 .. l /\ a < l
  BY <1>1, <1>2 DEF NextToken
<1> DEFINE S == {p \in FirstNonSep + 1 .. m_strEnd - 1 : IsSep(At(text.mem, p))}
           end == FirstOr(S, m_strEnd)
           b == end - at
<1>4. FirstNonSep = at + a /\ m_strEnd = at + l /\ at + l \in Nat
  BY <1>1, <1>2
<1>5. S \subseteq 0 .. at + l
  BY <1>3, <1>4
<1>6. end \in 0 .. at + l /\ (\A p \in S : end <= p) /\ (end \in S \/ (S = {} /\ end = at + l))
  BY <1>4, <1>5, FirstOrIs
<1>7. end \in S => end \in at + a + 1 .. at + l - 1 /\ IsSep(At(text.mem, end))
  BY <1>4
<1>8. \A p \in at + a + 1 .. at + l - 1 : p < end => ~IsSep(At(text.mem, p))
  <2> SUFFICES ASSUME NEW p \in at + a + 1 .. at + l - 1, p < end, IsSep(At(text.mem, p)) PROVE FALSE
    OBVIOUS
  <2>1. p \in S
    BY <1>4
  <2> QED
    BY <1>3, <1>6, <2>1
<1>9. pieces' = Append(pieces, MakeRange(FirstNonSep - at, end - FirstNonSep)) /\ m_str' = end /\ m_foundSep' = m_foundSep
  BY <1>2 DEF NextToken, Give
<1> HIDE DEF S, end
<1>10. b \in a + 1 .. l /\ end = at + b
  BY <1>3, <1>6, <1>7
<1>11. FirstNonSep - at = a /\ end - FirstNonSep = b - a
  BY <1>3, <1>4, <1>10
<1> HIDE DEF b
<1>12. b < l => ~Other(b)
  BY <1>2, <1>3, <1>6, <1>7, <1>10 DEF Other
<1>13. ASSUME NEW i \in a .. b - 1 PROVE Other(i)
  <2>1. CASE i = a
    BY <1>1, <1>2, <1>3, <2>1
  <2>2. CASE i > a
    <3>1. at + i \in at + a + 1 .. at + l - 1 /\ at + i < end
      BY <1>3, <1>10, <2>2
    <3> QED
      BY <1>2, <1>8, <3>1 DEF Other
  <2> QED
    BY <1>3, <1>10, <2>1, <2>2
<1>14. pieces' = Append(pieces, MakeRange(a, b - a)) /\ m_str' = text.at + b
  BY <1>2, <1>9, <1>10, <1>11
<1> QED
  BY <1>1, <1>2, <1>9, <1>10, <1>12, <1>13, <1>14

LEMMA TokenPreserved ==
    ASSUME Given, Tokens, tokens, ~over, NextToken, UNCHANGED <<text, sep, tokens, maxNum, over>>
    PROVE  Given' /\ Tokens'
<1> DEFINE m == m_str - text.at
<1>1. PICK a \in m .. text.len : \E b \in a + 1 .. text.len :
        /\ m \in 0 .. text.len /\ text.len \in Nat
        /\ \A i \in m .. a - 1 : ~Other(i)
        /\ \A i \in a .. b - 1 : Other(i)
        /\ b < text.len => ~Other(b)
        /\ pieces' = Append(pieces, MakeRange(a, b - a))
        /\ m_str' = text.at + b /\ m_foundSep' = m_foundSep
  BY TokenStep
<1>2. PICK b \in a + 1 .. text.len :
        /\ m \in 0 .. text.len /\ text.len \in Nat
        /\ \A i \in m .. a - 1 : ~Other(i)
        /\ \A i \in a .. b - 1 : Other(i)
        /\ b < text.len => ~Other(b)
        /\ pieces' = Append(pieces, MakeRange(a, b - a))
        /\ m_str' = text.at + b /\ m_foundSep' = m_foundSep
  BY <1>1
<1>3. PICK l \in Nat, at \in Nat : l = text.len /\ at = text.at /\ m_strEnd = at + l
  BY SliceBytes DEF Given, m_strEnd
<1> HIDE DEF m
<1>4. m \in 0 .. l /\ a \in 0 .. l /\ b \in 0 .. l /\ m <= a /\ a < b /\ b - a \in Nat /\ a + (b - a) = b
  BY <1>2, <1>3
<1> DEFINE range == MakeRange(a, b - a)
           n == Len(pieces)
<1>5. range \in Ranges /\ range.location = a /\ range.length = b - a
  BY <1>4 DEF MakeRange, Ranges
<1> HIDE DEF range
<1>6. /\ pieces' \in Seq(Ranges) /\ Len(pieces') = n + 1 /\ n \in Nat
      /\ DOMAIN pieces = 1 .. n /\ DOMAIN pieces' = 1 .. n + 1
      /\ \A i \in 1 .. n : pieces'[i] = pieces[i] /\ pieces[i] \in Ranges
      /\ pieces'[n + 1] = range
  <2>1. pieces \in Seq(Ranges) /\ pieces' = Append(pieces, range)
    BY <1>2 DEF Given, range
  <2> QED
    BY <1>5, <2>1, AppendProperties, LenProperties
<1>7. Given'
  <2>1. m_strEnd' = m_strEnd /\ m_str' = at + b /\ text' = text /\ at + b \in at .. at + l
    BY <1>2, <1>3, <1>4, SMTT(40) DEF m_strEnd, EndOf
  <2>2. \A i \in DOMAIN pieces' : pieces'[i].location + pieces'[i].length <= text.len
    <3>1. \A i \in 1 .. n : pieces'[i].location + pieces'[i].length <= text.len
      BY <1>6 DEF Given
    <3>2. pieces'[n + 1].location + pieces'[n + 1].length <= text.len
      BY <1>3, <1>4, <1>5, <1>6
    <3>3. \A i \in 1 .. n + 1 : i \in 1 .. n \/ i = n + 1
      BY <1>6
    <3> QED
      BY <1>6, <3>1, <3>2, <3>3
  <2> QED
    BY <1>2, <1>3, <1>6, <2>1, <2>2 DEF Given
<1>8. m' = b
  BY <1>2, <1>3, <1>4 DEF m
<1>9. /\ m_foundSep = FALSE
      /\ n <= m
      /\ m = 0 \/ m = text.len \/ ~Other(m)
      /\ \A i \in 1 .. n : pieces[i].length > 0 /\ pieces[i].location + pieces[i].length <= m
      /\ \A i, j \in 1 .. n : i < j => pieces[i].location < pieces[j].location
      /\ \A p, q \in 0 .. text.len : HandedOut(p, q) <=> IsRun(p, q) /\ q <= m
  BY <1>6 DEF Tokens, m
<1>10. /\ IsRun(a, b)
       /\ \A p, q \in 0 .. text.len : IsRun(p, q) /\ q <= b /\ ~(q <= m) => p = a /\ q = b
  BY <1>2, <1>3, <1>9, OneRun
<1>11. \A p, q : HandedOut(p, q)' <=> HandedOut(p, q) \/ (p = a /\ q = b)
  <2> SUFFICES ASSUME NEW p, NEW q PROVE HandedOut(p, q)' <=> HandedOut(p, q) \/ (p = a /\ q = b)
    OBVIOUS
  <2>1. HandedOut(p, q)' <=> \E i \in 1 .. n + 1 : p = pieces'[i].location /\ q = pieces'[i].location + pieces'[i].length
    BY <1>6 DEF HandedOut
  <2>2. HandedOut(p, q) <=> \E i \in 1 .. n : p = pieces[i].location /\ q = pieces[i].location + pieces[i].length
    BY <1>6 DEF HandedOut
  <2>3. \A i : i \in 1 .. n + 1 <=> i \in 1 .. n \/ i = n + 1
    BY <1>6
  <2> QED
    BY <1>4, <1>5, <1>6, <2>1, <2>2, <2>3
<1>12. \A p, q : IsRun(p, q)' <=> IsRun(p, q)
  BY DEF IsRun, Other, IsSep
<1>13. \A p, q \in 0 .. text.len : HandedOut(p, q)' <=> IsRun(p, q)' /\ q <= b
  <2> SUFFICES ASSUME NEW p \in 0 .. text.len, NEW q \in 0 .. text.len
               PROVE  HandedOut(p, q)' <=> IsRun(p, q) /\ q <= b
    BY <1>12
  <2>1. HandedOut(p, q) <=> IsRun(p, q) /\ q <= m
    BY <1>9
  <2>2. IsRun(p, q) /\ q <= b /\ ~(q <= m) => p = a /\ q = b
    BY <1>10
  <2>3. q <= m => q <= b
    BY <1>3, <1>4
  <2>4. p = a /\ q = b => IsRun(p, q) /\ q <= b
    BY <1>3, <1>4, <1>10
  <2> QED
    BY <1>11, <2>1, <2>2, <2>3, <2>4
<1>14. \A i \in 1 .. n + 1 : pieces'[i].length > 0 /\ pieces'[i].location + pieces'[i].length <= b
  <2> SUFFICES ASSUME NEW i \in 1 .. n + 1
               PROVE  pieces'[i].length > 0 /\ pieces'[i].location + pieces'[i].length <= b
    OBVIOUS
  <2>1. CASE i = n + 1
    BY <1>4, <1>5, <1>6, <2>1
  <2>2. CASE i \in 1 .. n
    <3>1. pieces[i].location \in Nat /\ pieces[i].length \in Nat
      BY <1>6, <2>2 DEF Ranges
    <3> QED
      BY <1>4, <1>6, <1>9, <2>2, <3>1
  <2> QED
    BY <1>6, <2>1, <2>2
<1>15. \A i, j \in 1 .. n + 1 : i < j => pieces'[i].location < pieces'[j].location
  <2> SUFFICES ASSUME NEW i \in 1 .. n + 1, NEW j \in 1 .. n + 1, i < j
               PROVE  pieces'[i].location < pieces'[j].location
    OBVIOUS
  <2>1. i \in 1 .. n
    BY <1>6
  <2>2. CASE j = n + 1
    <3>1. /\ pieces[i].location \in Nat /\ pieces[i].length \in Nat
          /\ pieces[i].length > 0 /\ pieces[i].location + pieces[i].length <= m
      BY <1>6, <1>9, <2>1 DEF Ranges
    <3> QED
      BY <1>4, <1>5, <1>6, <2>1, <2>2, <3>1
  <2>3. CASE j \in 1 .. n
    BY <1>6, <1>9, <2>1, <2>3
  <2> QED
    BY <1>6, <2>2, <2>3
<1>16. ~Parted' /\ m_foundSep' = FALSE /\ Len(pieces') <= b
  BY <1>2, <1>4, <1>6, <1>9 DEF Parted
<1>17. b = text.len \/ ~Other(b)'
  <2>1. b = text.len \/ ~Other(b)
    BY <1>2, <1>3, <1>4
  <2> QED
    BY <2>1 DEF Other, IsSep
<1>18. Tokens'
  BY <1>6, <1>8, <1>13, <1>14, <1>15, <1>16, <1>17 DEF Tokens, m
<1> QED
  BY <1>7, <1>18

-----------------------------------------------------------------------------
(* The end of the loop, and the theorems.                                  *)

IterInv == Given /\ Split /\ SplitCount /\ Tokens

LEMMA IterStarts == ASSUME Nul \notin Alphabet, Init PROVE IterInv
<1>1. Given /\ Split /\ SplitCount
  BY Started
<1>2. text.at \in Nat /\ text.len \in Nat
  BY <1>1, SliceBytes DEF Given
<1>3. pieces = <<>> /\ DOMAIN pieces = {} /\ Len(pieces) = 0
  BY EmptySeq DEF Init
<1>4. m_str - text.at = 0
  BY <1>2 DEF Init
<1>5. ASSUME NEW p \in 0 .. text.len, NEW q \in 0 .. text.len PROVE ~(IsRun(p, q) /\ q <= 0)
  BY <1>2 DEF IsRun
<1>6. Tokens
  BY <1>3, <1>4, <1>5 DEF Tokens, HandedOut, Init, Parted
<1> QED
  BY <1>1, <1>6 DEF IterInv

LEMMA StopKeeps == ASSUME IterInv, Stop PROVE IterInv'
<1>1. /\ UNCHANGED <<text, sep, tokens, maxNum, m_foundSep, pieces>> /\ over' = TRUE
      /\ \/ m_str' = m_str /\ ~Parted'
         \/ ~HasNext /\ m_str' = m_strEnd
  <2>1. CASE Len(pieces) >= maxNum /\ UNCHANGED m_str
    <3>1. ~(Len(pieces) < maxNum)
      BY <2>1, LenProperties DEF IterInv, Given
    <3>2. UNCHANGED <<text, sep, tokens, maxNum, m_foundSep, pieces>> /\ over' = TRUE
      BY DEF Stop
    <3>3. ~Parted'
      BY <3>1, <3>2 DEF Parted
    <3> QED
      BY <2>1, <3>2, <3>3
  <2>2. CASE Len(pieces) < maxNum /\ ~HasNext /\ m_str' = m_strEnd
    BY <2>2 DEF Stop
  <2> QED
    BY <2>1, <2>2 DEF Stop
<1>2. PICK at \in Nat, l \in Nat : at = text.at /\ l = text.len /\ m_strEnd = at + l
  BY SliceBytes DEF IterInv, Given, m_strEnd
<1>3. m_strEnd' = m_strEnd /\ m_str \in at .. at + l /\ m_str' \in at .. at + l
  BY <1>1, <1>2 DEF m_strEnd, EndOf, IterInv, Given
<1>4. Given'
  BY <1>1, <1>2, <1>3 DEF IterInv, Given
<1>5. ~tokens => m_str' = m_str /\ (Parted' => m_str = m_strEnd /\ ~m_foundSep)
  BY <1>1 DEF HasNext, PieceLeft
<1>6. Split'
  BY <1>1, <1>3, <1>5 DEF IterInv, Split, Joined, AllPieces, Piece, Parted
<1>7. SplitCount'
  BY <1>1, <1>5 DEF IterInv, SplitCount
<1>8. ASSUME tokens PROVE Tokens'
  <2> DEFINE m == m_str - text.at
  <2>1. /\ m_foundSep = FALSE
        /\ Len(pieces) <= m
        /\ m = 0 \/ m = text.len \/ ~Other(m)
        /\ \A i \in DOMAIN pieces : pieces[i].length > 0 /\ pieces[i].location + pieces[i].length <= m
        /\ \A i, j \in DOMAIN pieces : i < j => pieces[i].location < pieces[j].location
        /\ \A p, q \in 0 .. text.len : HandedOut(p, q) <=> IsRun(p, q) /\ q <= m
    BY <1>8 DEF IterInv, Tokens
  <2>2. \A p, q : (HandedOut(p, q)' <=> HandedOut(p, q)) /\ (IsRun(p, q)' <=> IsRun(p, q))
    BY <1>1 DEF HandedOut, IsRun, Other, IsSep
  <2>3. CASE m_str' = m_str /\ ~Parted'
    <3>1. m' = m /\ (Other(m)' <=> Other(m))
      BY <1>1, <2>3 DEF Other, IsSep
    <3> QED
      BY <1>1, <2>1, <2>2, <2>3, <3>1 DEF Tokens
  <2>4. CASE ~HasNext /\ m_str' = m_strEnd
    <3>1. m' = l /\ m \in 0 .. l /\ Len(pieces) \in Nat
      BY <1>1, <1>2, <1>3, <2>4, LenProperties DEF IterInv, Given
    <3>2. \A i \in m .. l - 1 : ~Other(i)
      <4>1. PICK a \in m .. text.len : (FirstNonSep # m_strEnd <=> a < text.len) /\ \A i \in m .. a - 1 : ~Other(i)
        BY FirstNonSepIs DEF IterInv
      <4>2. a = l
        BY <1>2, <1>8, <2>4, <3>1, <4>1 DEF HasNext
      <4> QED
        BY <4>1, <4>2
    <3> HIDE DEF m
    <3>3. ASSUME NEW p \in 0 .. l, NEW q \in 0 .. l, IsRun(p, q) PROVE q <= m
      <4>1. p < q /\ \A i \in p .. q - 1 : Other(i)
        BY <3>3 DEF IsRun
      <4>2. ASSUME q > m PROVE FALSE
        <5>1. q - 1 \in m .. l - 1 /\ q - 1 \in p .. q - 1
          BY <3>1, <4>1, <4>2
        <5> QED
          BY <3>2, <4>1, <5>1
      <4> QED
        BY <3>1, <4>2
    <3>4. \A p, q \in 0 .. l : HandedOut(p, q)' <=> IsRun(p, q)' /\ q <= l
      BY <1>2, <2>1, <2>2, <3>3
    <3>5. \A i \in DOMAIN pieces : pieces[i].length > 0 /\ pieces[i].location + pieces[i].length <= l
      <4> SUFFICES ASSUME NEW i \in DOMAIN pieces
                   PROVE  pieces[i].length > 0 /\ pieces[i].location + pieces[i].length <= l
        OBVIOUS
      <4>1. pieces[i].location \in Nat /\ pieces[i].length \in Nat
        <5>1. pieces \in Seq(Ranges)
          BY DEF IterInv, Given
        <5>2. pieces[i] \in Ranges
          BY <5>1, LenProperties, ElementOfSeq
        <5> QED
          BY <5>2 DEF Ranges
      <4>2. pieces[i].length > 0 /\ pieces[i].location + pieces[i].length <= m
        BY <2>1 DEF m
      <4> QED
        BY <3>1, <4>1, <4>2
    <3>6. Len(pieces) <= l
      BY <2>1, <3>1
    <3>7. m' = text.len'
      BY <1>1, <1>2, <3>1
    <3> QED
      BY <1>1, <1>2, <2>1, <3>1, <3>4, <3>5, <3>6, <3>7 DEF Tokens, m
  <2> QED
    BY <1>1, <2>3, <2>4
<1>9. Tokens'
  BY <1>1, <1>8 DEF Tokens
<1> QED
  BY <1>4, <1>6, <1>7, <1>9 DEF IterInv

LEMMA IterKept == ASSUME IterInv, [Next]_vars PROVE IterInv'
<1>1. CASE Step /\ ~tokens
  <2>1. Given' /\ Split' /\ SplitCount'
    BY <1>1, SubsliceGiven, SubsliceSplit, SubsliceCount DEF Step, IterInv
  <2>2. Tokens'
    BY <1>1 DEF Step, Tokens
  <2> QED
    BY <2>1, <2>2 DEF IterInv
<1>2. CASE Step /\ tokens
  <2>1. Given' /\ Tokens'
    BY <1>2, TokenPreserved DEF Step, IterInv
  <2>2. Split' /\ SplitCount'
    BY <1>2 DEF Step, Split, SplitCount
  <2> QED
    BY <2>1, <2>2 DEF IterInv
<1>3. CASE Stop
  BY <1>3, StopKeeps
<1>4. CASE UNCHANGED vars
  BY <1>4 DEF vars, IterInv, Given, Split, SplitCount, Tokens, HandedOut, IsRun, Other, IsSep, Parted,
              Joined, AllPieces, Piece, m_strEnd
<1> QED
  BY <1>1, <1>2, <1>3, <1>4 DEF Next, Step

\* For a text without '\0' in it the whole invariant holds, at every position of
\* the iterators of string_slice.h and for every limit of splitWithLimit().
THEOREM StringIterInvariant == ASSUME Nul \notin Alphabet PROVE Spec => []IterInv
<1>1. Init => IterInv
  BY IterStarts
<1>2. IterInv /\ [Next]_vars => IterInv'
  BY IterKept
<1> QED
  BY <1>1, <1>2, PTL DEF Spec

\* The four properties of the searches speak of the slice and the needle alone.
LEMMA SearchesFollow == ASSUME IterInv PROVE FindsFirst /\ SearchesAgree /\ ReplaceUndone
  BY FirstFound, Agreed, Undone DEF IterInv, Given

\* findSliceFrom() answers with the first occurrence, for any text and needle
\* without a '\0', of any length.
THEOREM StringFindsFirst == ASSUME Nul \notin Alphabet PROVE Spec => []FindsFirst
<1>1. IterInv => FindsFirst
  BY SearchesFollow
<1> QED
  BY <1>1, StringIterInvariant, PTL

\* countSlice(), findSlice(), startsWith(), endsWith(), find(c), rfind(c) and
\* equalsCaseInsensitive() tell one story about any text and needle.
THEOREM StringSearchesAgree == ASSUME Nul \notin Alphabet PROVE Spec => []SearchesAgree
<1>1. IterInv => SearchesAgree
  BY SearchesFollow
<1> QED
  BY <1>1, StringIterInvariant, PTL

\* replaceInRange() changes the range and nothing else, wherever it lies.
THEOREM StringReplaceUndone == ASSUME Nul \notin Alphabet PROVE Spec => []ReplaceUndone
<1>1. IterInv => ReplaceUndone
  BY SearchesFollow
<1> QED
  BY <1>1, StringIterInvariant, PTL

LEMMA JoinFollows == ASSUME IterInv PROVE JoinUndoesSplit
<1> SUFFICES ASSUME ~tokens
             PROVE  /\ Joined \o (IF m_foundSep THEN Text(sep) ELSE <<>>) = Bytes(text.mem, text.at, m_str)
                    /\ Parted => Equals(JoinSlices(AllPieces, sep), text)
                    /\ sep.len > 0 => \A i \in DOMAIN pieces : ~Occurs(sep, Piece(i))
  BY DEF JoinUndoesSplit, Joined
<1>1. /\ IsSlice(text) /\ Joined \in Seq(Nat)
      /\ Joined \o (IF m_foundSep THEN Text(sep) ELSE <<>>) = Bytes(text.mem, text.at, m_str)
      /\ Parted => m_str = m_strEnd /\ ~m_foundSep
      /\ sep.len > 0 => \A i \in DOMAIN pieces : ~Occurs(sep, Piece(i))
  BY DEF IterInv, Split, Given
<1>2. ASSUME Parted PROVE Equals(JoinSlices(AllPieces, sep), text)
  <2>1. Joined = Text(text)
    <3>1. Joined \o <<>> = Bytes(text.mem, text.at, m_strEnd)
      BY <1>1, <1>2
    <3> QED
      BY <1>1, <3>1 DEF Text, m_strEnd
  <2>2. JoinSlices(AllPieces, sep).len = text.len
    <3>1. PICK f : JoinSlices(AllPieces, sep) = CString(f[Len(pieces)]) /\ f[Len(pieces)] \in Seq(Nat)
      BY JoinedText DEF IterInv, Given
    <3>2. JoinSlices(AllPieces, sep).len = Len(Joined)
      BY <3>1, CStringIs DEF Joined
    <3>3. Len(Text(text)) = text.len
      BY <1>1, SliceInMemory, TextIs
    <3> QED
      BY <2>1, <3>2, <3>3
  <2> QED
    BY <2>1, <2>2 DEF Equals, SameBytes, Text, EndOf, Joined
<1> QED
  BY <1>1, <1>2

\* join() of what split() has made is the text it has read, for any text, any
\* separator and any limit of splitWithLimit().
THEOREM StringJoinUndoesSplit == ASSUME Nul \notin Alphabet PROVE Spec => []JoinUndoesSplit
<1>1. IterInv => JoinUndoesSplit
  BY JoinFollows
<1> QED
  BY <1>1, StringIterInvariant, PTL

LEMMA TokensFollow == ASSUME IterInv PROVE TokensAreRuns
<1> SUFFICES
      ASSUME Parted, tokens
      PROVE  /\ {<<pieces[i].location, pieces[i].location + pieces[i].length>> : i \in DOMAIN pieces}
                  = {r \in (0 .. text.len) \X (0 .. text.len) : IsRun(r[1], r[2])}
             /\ \A i, j \in DOMAIN pieces : i < j => pieces[i].location < pieces[j].location
  BY DEF TokensAreRuns, IsRun, Other
<1> DEFINE m == m_str - text.at
           made == {<<pieces[i].location, pieces[i].location + pieces[i].length>> : i \in DOMAIN pieces}
           runs == {r \in (0 .. text.len) \X (0 .. text.len) : IsRun(r[1], r[2])}
<1>1. /\ m = text.len /\ text.len \in Nat
      /\ \A i, j \in DOMAIN pieces : i < j => pieces[i].location < pieces[j].location
      /\ \A p, q \in 0 .. text.len : HandedOut(p, q) <=> IsRun(p, q) /\ q <= m
  BY SliceBytes DEF IterInv, Given, Tokens
<1>2. \A p, q \in 0 .. text.len : HandedOut(p, q) <=> IsRun(p, q)
  BY <1>1
<1>3. ASSUME NEW i \in DOMAIN pieces
      PROVE  /\ pieces[i].location \in 0 .. text.len
             /\ pieces[i].location + pieces[i].length \in 0 .. text.len
  <2>1. pieces \in Seq(Ranges) /\ pieces[i].location + pieces[i].length <= text.len
    BY DEF IterInv, Given
  <2>2. pieces[i] \in Ranges
    BY <2>1, LenProperties, ElementOfSeq
  <2>3. pieces[i].location \in Nat /\ pieces[i].length \in Nat
    BY <2>2 DEF Ranges
  <2> QED
    BY <1>1, <2>1, <2>3
<1>4. made \subseteq runs
  <2> SUFFICES ASSUME NEW i \in DOMAIN pieces
               PROVE  <<pieces[i].location, pieces[i].location + pieces[i].length>> \in runs
    OBVIOUS
  <2>1. HandedOut(pieces[i].location, pieces[i].location + pieces[i].length)
    BY DEF HandedOut
  <2> QED
    BY <1>2, <1>3, <2>1
<1>5. runs \subseteq made
  <2> SUFFICES ASSUME NEW r \in runs PROVE r \in made
    OBVIOUS
  <2>1. r = <<r[1], r[2]>> /\ HandedOut(r[1], r[2])
    BY <1>2
  <2> QED
    BY <2>1 DEF HandedOut
<1> QED
  BY <1>1, <1>4, <1>5

\* tokenize() finds the maximal runs of bytes that are no separators, for any
\* text and any set of separators, the empty one included.
THEOREM StringTokensAreRuns == ASSUME Nul \notin Alphabet PROVE Spec => []TokensAreRuns
<1>1. IterInv => TokensAreRuns
  BY TokensFollow
<1> QED
  BY <1>1, StringIterInvariant, PTL

LEMMA PiecesFollow == ASSUME IterInv PROVE PiecesRunOut
<1>1. /\ text.at \in Nat /\ text.len \in Nat /\ m_strEnd = text.at + text.len
      /\ m_str \in text.at .. m_strEnd /\ Len(pieces) \in Nat /\ tokens \in BOOLEAN
  BY SliceBytes, LenProperties DEF IterInv, Given, m_strEnd
<1>2. CASE tokens
  <2>1. Len(pieces) <= m_str - text.at
    BY <1>2 DEF IterInv, Tokens
  <2> QED
    BY <1>1, <2>1 DEF PiecesRunOut
<1>3. CASE ~tokens
  BY <1>1, <1>3 DEF IterInv, SplitCount, PiecesRunOut
<1> QED
  BY <1>2, <1>3

\* The loop over an iterator stays in the text and makes no more pieces than
\* the text has bytes and one: it ends for any text and any separator that is
\* not empty.
THEOREM StringPiecesRunOut == ASSUME Nul \notin Alphabet PROVE Spec => []PiecesRunOut
<1>1. IterInv => PiecesRunOut
  BY PiecesFollow
<1> QED
  BY <1>1, StringIterInvariant, PTL

-----------------------------------------------------------------------------
(* Characters: UTF-8, and the iterator over code points.                   *)

Byte == 0 .. 255

\* Shifting six bits in and out.
LEMMA SixBits ==
    \A q \in Nat : \A r \in 0 .. 63 : \A v :
        v = q * 64 + r => v \in Nat /\ v \div 64 = q /\ v % 64 = r
  BY SMT

\* What a byte that begins a character of two, three or four bytes, or one
\* that continues it, contributes.
LEMMA LeadBits ==
    ASSUME NEW u \in Byte
    PROVE  /\ u \in 192 .. 223 => u % 32 = u - 192
           /\ u \in 224 .. 239 => u % 16 = u - 224
           /\ u \in 240 .. 247 => u % 8 = u - 240
           /\ u \in 128 .. 191 => u % 64 = u - 128
  BY DEF Byte

LEMMA FirstIs ==
    ASSUME NEW u \in Byte
    PROVE  /\ CheckFirst(u) = 1 <=> u \in 0 .. 127
           /\ CheckFirst(u) = 2 <=> u \in 194 .. 223
           /\ CheckFirst(u) = 3 <=> u \in 224 .. 239
           /\ CheckFirst(u) = 4 <=> u \in 240 .. 244
           /\ CheckFirst(u) \in 0 .. 4
  BY DEF Byte, CheckFirst

\* The value computed of two, three and four bytes.
LEMMA ValueOfTwo ==
    ASSUME NEW mem, NEW p \in Nat, NEW u \in Byte, NEW b \in Byte,
           At(mem, p) = u, At(mem, p + 1) = b
    PROVE  FullValue(mem, p, 2) = (u % 32) * 64 + (b % 64)
<1> DEFINE IsValue(f) ==
        f = [i \in 1 .. 2 |->
                IF i = 1 THEN At(mem, p) % (CASE 2 = 2 -> 32 [] 2 = 3 -> 16 [] 2 = 4 -> 8)
                ELSE f[i - 1] * 64 + (At(mem, p + i - 1) % 64)]
<1>1. \E f : IsValue(f)
  <2> DEFINE g == [i \in 1 .. 2 |-> IF i = 1 THEN u % 32 ELSE (u % 32) * 64 + (b % 64)]
  <2>1. g[1] = u % 32 /\ g[2] = (u % 32) * 64 + (b % 64)
    OBVIOUS
  <2>2. p + 2 - 1 = p + 1
    OBVIOUS
  <2>3. ASSUME NEW i \in 1 .. 2
        PROVE  g[i] = IF i = 1 THEN At(mem, p) % (CASE 2 = 2 -> 32 [] 2 = 3 -> 16 [] 2 = 4 -> 8)
                      ELSE g[i - 1] * 64 + (At(mem, p + i - 1) % 64)
    <3>1. i = 1 \/ i = 2
      OBVIOUS
    <3> HIDE DEF g
    <3> QED
      BY <2>1, <2>2, <3>1
  <2>4. g = [i \in 1 .. 2 |-> g[i]]
    OBVIOUS
  <2> HIDE DEF g
  <2>5. IsValue(g)
    BY <2>3, <2>4
  <2> QED
    BY <2>5
<1>2. PICK f : f = (CHOOSE h : IsValue(h))
  OBVIOUS
<1>3. IsValue(f)
  BY <1>1, <1>2
<1>4. FullValue(mem, p, 2) = f[2]
  BY <1>2 DEF FullValue
<1>5. f[1] = u % 32 /\ f[2] = f[1] * 64 + (b % 64)
  BY <1>3
<1> QED
  BY <1>4, <1>5

LEMMA ValueOfThree ==
    ASSUME NEW mem, NEW p \in Nat, NEW u \in Byte, NEW b \in Byte, NEW d \in Byte,
           At(mem, p) = u, At(mem, p + 1) = b, At(mem, p + 2) = d
    PROVE  FullValue(mem, p, 3) = ((u % 16) * 64 + (b % 64)) * 64 + (d % 64)
<1> DEFINE IsValue(f) ==
        f = [i \in 1 .. 3 |->
                IF i = 1 THEN At(mem, p) % (CASE 3 = 2 -> 32 [] 3 = 3 -> 16 [] 3 = 4 -> 8)
                ELSE f[i - 1] * 64 + (At(mem, p + i - 1) % 64)]
<1>1. \E f : IsValue(f)
  <2> DEFINE g == [i \in 1 .. 3 |-> IF i = 1 THEN u % 16 ELSE IF i = 2 THEN (u % 16) * 64 + (b % 64) ELSE ((u % 16) * 64 + (b % 64)) * 64 + (d % 64)]
  <2>1. g[1] = u % 16 /\ g[2] = (u % 16) * 64 + (b % 64) /\ g[3] = ((u % 16) * 64 + (b % 64)) * 64 + (d % 64)
    OBVIOUS
  <2>2. p + 2 - 1 = p + 1 /\ p + 3 - 1 = p + 2
    OBVIOUS
  <2>3. ASSUME NEW i \in 1 .. 3
        PROVE  g[i] = IF i = 1 THEN At(mem, p) % (CASE 3 = 2 -> 32 [] 3 = 3 -> 16 [] 3 = 4 -> 8)
                      ELSE g[i - 1] * 64 + (At(mem, p + i - 1) % 64)
    <3>1. i = 1 \/ i = 2 \/ i = 3
      OBVIOUS
    <3> HIDE DEF g
    <3> QED
      BY <2>1, <2>2, <3>1
  <2>4. g = [i \in 1 .. 3 |-> g[i]]
    OBVIOUS
  <2> HIDE DEF g
  <2>5. IsValue(g)
    BY <2>3, <2>4
  <2> QED
    BY <2>5
<1>2. PICK f : f = (CHOOSE h : IsValue(h))
  OBVIOUS
<1>3. IsValue(f)
  BY <1>1, <1>2
<1>4. FullValue(mem, p, 3) = f[3]
  BY <1>2 DEF FullValue
<1>5. f[1] = u % 16 /\ f[2] = f[1] * 64 + (b % 64) /\ f[3] = f[2] * 64 + (d % 64)
  BY <1>3
<1> QED
  BY <1>4, <1>5

ValueThree(u, b, d) == ((u % 16) * 64 + (b % 64)) * 64 + (d % 64)
ValueFour(u, b, d, e) == (((u % 8) * 64 + (b % 64)) * 64 + (d % 64)) * 64 + (e % 64)

LEMMA ValueOfFour ==
    ASSUME NEW mem, NEW p \in Nat, NEW u \in Byte, NEW b \in Byte, NEW d \in Byte, NEW e \in Byte,
           At(mem, p) = u, At(mem, p + 1) = b, At(mem, p + 2) = d, At(mem, p + 3) = e
    PROVE  FullValue(mem, p, 4) = ValueFour(u, b, d, e)
<1> DEFINE IsValue(f) ==
        f = [i \in 1 .. 4 |->
                IF i = 1 THEN At(mem, p) % (CASE 4 = 2 -> 32 [] 4 = 3 -> 16 [] 4 = 4 -> 8)
                ELSE f[i - 1] * 64 + (At(mem, p + i - 1) % 64)]
<1>1. \E f : IsValue(f)
  <2> DEFINE g == [i \in 1 .. 4 |-> IF i = 1 THEN u % 8 ELSE IF i = 2 THEN (u % 8) * 64 + (b % 64) ELSE IF i = 3 THEN ((u % 8) * 64 + (b % 64)) * 64 + (d % 64) ELSE (((u % 8) * 64 + (b % 64)) * 64 + (d % 64)) * 64 + (e % 64)]
  <2>1. g[1] = u % 8 /\ g[2] = (u % 8) * 64 + (b % 64) /\ g[3] = ((u % 8) * 64 + (b % 64)) * 64 + (d % 64) /\ g[4] = (((u % 8) * 64 + (b % 64)) * 64 + (d % 64)) * 64 + (e % 64)
    OBVIOUS
  <2>2. p + 2 - 1 = p + 1 /\ p + 3 - 1 = p + 2 /\ p + 4 - 1 = p + 3
    OBVIOUS
  <2>3. ASSUME NEW i \in 1 .. 4
        PROVE  g[i] = IF i = 1 THEN At(mem, p) % (CASE 4 = 2 -> 32 [] 4 = 3 -> 16 [] 4 = 4 -> 8)
                      ELSE g[i - 1] * 64 + (At(mem, p + i - 1) % 64)
    <3>1. i = 1 \/ i = 2 \/ i = 3 \/ i = 4
      OBVIOUS
    <3> HIDE DEF g
    <3> QED
      BY <2>1, <2>2, <3>1
  <2>4. g = [i \in 1 .. 4 |-> g[i]]
    OBVIOUS
  <2> HIDE DEF g
  <2>5. IsValue(g)
    BY <2>3, <2>4
  <2> QED
    BY <2>5
<1>2. PICK f : f = (CHOOSE h : IsValue(h))
  OBVIOUS
<1>3. IsValue(f)
  BY <1>1, <1>2
<1>4. FullValue(mem, p, 4) = f[4]
  BY <1>2 DEF FullValue
<1>5. f[1] = u % 8 /\ f[2] = f[1] * 64 + (b % 64) /\ f[3] = f[2] * 64 + (d % 64) /\ f[4] = f[3] * 64 + (e % 64)
  BY <1>3
<1> QED
  BY <1>4, <1>5 DEF ValueFour


\* The least code points of three bytes and of four
Wide  == \h800
Wider == \h10000

\* What is encoded, by the number of bytes.
LEMMA EncodeIs ==
    ASSUME NEW c \in Nat
    PROVE  /\ c < 128 => Encode(c) = <<c>>
           /\ 128 <= c /\ c < Wide => Encode(c) = <<192 + c \div 64, 128 + (c % 64)>>
           /\ Wide <= c /\ c < Wider =>
                Encode(c) = <<224 + (c \div 64) \div 64, 128 + ((c \div 64) % 64), 128 + (c % 64)>>
           /\ Wider <= c /\ c <= MaxCodePoint =>
                Encode(c) = <<240 + ((c \div 64) \div 64) \div 64, 128 + (((c \div 64) \div 64) % 64),
                                128 + ((c \div 64) % 64), 128 + (c % 64)>>
  BY SMT DEF Encode, Rest, Shifted, Wide, Wider, MaxCodePoint

\* Decoding and encoding again gives the bytes.
LEMMA DecodeTwo ==
    ASSUME NEW u \in 194 .. 223, NEW b \in 128 .. 191, NEW v, v = (u % 32) * 64 + (b % 64)
    PROVE  v \in Nat /\ 128 <= v /\ v < Wide /\ Encode(v) = <<u, b>>
<1>1. u % 32 = u - 192 /\ b % 64 = b - 128
  BY LeadBits, SMT DEF Byte
<1>2. PICK q \in Nat : q = u - 192
  OBVIOUS
<1>3. PICK r \in 0 .. 63 : r = b - 128
  BY SMT
<1>4. v = q * 64 + r
  BY <1>1, <1>2, <1>3
<1>5. v \in Nat /\ v \div 64 = q /\ v % 64 = r
  BY <1>4, SixBits, Zenon
<1>6. 128 <= v /\ v < Wide
  BY <1>2, <1>4, SMT DEF Wide
<1>7. Encode(v) = <<192 + v \div 64, 128 + (v % 64)>>
  BY <1>5, <1>6, EncodeIs, SMT
<1>8. 192 + v \div 64 = u /\ 128 + (v % 64) = b
  BY <1>2, <1>3, <1>5
<1> QED
  BY <1>5, <1>6, <1>7, <1>8

LEMMA DecodeThree ==
    ASSUME NEW u \in 224 .. 239, NEW b \in 128 .. 191, NEW d \in 128 .. 191,
           NEW v, v = ((u % 16) * 64 + (b % 64)) * 64 + (d % 64), v >= Wide
    PROVE  v \in Nat /\ v < Wider /\ Encode(v) = <<u, b, d>>
<1>1. u % 16 = u - 224 /\ b % 64 = b - 128 /\ d % 64 = d - 128
  BY LeadBits, SMT DEF Byte
<1>2. PICK q \in Nat : q = u - 224
  OBVIOUS
<1>3. PICK r \in 0 .. 63 : r = b - 128
  BY SMT
<1>4. PICK s \in 0 .. 63 : s = d - 128
  BY SMT
<1>5. PICK w : w = q * 64 + r
  OBVIOUS
<1>6. w \in Nat /\ w \div 64 = q /\ w % 64 = r
  BY <1>5, SixBits, ZenonT(60)
<1>7. v = w * 64 + s
  <2>1. u % 16 = q /\ b % 64 = r /\ d % 64 = s
    BY <1>1, <1>2, <1>3, <1>4, Zenon
  <2> QED
    BY <1>5, <2>1, Zenon
<1>8. v \in Nat /\ v \div 64 = w /\ v % 64 = s
  BY <1>6, <1>7, SixBits, Zenon
<1>9. v < Wider
  BY <1>2, <1>5, <1>7, SMT DEF Wider
<1>10. Encode(v) = <<224 + (v \div 64) \div 64, 128 + ((v \div 64) % 64), 128 + (v % 64)>>
  BY <1>8, <1>9, EncodeIs, SMT
<1>11. 224 + (v \div 64) \div 64 = u /\ 128 + ((v \div 64) % 64) = b /\ 128 + (v % 64) = d
  BY <1>2, <1>3, <1>4, <1>6, <1>8
<1> QED
  BY <1>8, <1>9, <1>10, <1>11

LEMMA DecodeFour ==
    ASSUME NEW u \in 240 .. 244, NEW b \in 128 .. 191, NEW d \in 128 .. 191, NEW e \in 128 .. 191,
           ValueFour(u, b, d, e) >= Wider, ValueFour(u, b, d, e) <= MaxCodePoint
    PROVE  ValueFour(u, b, d, e) \in Nat /\ Encode(ValueFour(u, b, d, e)) = <<u, b, d, e>>
<1>0. PICK v : v = ValueFour(u, b, d, e)
  OBVIOUS
<1>1. u % 8 = u - 240 /\ b % 64 = b - 128 /\ d % 64 = d - 128 /\ e % 64 = e - 128
  BY LeadBits, SMT DEF Byte
<1>2. PICK q \in Nat : q = u - 240
  OBVIOUS
<1>3. PICK r \in 0 .. 63 : r = b - 128
  BY SMT
<1>4. PICK s \in 0 .. 63 : s = d - 128
  BY SMT
<1>5. PICK t \in 0 .. 63 : t = e - 128
  BY SMT
<1>6. PICK w : w = q * 64 + r
  OBVIOUS
<1>7. w \in Nat /\ w \div 64 = q /\ w % 64 = r
  BY <1>6, SixBits, ZenonT(60)
<1>8. PICK x : x = w * 64 + s
  OBVIOUS
<1>9. x \in Nat /\ x \div 64 = w /\ x % 64 = s
  <2>1. \A y \in Nat : \A z \in 0 .. 63 : y * 64 + z \in Nat /\ (y * 64 + z) \div 64 = y /\ (y * 64 + z) % 64 = z
    BY SixBits, ZenonT(60)
  <2> QED
    BY <1>7, <1>8, <2>1, Zenon
<1>10. v = x * 64 + t
  <2>1. u % 8 = q /\ b % 64 = r /\ d % 64 = s /\ e % 64 = t
    BY <1>1, <1>2, <1>3, <1>4, <1>5, Zenon
  <2> QED
    BY <1>0, <1>6, <1>8, <2>1, Zenon DEF ValueFour
<1>11. v \in Nat /\ v \div 64 = x /\ v % 64 = t
  BY <1>9, <1>10, SixBits, ZenonT(60)
<1>12. Encode(v) = <<240 + ((v \div 64) \div 64) \div 64, 128 + (((v \div 64) \div 64) % 64),
                       128 + ((v \div 64) % 64), 128 + (v % 64)>>
  BY <1>0, <1>11, EncodeIs, SMT
<1>13. /\ 240 + ((v \div 64) \div 64) \div 64 = u /\ 128 + (((v \div 64) \div 64) % 64) = b
       /\ 128 + ((v \div 64) % 64) = d /\ 128 + (v % 64) = e
  BY <1>2, <1>3, <1>4, <1>5, <1>7, <1>9, <1>11
<1> QED
  BY <1>0, <1>11, <1>12, <1>13

\* Encoding and decoding again gives the code point.
LEMMA Quotient ==
    ASSUME NEW c \in Nat
    PROVE  c \div 64 \in Nat /\ c % 64 \in 0 .. 63 /\ c = (c \div 64) * 64 + (c % 64)
  BY SMT

LEMMA EncodeTwo ==
    ASSUME NEW c \in Nat, 128 <= c, c < Wide, NEW u, NEW b, u = 192 + c \div 64, b = 128 + (c % 64)
    PROVE  u \in 194 .. 223 /\ b \in 128 .. 191 /\ (u % 32) * 64 + (b % 64) = c
<1>1. c \div 64 \in Nat /\ c % 64 \in 0 .. 63 /\ c = (c \div 64) * 64 + (c % 64)
  BY Quotient, SMT
<1>2. u \in 194 .. 223 /\ b \in 128 .. 191
  BY <1>1, SMT DEF Wide
<1>3. u % 32 = u - 192 /\ b % 64 = b - 128
  BY <1>2, LeadBits, SMT DEF Byte
<1>4. u - 192 = c \div 64 /\ b - 128 = c % 64
  BY <1>1, SMT
<1> QED
  BY <1>1, <1>2, <1>3, <1>4, SMT

LEMMA EncodeThree ==
    ASSUME NEW c \in Nat, Wide <= c, c < Wider, NEW u, NEW b, NEW d,
           u = 224 + (c \div 64) \div 64, b = 128 + ((c \div 64) % 64), d = 128 + (c % 64)
    PROVE  /\ u \in 224 .. 239 /\ b \in 128 .. 191 /\ d \in 128 .. 191
           /\ ValueThree(u, b, d) = c
<1>1. PICK w \in Nat, s \in 0 .. 63 : w = c \div 64 /\ s = c % 64 /\ c = w * 64 + s
  BY Quotient, SMT
<1>2. PICK q \in Nat, r \in 0 .. 63 : q = w \div 64 /\ r = w % 64 /\ w = q * 64 + r
  BY Quotient, SMT
<1>3. u = 224 + q /\ b = 128 + r /\ d = 128 + s
  BY <1>1, <1>2, SMT
<1>4. 0 <= q /\ q <= 15
  BY <1>1, <1>2, SMT DEF Wider
<1>5. u \in 224 .. 239 /\ b \in 128 .. 191 /\ d \in 128 .. 191
  BY <1>3, <1>4, SMT
<1>6. u % 16 = u - 224 /\ b % 64 = b - 128 /\ d % 64 = d - 128
  BY <1>5, LeadBits, SMT DEF Byte
<1>7. u - 224 = q /\ b - 128 = r /\ d - 128 = s
  BY <1>3, SMT
<1>8. u % 16 = q /\ b % 64 = r /\ d % 64 = s
  BY <1>6, <1>7, Zenon
<1>9. (u % 16) * 64 + (b % 64) = w
  BY <1>2, <1>8, Zenon
<1>10. ((u % 16) * 64 + (b % 64)) * 64 + (d % 64) = c
  BY <1>1, <1>8, <1>9, Zenon
<1> QED
  BY <1>5, <1>10, Zenon DEF ValueThree

LEMMA EncodeFour ==
    ASSUME NEW c \in Nat, Wider <= c, c <= MaxCodePoint, NEW u, NEW b, NEW d, NEW e,
           u = 240 + ((c \div 64) \div 64) \div 64, b = 128 + (((c \div 64) \div 64) % 64),
           d = 128 + ((c \div 64) % 64), e = 128 + (c % 64)
    PROVE  /\ u \in 240 .. 244 /\ b \in 128 .. 191 /\ d \in 128 .. 191 /\ e \in 128 .. 191
           /\ ValueFour(u, b, d, e) = c
<1>1. PICK x \in Nat, t \in 0 .. 63 : x = c \div 64 /\ t = c % 64 /\ c = x * 64 + t
  BY Quotient, SMT
<1>2. PICK w \in Nat, s \in 0 .. 63 : w = x \div 64 /\ s = x % 64 /\ x = w * 64 + s
  BY Quotient, SMT
<1>3. PICK q \in Nat, r \in 0 .. 63 : q = w \div 64 /\ r = w % 64 /\ w = q * 64 + r
  BY Quotient, SMT
<1>4. u = 240 + q /\ b = 128 + r /\ d = 128 + s /\ e = 128 + t
  BY <1>1, <1>2, <1>3, SMT
<1>5. 0 <= q /\ q <= 4
  BY <1>1, <1>2, <1>3, SMT DEF Wider, MaxCodePoint
<1>6. u \in 240 .. 244 /\ b \in 128 .. 191 /\ d \in 128 .. 191 /\ e \in 128 .. 191
  BY <1>4, <1>5, SMT
<1>7. u % 8 = u - 240 /\ b % 64 = b - 128 /\ d % 64 = d - 128 /\ e % 64 = e - 128
  BY <1>6, LeadBits, SMT DEF Byte
<1>8. u - 240 = q /\ b - 128 = r /\ d - 128 = s /\ e - 128 = t
  BY <1>4, SMT
<1>9. u % 8 = q /\ b % 64 = r /\ d % 64 = s /\ e % 64 = t
  BY <1>7, <1>8, Zenon
<1>10. (u % 8) * 64 + (b % 64) = w
  BY <1>3, <1>9, Zenon
<1>11. ((u % 8) * 64 + (b % 64)) * 64 + (d % 64) = x
  BY <1>2, <1>9, <1>10, Zenon
<1>12. (((u % 8) * 64 + (b % 64)) * 64 + (d % 64)) * 64 + (e % 64) = c
  BY <1>1, <1>9, <1>11, ZenonT(60)
<1> QED
  BY <1>6, <1>12, Zenon DEF ValueFour

\* utf8_check_full() of two, three and four bytes.
LEMMA FullTwo ==
    ASSUME NEW mem, NEW p \in Nat
    PROVE  CheckFull(mem, p, 2) <=>
            /\ At(mem, p + 1) \in 128 .. 191
            /\ IsScalar(FullValue(mem, p, 2)) /\ FullValue(mem, p, 2) >= 128
<1>1. \A i \in 1 .. 2 - 1 : i = 1
  OBVIOUS
<1>2. 1 \in 1 .. 2 - 1
  OBVIOUS
<1>3. (\A i \in 1 .. 2 - 1 : At(mem, p + i) \in 128 .. 191) <=> At(mem, p + 1) \in 128 .. 191
  BY <1>1, <1>2, Zenon
<1> QED
  BY <1>3, SMT DEF CheckFull, Continuation

LEMMA FullThree ==
    ASSUME NEW mem, NEW p \in Nat
    PROVE  CheckFull(mem, p, 3) <=>
            /\ At(mem, p + 1) \in 128 .. 191 /\ At(mem, p + 2) \in 128 .. 191
            /\ IsScalar(FullValue(mem, p, 3)) /\ FullValue(mem, p, 3) >= Wide
<1>1. \A i \in 1 .. 3 - 1 : i = 1 \/ i = 2
  OBVIOUS
<1>2. 1 \in 1 .. 3 - 1 /\ 2 \in 1 .. 3 - 1
  OBVIOUS
<1>3. (\A i \in 1 .. 3 - 1 : At(mem, p + i) \in 128 .. 191) <=>
        At(mem, p + 1) \in 128 .. 191 /\ At(mem, p + 2) \in 128 .. 191
  BY <1>1, <1>2, Zenon
<1> QED
  BY <1>3, SMT DEF CheckFull, Continuation, Wide

LEMMA FullFour ==
    ASSUME NEW mem, NEW p \in Nat
    PROVE  CheckFull(mem, p, 4) <=>
            /\ At(mem, p + 1) \in 128 .. 191 /\ At(mem, p + 2) \in 128 .. 191
            /\ At(mem, p + 3) \in 128 .. 191
            /\ IsScalar(FullValue(mem, p, 4)) /\ FullValue(mem, p, 4) >= Wider
<1>1. \A i \in 1 .. 4 - 1 : i = 1 \/ i = 2 \/ i = 3
  OBVIOUS
<1>2. 1 \in 1 .. 4 - 1 /\ 2 \in 1 .. 4 - 1 /\ 3 \in 1 .. 4 - 1
  OBVIOUS
<1>3. (\A i \in 1 .. 4 - 1 : At(mem, p + i) \in 128 .. 191) <=>
        /\ At(mem, p + 1) \in 128 .. 191 /\ At(mem, p + 2) \in 128 .. 191
        /\ At(mem, p + 3) \in 128 .. 191
  BY <1>1, <1>2, Zenon
<1> QED
  BY <1>3, SMT DEF CheckFull, Continuation, Wider

\* The bytes of a character k bytes long, of value v, at p.
IsCharacter(mem, p, k, v) ==
    /\ v \in Nat /\ IsScalar(v)
    /\ Len(Encode(v)) = k /\ Encode(v) \in Seq(Byte)
    /\ \A i \in 1 .. k : Encode(v)[i] = At(mem, p + (i - 1))
    /\ At(mem, p) \notin 128 .. 191
    /\ \A i \in 1 .. k - 1 : At(mem, p + i) \in 128 .. 191

LEMMA ByteAt ==
    ASSUME NEW mem \in Seq(Byte), NEW p \in Nat, p < Len(mem)
    PROVE  At(mem, p) \in Byte
<1>1. p + 1 \in 1 .. Len(mem)
  OBVIOUS
<1> QED
  BY <1>1 DEF At

LEMMA CharacterOfOne ==
    ASSUME NEW mem \in Seq(Byte), NEW p \in Nat, p + 1 <= Len(mem), CheckFirst(At(mem, p)) = 1
    PROVE  IsCharacter(mem, p, 1, At(mem, p))
<1>1. At(mem, p) \in Byte
  BY ByteAt
<1>2. PICK u \in Byte : u = At(mem, p)
  BY <1>1
<1>3. u \in 0 .. 127
  <2>1. CheckFirst(u) = 1
    BY <1>2
  <2> QED
    BY <2>1, FirstIs
<1>4. u \in Nat /\ IsScalar(u)
  BY <1>3, SMT DEF IsScalar, MaxCodePoint
<1>5. Encode(u) = <<u>>
  BY <1>3, EncodeIs, SMT
<1>6. Len(<<u>>) = 1 /\ <<u>> \in Seq(Byte) /\ <<u>>[1] = u
  OBVIOUS
<1>7. \A i \in 1 .. 1 : <<u>>[i] = At(mem, p + (i - 1))
  BY <1>2
<1>8. \A i \in 1 .. 1 - 1 : FALSE
  OBVIOUS
<1>9. u \notin 128 .. 191
  BY <1>3
<1> QED
  BY <1>2, <1>4, <1>5, <1>6, <1>7, <1>8, <1>9, Zenon DEF IsCharacter

LEMMA CharacterOfTwo ==
    ASSUME NEW mem \in Seq(Byte), NEW p \in Nat, p + 2 <= Len(mem), CheckFirst(At(mem, p)) = 2,
           CheckFull(mem, p, 2)
    PROVE  IsCharacter(mem, p, 2, FullValue(mem, p, 2))
<1>1. PICK u \in Byte : u = At(mem, p)
  BY ByteAt
<1>2. PICK b \in 128 .. 191 : b = At(mem, p + 1)
  BY FullTwo
<1>3. b \in Byte /\ u \in 194 .. 223
  <2>1. CheckFirst(u) = 2
    BY <1>1
  <2>2. u \in 194 .. 223
    BY <2>1, FirstIs
  <2>3. b \in Byte
    BY SMT DEF Byte
  <2> QED
    BY <2>2, <2>3
<1>4. PICK v : v = FullValue(mem, p, 2)
  OBVIOUS
<1>5. v = (u % 32) * 64 + (b % 64)
  BY <1>1, <1>2, <1>3, <1>4, ValueOfTwo
<1>6. IsScalar(v)
  BY <1>4, FullTwo
<1>7. v \in Nat /\ Encode(v) = <<u, b>>
  BY <1>3, <1>5, DecodeTwo
<1>8. Len(<<u, b>>) = 2 /\ <<u, b>> \in Seq(Byte) /\ <<u, b>>[1] = u /\ <<u, b>>[2] = b
  BY <1>3
<1>9. \A i \in 1 .. 2 : <<u, b>>[i] = At(mem, p + (i - 1))
  <2>1. \A i \in 1 .. 2 : i = 1 \/ i = 2
    OBVIOUS
  <2>2. p + (1 - 1) = p /\ p + (2 - 1) = p + 1
    OBVIOUS
  <2> QED
    BY <1>1, <1>2, <1>8, <2>1, <2>2, Zenon
<1>10. \A i \in 1 .. 2 - 1 : i = 1
  OBVIOUS
<1>11. u \notin 128 .. 191
  BY <1>3
<1> QED
  BY <1>1, <1>2, <1>4, <1>6, <1>7, <1>8, <1>9, <1>10, <1>11, Zenon DEF IsCharacter

LEMMA CharacterOfThree ==
    ASSUME NEW mem \in Seq(Byte), NEW p \in Nat, p + 3 <= Len(mem), CheckFirst(At(mem, p)) = 3,
           CheckFull(mem, p, 3)
    PROVE  IsCharacter(mem, p, 3, FullValue(mem, p, 3))
<1>1. PICK u \in Byte : u = At(mem, p)
  BY ByteAt
<1>2. PICK b \in 128 .. 191, d \in 128 .. 191 : b = At(mem, p + 1) /\ d = At(mem, p + 2)
  BY FullThree
<1>3. b \in Byte /\ d \in Byte /\ u \in 224 .. 239
  <2>1. CheckFirst(u) = 3
    BY <1>1
  <2>2. u \in 224 .. 239
    BY <2>1, FirstIs
  <2>3. b \in Byte /\ d \in Byte
    BY SMT DEF Byte
  <2> QED
    BY <2>2, <2>3
<1>4. PICK v : v = FullValue(mem, p, 3)
  OBVIOUS
<1>5. v = ((u % 16) * 64 + (b % 64)) * 64 + (d % 64)
  BY <1>1, <1>2, <1>3, <1>4, ValueOfThree
<1>6. IsScalar(v) /\ v >= Wide
  BY <1>4, FullThree
<1>7. v \in Nat /\ Encode(v) = <<u, b, d>>
  BY <1>2, <1>3, <1>5, <1>6, DecodeThree, ZenonT(60)
<1>8. /\ Len(<<u, b, d>>) = 3 /\ <<u, b, d>> \in Seq(Byte)
      /\ <<u, b, d>>[1] = u /\ <<u, b, d>>[2] = b /\ <<u, b, d>>[3] = d
  BY <1>3
<1>9. \A i \in 1 .. 3 : <<u, b, d>>[i] = At(mem, p + (i - 1))
  <2>1. \A i \in 1 .. 3 : i = 1 \/ i = 2 \/ i = 3
    OBVIOUS
  <2>2. p + (1 - 1) = p /\ p + (2 - 1) = p + 1 /\ p + (3 - 1) = p + 2
    OBVIOUS
  <2> QED
    BY <1>1, <1>2, <1>8, <2>1, <2>2, ZenonT(60)
<1>10. \A i \in 1 .. 3 - 1 : i = 1 \/ i = 2
  OBVIOUS
<1>11. u \notin 128 .. 191
  BY <1>3
<1> QED
  BY <1>1, <1>2, <1>4, <1>6, <1>7, <1>8, <1>9, <1>10, <1>11, ZenonT(60) DEF IsCharacter

LEMMA CharacterOfFour ==
    ASSUME NEW mem \in Seq(Byte), NEW p \in Nat, p + 4 <= Len(mem), CheckFirst(At(mem, p)) = 4,
           CheckFull(mem, p, 4)
    PROVE  IsCharacter(mem, p, 4, FullValue(mem, p, 4))
<1>1. PICK u \in Byte : u = At(mem, p)
  BY ByteAt
<1>2. PICK b \in 128 .. 191, d \in 128 .. 191, e \in 128 .. 191 :
          b = At(mem, p + 1) /\ d = At(mem, p + 2) /\ e = At(mem, p + 3)
  <2>1. /\ At(mem, p + 1) \in 128 .. 191 /\ At(mem, p + 2) \in 128 .. 191
        /\ At(mem, p + 3) \in 128 .. 191
    <3>1. p \in Nat /\ CheckFull(mem, p, 4)
      OBVIOUS
    <3> QED
      BY ONLY <3>1, FullFour, SMTT(40)
  <2> QED
    BY <2>1
<1>3. b \in Byte /\ d \in Byte /\ e \in Byte /\ u \in 240 .. 244
  <2>1. CheckFirst(u) = 4
    BY <1>1
  <2>2. u \in 240 .. 244
    BY <2>1, FirstIs
  <2>3. b \in Byte /\ d \in Byte /\ e \in Byte
    BY SMT DEF Byte
  <2> QED
    BY <2>2, <2>3
<1>4. PICK v : v = FullValue(mem, p, 4)
  OBVIOUS
<1>5. v = ValueFour(u, b, d, e)
  <2>1. At(mem, p) = u /\ At(mem, p + 1) = b /\ At(mem, p + 2) = d /\ At(mem, p + 3) = e
    BY <1>1, <1>2
  <2>2. p \in Nat /\ u \in Byte /\ b \in Byte /\ d \in Byte /\ e \in Byte
    BY <1>3
  <2>3. FullValue(mem, p, 4) = ValueFour(u, b, d, e)
    BY ONLY <2>1, <2>2, ValueOfFour
  <2> QED
    BY <1>4, <2>3
<1>6. IsScalar(v) /\ v >= Wider /\ v <= MaxCodePoint
  BY <1>4, FullFour DEF IsScalar
<1>7. v \in Nat /\ Encode(v) = <<u, b, d, e>>
  <2>1. ValueFour(u, b, d, e) >= Wider /\ ValueFour(u, b, d, e) <= MaxCodePoint
    BY <1>5, <1>6
  <2>2. u \in 240 .. 244 /\ b \in 128 .. 191 /\ d \in 128 .. 191 /\ e \in 128 .. 191
    BY <1>2, <1>3
  <2>3. ValueFour(u, b, d, e) \in Nat /\ Encode(ValueFour(u, b, d, e)) = <<u, b, d, e>>
    BY ONLY <2>1, <2>2, DecodeFour, ZenonT(60)
  <2> QED
    BY <1>5, <2>3, Zenon
<1>8. /\ Len(<<u, b, d, e>>) = 4 /\ <<u, b, d, e>> \in Seq(Byte)
      /\ <<u, b, d, e>>[1] = u /\ <<u, b, d, e>>[2] = b /\ <<u, b, d, e>>[3] = d /\ <<u, b, d, e>>[4] = e
  BY <1>3
<1>9. \A i \in 1 .. 4 : <<u, b, d, e>>[i] = At(mem, p + (i - 1))
  <2>1. \A i \in 1 .. 4 : i = 1 \/ i = 2 \/ i = 3 \/ i = 4
    OBVIOUS
  <2>2. p + (1 - 1) = p /\ p + (2 - 1) = p + 1 /\ p + (3 - 1) = p + 2 /\ p + (4 - 1) = p + 3
    OBVIOUS
  <2>3. At(mem, p + (1 - 1)) = u /\ At(mem, p + (2 - 1)) = b
    BY <1>1, <1>2, <2>2, Zenon
  <2>4. At(mem, p + (3 - 1)) = d /\ At(mem, p + (4 - 1)) = e
    BY <1>2, <2>2, Zenon
  <2> QED
    BY <1>8, <2>1, <2>3, <2>4, Zenon
<1>10. \A i \in 1 .. 4 - 1 : i = 1 \/ i = 2 \/ i = 3
  OBVIOUS
<1>11. u \notin 128 .. 191
  BY <1>3
<1> QED
  BY <1>1, <1>2, <1>4, <1>6, <1>7, <1>8, <1>9, <1>10, <1>11, ZenonT(60) DEF IsCharacter

\* utf8_iterate() finds a character, or does not, within bufsize bytes.
LEMMA IterateIs ==
    ASSUME NEW mem \in Seq(Byte), NEW p \in Nat, NEW n \in Nat, p + n <= Len(mem),
           NEW it, it = Iterate(mem, p, n)
    PROVE  /\ n = 0 => it.at = p
           /\ n > 0 /\ it.at # NULL =>
                /\ it.at \in p + 1 .. p + n
                /\ it.at = p + CheckFirst(At(mem, p))
                /\ IsCharacter(mem, p, it.at - p, it.value)
           /\ n > 0 => (it.at = NULL <=>
                LET count == CheckFirst(At(mem, p)) IN
                count = 0 \/ count > n \/ (count > 1 /\ ~CheckFull(mem, p, count)))
<1>1. PICK count : count = CheckFirst(At(mem, p))
  OBVIOUS
<1>2. n > 0 => count \in 0 .. 4
  BY <1>1, ByteAt, FirstIs
<1>3. p # NULL
  BY DEF NULL
<1>4. CASE n = 0
  BY <1>4 DEF Iterate
<1>5. CASE n > 0 /\ count = 1
  <2>1. it = [at |-> p + 1, value |-> At(mem, p)]
    BY <1>1, <1>5 DEF Iterate
  <2>2. p + 1 <= Len(mem) /\ Len(mem) \in Nat
    BY <1>5
  <2>3. IsCharacter(mem, p, 1, At(mem, p))
    BY <1>1, <1>5, <2>2, CharacterOfOne
  <2>4. it.at - p = 1 /\ it.at = p + 1 /\ it.at # NULL /\ it.value = At(mem, p)
    BY <2>1 DEF NULL
  <2> QED
    BY <1>1, <1>5, <2>3, <2>4
<1>6. CASE n > 0 /\ count \in 2 .. 4 /\ count <= n /\ CheckFull(mem, p, count)
  <2>1. it = [at |-> p + count, value |-> FullValue(mem, p, count)]
    BY <1>1, <1>6 DEF Iterate
  <2>2. IsCharacter(mem, p, count, FullValue(mem, p, count))
    <3>1. count = 2 \/ count = 3 \/ count = 4
      BY <1>6
    <3> QED
      BY <1>1, <1>6, <3>1, CharacterOfTwo, CharacterOfThree, CharacterOfFour
  <2>3. it.at - p = count /\ it.at = p + count /\ it.at # NULL /\ it.at \in p + 1 .. p + n
    BY <1>6, <2>1 DEF NULL
  <2> QED
    BY <1>1, <1>6, <2>1, <2>2, <2>3
<1>7. CASE n > 0 /\ count # 1 /\ ~(count \in 2 .. 4 /\ count <= n /\ CheckFull(mem, p, count))
  <2>1. ~(count > 0 /\ count <= n /\ CheckFull(mem, p, count))
    BY <1>2, <1>7
  <2>2. it = [at |-> NULL, value |-> NULL]
    BY <1>1, <1>7, <2>1 DEF Iterate
  <2> QED
    BY <1>1, <1>2, <1>7, <2>1, <2>2
<1> QED
  BY <1>2, <1>4, <1>5, <1>6, <1>7

\* The number of bytes decides what utf8_encode() writes.
LEMMA EncodeCases ==
    ASSUME NEW c \in Nat
    PROVE  c < 128 \/ (128 <= c /\ c < Wide) \/ (Wide <= c /\ c < Wider) \/ Wider <= c
  BY SMT DEF Wide, Wider

\* What is written for a code point of two, three and four bytes.
LEMMA WritesTwo ==
    ASSUME NEW c \in Nat, 128 <= c, c < Wide
    PROVE  \E u \in 194 .. 223 : \E b \in 128 .. 191 :
            Encode(c) = <<u, b>> /\ (u % 32) * 64 + (b % 64) = c
<1>1. PICK u, b : u = 192 + c \div 64 /\ b = 128 + (c % 64)
  OBVIOUS
<1>2. Encode(c) = <<u, b>>
  BY <1>1, EncodeIs
<1>3. u \in 194 .. 223 /\ b \in 128 .. 191 /\ (u % 32) * 64 + (b % 64) = c
  BY <1>1, EncodeTwo
<1> QED
  BY <1>2, <1>3, Zenon

LEMMA WritesThree ==
    ASSUME NEW c \in Nat, Wide <= c, c < Wider
    PROVE  \E u \in 224 .. 239 : \E b \in 128 .. 191 : \E d \in 128 .. 191 :
            Encode(c) = <<u, b, d>> /\ ValueThree(u, b, d) = c
<1>1. PICK u, b, d : u = 224 + (c \div 64) \div 64 /\ b = 128 + ((c \div 64) % 64) /\ d = 128 + (c % 64)
  OBVIOUS
<1>2. Encode(c) = <<u, b, d>>
  BY <1>1, EncodeIs
<1>3. /\ u \in 224 .. 239 /\ b \in 128 .. 191 /\ d \in 128 .. 191
      /\ ValueThree(u, b, d) = c
  BY <1>1, EncodeThree
<1> QED
  BY <1>2, <1>3, Zenon

LEMMA WritesFour ==
    ASSUME NEW c \in Nat, Wider <= c, c <= MaxCodePoint
    PROVE  \E u \in 240 .. 244 : \E b \in 128 .. 191 : \E d \in 128 .. 191 : \E e \in 128 .. 191 :
            Encode(c) = <<u, b, d, e>> /\ ValueFour(u, b, d, e) = c
<1>1. PICK u, b, d, e :
          /\ u = 240 + ((c \div 64) \div 64) \div 64 /\ b = 128 + (((c \div 64) \div 64) % 64)
          /\ d = 128 + ((c \div 64) % 64) /\ e = 128 + (c % 64)
  OBVIOUS
<1>2. Encode(c) = <<u, b, d, e>>
  BY <1>1, EncodeIs
<1>3. /\ u \in 240 .. 244 /\ b \in 128 .. 191 /\ d \in 128 .. 191 /\ e \in 128 .. 191
      /\ ValueFour(u, b, d, e) = c
  BY <1>1, EncodeFour
<1> QED
  BY <1>2, <1>3, Zenon

\* What encoding gives: one to four bytes, of which the first does not continue
\* a character; and no '\0' but for the code point 0.
LEMMA EncodedShape ==
    ASSUME NEW c \in Nat, c <= MaxCodePoint
    PROVE  /\ Encode(c) \in Seq(Byte) /\ Len(Encode(c)) \in 1 .. 4
           /\ Encode(c)[1] \notin 128 .. 191
           /\ c # 0 => \A i \in 1 .. Len(Encode(c)) : Encode(c)[i] # 0
<1>1. CASE c < 128
  <2>1. Encode(c) = <<c>>
    BY <1>1, EncodeIs
  <2>2. c \in Byte /\ c \notin 128 .. 191
    BY <1>1, SMT DEF Byte
  <2>3. Len(<<c>>) = 1 /\ <<c>> \in Seq(Byte) /\ <<c>>[1] = c /\ 1 \in 1 .. 4 /\ \A i \in 1 .. 1 : i = 1
    BY <2>2
  <2> QED
    BY <2>1, <2>2, <2>3, Zenon
<1>2. CASE 128 <= c /\ c < Wide
  <2>2. PICK u \in 194 .. 223, b \in 128 .. 191 : Encode(c) = <<u, b>> /\ (u % 32) * 64 + (b % 64) = c
    BY <1>2, WritesTwo, Zenon
  <2>3. u \in 194 .. 223 /\ b \in 128 .. 191 /\ (u % 32) * 64 + (b % 64) = c
    BY <2>2, Zenon
  <2>4. u \in Byte /\ b \in Byte /\ u \notin 128 .. 191 /\ u # 0 /\ b # 0
    BY <2>3, SMT DEF Byte
  <2>5. /\ Len(<<u, b>>) = 2 /\ <<u, b>> \in Seq(Byte) /\ <<u, b>>[1] = u /\ <<u, b>>[2] = b
        /\ 2 \in 1 .. 4 /\ \A i \in 1 .. 2 : i = 1 \/ i = 2
    BY <2>4
  <2>6. \A i \in 1 .. 2 : <<u, b>>[i] # 0
    BY <2>4, <2>5
  <2>7. Encode(c)[1] \notin 128 .. 191
    <3>1. Encode(c)[1] = u
      BY <2>2, <2>5, Zenon
    <3> QED
      BY <2>4, <3>1
  <2>8. Encode(c) \in Seq(Byte) /\ Len(Encode(c)) \in 1 .. 4
    BY <2>2, <2>5, Zenon
  <2>9. \A i \in 1 .. Len(Encode(c)) : Encode(c)[i] # 0
    <3>1. PICK t : t = <<u, b>>
      OBVIOUS
    <3>2. Encode(c) = t /\ Len(t) = 2 /\ \A i \in 1 .. 2 : t[i] # 0
      BY <2>2, <2>5, <2>6, <3>1, Zenon
    <3> QED
      BY ONLY <3>2, SMT
  <2> QED
    BY <2>7, <2>8, <2>9
<1>3. CASE Wide <= c /\ c < Wider
  <2>2. PICK u \in 224 .. 239, b \in 128 .. 191, d \in 128 .. 191 :
            Encode(c) = <<u, b, d>> /\ ValueThree(u, b, d) = c
    BY <1>3, WritesThree, Zenon
  <2>3. /\ u \in 224 .. 239 /\ b \in 128 .. 191 /\ d \in 128 .. 191
        /\ ValueThree(u, b, d) = c
    BY <2>2, Zenon
  <2>4. u \in Byte /\ b \in Byte /\ d \in Byte /\ u \notin 128 .. 191 /\ u # 0 /\ b # 0 /\ d # 0
    BY <2>3, SMT DEF Byte
  <2>5. /\ Len(<<u, b, d>>) = 3 /\ <<u, b, d>> \in Seq(Byte)
        /\ <<u, b, d>>[1] = u /\ <<u, b, d>>[2] = b /\ <<u, b, d>>[3] = d
        /\ 3 \in 1 .. 4 /\ \A i \in 1 .. 3 : i = 1 \/ i = 2 \/ i = 3
    BY <2>4
  <2>6. \A i \in 1 .. 3 : <<u, b, d>>[i] # 0
    BY <2>4, <2>5
  <2>7. Encode(c)[1] \notin 128 .. 191
    <3>1. Encode(c)[1] = u
      BY <2>2, <2>5, Zenon
    <3> QED
      BY <2>4, <3>1
  <2>8. Encode(c) \in Seq(Byte) /\ Len(Encode(c)) \in 1 .. 4
    BY <2>2, <2>5, Zenon
  <2>9. \A i \in 1 .. Len(Encode(c)) : Encode(c)[i] # 0
    <3>1. PICK t : t = <<u, b, d>>
      OBVIOUS
    <3>2. Encode(c) = t /\ Len(t) = 3 /\ \A i \in 1 .. 3 : t[i] # 0
      BY <2>2, <2>5, <2>6, <3>1, Zenon
    <3> QED
      BY ONLY <3>2, SMT
  <2> QED
    BY <2>7, <2>8, <2>9
<1>4. CASE Wider <= c
  <2>2. PICK u \in 240 .. 244, b \in 128 .. 191, d \in 128 .. 191, e \in 128 .. 191 :
            Encode(c) = <<u, b, d, e>> /\ ValueFour(u, b, d, e) = c
    BY <1>4, WritesFour, Zenon
  <2>3. /\ u \in 240 .. 244 /\ b \in 128 .. 191 /\ d \in 128 .. 191 /\ e \in 128 .. 191
        /\ ValueFour(u, b, d, e) = c
    BY <2>2, Zenon
  <2>4. /\ u \in Byte /\ b \in Byte /\ d \in Byte /\ e \in Byte
        /\ u \notin 128 .. 191 /\ u # 0 /\ b # 0 /\ d # 0 /\ e # 0
    BY <2>3, SMT DEF Byte
  <2>5. /\ Len(<<u, b, d, e>>) = 4 /\ <<u, b, d, e>> \in Seq(Byte)
        /\ <<u, b, d, e>>[1] = u /\ <<u, b, d, e>>[2] = b /\ <<u, b, d, e>>[3] = d /\ <<u, b, d, e>>[4] = e
        /\ 4 \in 1 .. 4 /\ \A i \in 1 .. 4 : i = 1 \/ i = 2 \/ i = 3 \/ i = 4
    BY <2>4
  <2>6. \A i \in 1 .. 4 : <<u, b, d, e>>[i] # 0
    BY <2>4, <2>5
  <2>7. Encode(c)[1] \notin 128 .. 191
    <3>1. Encode(c)[1] = u
      BY <2>2, <2>5, Zenon
    <3> QED
      BY <2>4, <3>1
  <2>8. Encode(c) \in Seq(Byte) /\ Len(Encode(c)) \in 1 .. 4
    BY <2>2, <2>5, ZenonT(60)
  <2>9. \A i \in 1 .. Len(Encode(c)) : Encode(c)[i] # 0
    <3>1. PICK t : t = <<u, b, d, e>>
      OBVIOUS
    <3>2. Encode(c) = t /\ Len(t) = 4 /\ \A i \in 1 .. 4 : t[i] # 0
      BY <2>2, <2>5, <2>6, <3>1, Zenon
    <3> QED
      BY ONLY <3>2, SMT
  <2> QED
    BY <2>7, <2>8, <2>9
<1> QED
  BY <1>1, <1>2, <1>3, <1>4, EncodeCases, Zenon

\* The bytes w stand at p.
Spells(mem, p, w) == \A i \in 1 .. Len(w) : At(mem, p + (i - 1)) = w[i]

\* utf8_iterate() at the bytes of c answers c, or that they are no character.
LEMMA IterateEncoded ==
    ASSUME NEW mem \in Seq(Byte), NEW p \in Nat, NEW c \in Nat, c <= MaxCodePoint,
           NEW k, k = Len(Encode(c)), NEW n \in Nat, k <= n, p + n <= Len(mem),
           Spells(mem, p, Encode(c)),
           NEW it, it = Iterate(mem, p, n)
    PROVE  it.at = NULL \/ (it.at = p + k /\ it.value = c)
<1>1. /\ \A i \in 1 .. k : At(mem, p + (i - 1)) = Encode(c)[i]
      /\ p + (1 - 1) = p /\ p + (2 - 1) = p + 1 /\ p + (3 - 1) = p + 2 /\ p + (4 - 1) = p + 3
  <2>1. \A i \in 1 .. k : At(mem, p + (i - 1)) = Encode(c)[i]
    BY Zenon DEF Spells
  <2>2. p + (1 - 1) = p /\ p + (2 - 1) = p + 1 /\ p + (3 - 1) = p + 2 /\ p + (4 - 1) = p + 3
    OBVIOUS
  <2> QED
    BY <2>1, <2>2
<1>2. /\ 1 \in 1 .. 1
      /\ 1 \in 1 .. 2 /\ 2 \in 1 .. 2
      /\ 1 \in 1 .. 3 /\ 2 \in 1 .. 3 /\ 3 \in 1 .. 3
      /\ 1 \in 1 .. 4 /\ 2 \in 1 .. 4 /\ 3 \in 1 .. 4 /\ 4 \in 1 .. 4
  OBVIOUS
<1>3. ASSUME NEW u \in Byte, u = At(mem, p), CheckFirst(u) = k, k \in 1 .. 4,
             (k = 1 /\ u = c) \/ (k > 1 /\ FullValue(mem, p, k) = c)
      PROVE  it.at = NULL \/ (it.at = p + k /\ it.value = c)
  BY <1>3 DEF Iterate
<1>4. CASE c < 128
  <2>1. Encode(c) = <<c>>
    BY <1>4, EncodeIs
  <2>2. Len(<<c>>) = 1 /\ <<c>>[1] = c
    OBVIOUS
  <2>3. k = 1 /\ At(mem, p) = c
    BY <1>1, <1>2, <2>1, <2>2, Zenon
  <2>4. c \in Byte /\ CheckFirst(c) = 1
    <3>1. c \in Byte /\ c \in 0 .. 127
      BY <1>4, SMT DEF Byte
    <3> QED
      BY <3>1, FirstIs, Zenon
  <2> QED
    BY <1>3, <2>3, <2>4
<1>5. CASE 128 <= c /\ c < Wide
  <2>2. PICK u \in 194 .. 223, b \in 128 .. 191 : Encode(c) = <<u, b>> /\ (u % 32) * 64 + (b % 64) = c
    BY <1>5, WritesTwo, Zenon
  <2>3. u \in 194 .. 223 /\ b \in 128 .. 191 /\ (u % 32) * 64 + (b % 64) = c
    BY <2>2, Zenon
  <2>4. u \in Byte /\ b \in Byte
    BY <2>3, SMT DEF Byte
  <2>5. Len(<<u, b>>) = 2 /\ <<u, b>>[1] = u /\ <<u, b>>[2] = b
    OBVIOUS
  <2>6. k = 2 /\ At(mem, p) = u /\ At(mem, p + 1) = b
    BY <1>1, <1>2, <2>2, <2>5, Zenon
  <2>7. FullValue(mem, p, 2) = c
    <3>1. FullValue(mem, p, 2) = (u % 32) * 64 + (b % 64)
      BY <2>4, <2>6, ValueOfTwo
    <3> QED
      BY <2>3, <3>1, Zenon
  <2>8. CheckFirst(u) = 2
    BY <2>3, <2>4, FirstIs, Zenon
  <2> QED
    BY <1>3, <2>4, <2>6, <2>7, <2>8
<1>6. CASE Wide <= c /\ c < Wider
  <2>2. PICK u \in 224 .. 239, b \in 128 .. 191, d \in 128 .. 191 :
            Encode(c) = <<u, b, d>> /\ ValueThree(u, b, d) = c
    BY <1>6, WritesThree, Zenon
  <2>3. /\ u \in 224 .. 239 /\ b \in 128 .. 191 /\ d \in 128 .. 191
        /\ ValueThree(u, b, d) = c
    BY <2>2, Zenon
  <2>4. u \in Byte /\ b \in Byte /\ d \in Byte
    BY <2>3, SMT DEF Byte
  <2>5. Len(<<u, b, d>>) = 3 /\ <<u, b, d>>[1] = u /\ <<u, b, d>>[2] = b /\ <<u, b, d>>[3] = d
    OBVIOUS
  <2>6. k = 3 /\ At(mem, p) = u /\ At(mem, p + 1) = b /\ At(mem, p + 2) = d
    BY <1>1, <1>2, <2>2, <2>5, Zenon
  <2>7. FullValue(mem, p, 3) = c
    <3>1. FullValue(mem, p, 3) = ((u % 16) * 64 + (b % 64)) * 64 + (d % 64)
      <4>1. /\ p \in Nat /\ u \in Byte /\ b \in Byte /\ d \in Byte
            /\ At(mem, p) = u /\ At(mem, p + 1) = b /\ At(mem, p + 2) = d
        BY <2>4, <2>6, Zenon
      <4> QED
        BY ONLY <4>1, ValueOfThree, SMTT(40)
    <3> QED
      BY <2>3, <3>1, Zenon DEF ValueThree
  <2>8. CheckFirst(u) = 3
    BY <2>3, <2>4, FirstIs, Zenon
  <2> QED
    BY <1>3, <2>4, <2>6, <2>7, <2>8
<1>7. CASE Wider <= c
  <2>2. PICK u \in 240 .. 244, b \in 128 .. 191, d \in 128 .. 191, e \in 128 .. 191 :
            Encode(c) = <<u, b, d, e>> /\ ValueFour(u, b, d, e) = c
    BY <1>7, WritesFour, Zenon
  <2>3. /\ u \in 240 .. 244 /\ b \in 128 .. 191 /\ d \in 128 .. 191 /\ e \in 128 .. 191
        /\ ValueFour(u, b, d, e) = c
    BY <2>2, Zenon
  <2>4. u \in Byte /\ b \in Byte /\ d \in Byte /\ e \in Byte
    BY <2>3, SMT DEF Byte
  <2>5. /\ Len(<<u, b, d, e>>) = 4 /\ <<u, b, d, e>>[1] = u /\ <<u, b, d, e>>[2] = b
        /\ <<u, b, d, e>>[3] = d /\ <<u, b, d, e>>[4] = e
    OBVIOUS
  <2>6. k = 4 /\ At(mem, p) = u /\ At(mem, p + 1) = b /\ At(mem, p + 2) = d
    BY <1>1, <1>2, <2>2, <2>5, Zenon
  <2>7. At(mem, p + 3) = e
    BY <1>1, <1>2, <2>2, <2>5, Zenon
  <2>8. FullValue(mem, p, 4) = c
    <3>1. FullValue(mem, p, 4) = ValueFour(u, b, d, e)
      BY <2>4, <2>6, <2>7, ValueOfFour
    <3> QED
      BY <2>3, <3>1, Zenon
  <2>9. CheckFirst(u) = 4
    BY <2>3, <2>4, FirstIs, Zenon
  <2> QED
    BY <1>3, <2>4, <2>6, <2>8, <2>9
<1> QED
  BY <1>4, <1>5, <1>6, <1>7, EncodeCases, Zenon

LEMMA IterateEncodedAll ==
    \A mem \in Seq(Byte) : \A p \in Nat : \A c \in Nat : \A k : \A n \in Nat : \A it :
        /\ c <= MaxCodePoint /\ k = Len(Encode(c)) /\ k <= n /\ p + n <= Len(mem)
        /\ Spells(mem, p, Encode(c)) /\ it = Iterate(mem, p, n)
        => it.at = NULL \/ (it.at = p + k /\ it.value = c)
  BY IterateEncoded, SMT

\* The bytes that begin two, three and four, those that continue, and what the
\* first says of the second.
Lead2 == 194 .. 223
Lead3 == 224 .. 239
Lead4 == 240 .. 244
Cont  == 128 .. 191
Second3(u, b) == (u = 224 => b >= 160) /\ (u = 237 => b <= 159)
Second4(u, b) == (u = 240 => b >= 144) /\ (u = 244 => b <= 143)

\* The bounds on the bytes are those on the code points.
LEMMA ScalarsTwo ==
    ASSUME NEW u \in 194 .. 223, NEW b \in 128 .. 191, NEW v, v = (u % 32) * 64 + (b % 64)
    PROVE  v \in Nat /\ v >= 128 /\ IsScalar(v)
<1>1. u % 32 = u - 192 /\ b % 64 = b - 128
  BY LeadBits, SMT DEF Byte
<1>2. v = (u - 192) * 64 + (b - 128)
  BY <1>1
<1> QED
  BY <1>2, SMT DEF IsScalar, MaxCodePoint

LEMMA ScalarsThree ==
    ASSUME NEW u \in 224 .. 239, NEW b \in 128 .. 191, NEW d \in 128 .. 191,
           u = 224 => b >= 160, u = 237 => b <= 159
    PROVE  /\ ValueThree(u, b, d) \in Nat /\ ValueThree(u, b, d) >= Wide
           /\ IsScalar(ValueThree(u, b, d))
<1>1. u % 16 = u - 224 /\ b % 64 = b - 128 /\ d % 64 = d - 128
  BY LeadBits, SMT DEF Byte
<1>2. PICK v : v = ValueThree(u, b, d)
  OBVIOUS
<1>3. v = ((u - 224) * 64 + (b - 128)) * 64 + (d - 128)
  BY <1>1, <1>2 DEF ValueThree
<1>4. v \in Nat /\ v >= Wide
  BY <1>3, SMT DEF Wide
<1>5. IsScalar(v)
  BY <1>3, <1>4, SMT DEF IsScalar, MaxCodePoint
<1> QED
  BY <1>2, <1>4, <1>5, Zenon

LEMMA ScalarsFour ==
    ASSUME NEW u \in 240 .. 244, NEW b \in 128 .. 191, NEW d \in 128 .. 191, NEW e \in 128 .. 191,
           u = 240 => b >= 144, u = 244 => b <= 143
    PROVE  /\ ValueFour(u, b, d, e) \in Nat /\ ValueFour(u, b, d, e) >= Wider
           /\ IsScalar(ValueFour(u, b, d, e))
<1>1. u % 8 = u - 240 /\ b % 64 = b - 128 /\ d % 64 = d - 128 /\ e % 64 = e - 128
  BY LeadBits, SMT DEF Byte
<1>2. PICK v : v = ValueFour(u, b, d, e)
  OBVIOUS
<1>3. v = (((u - 240) * 64 + (b - 128)) * 64 + (d - 128)) * 64 + (e - 128)
  BY <1>1, <1>2 DEF ValueFour
<1>4. v \in Nat /\ v >= Wider
  BY <1>3, SMT DEF Wider
<1>5. IsScalar(v)
  BY <1>3, <1>4, SMT DEF IsScalar, MaxCodePoint, Wider
<1> QED
  BY <1>2, <1>4, <1>5, Zenon

\* utf8_iterate() accepts what the bounds on the bytes allow.
LEMMA AcceptsTwo ==
    ASSUME NEW mem, NEW p \in Nat, NEW n \in Nat, n >= 2,
           NEW u \in Lead2, NEW b \in Cont, At(mem, p) = u, At(mem, p + 1) = b
    PROVE  Iterate(mem, p, n).at # NULL
<1>1. u \in Byte /\ b \in Byte
  BY SMT DEF Byte, Lead2, Cont
<1>2. PICK v : v = FullValue(mem, p, 2)
  OBVIOUS
<1>3. v = (u % 32) * 64 + (b % 64)
  BY <1>1, <1>2, ValueOfTwo
<1>4. v >= 128 /\ IsScalar(v)
  BY <1>3, ScalarsTwo DEF Lead2, Cont
<1>5. CheckFull(mem, p, 2)
  BY <1>2, <1>4, FullTwo DEF Cont
<1>6. CheckFirst(u) = 2
  BY <1>1, FirstIs DEF Lead2
<1> QED
  BY <1>5, <1>6 DEF Iterate, NULL

LEMMA AcceptsThree ==
    ASSUME NEW mem, NEW p \in Nat, NEW n \in Nat, n >= 3,
           NEW u \in Lead3, NEW b \in Cont, NEW d \in Cont, Second3(u, b),
           At(mem, p) = u, At(mem, p + 1) = b, At(mem, p + 2) = d
    PROVE  Iterate(mem, p, n).at # NULL
<1>1. u \in Byte /\ b \in Byte /\ d \in Byte
  BY SMT DEF Byte, Lead3, Cont
<1>2. PICK v : v = FullValue(mem, p, 3)
  OBVIOUS
<1>3. v = ValueThree(u, b, d)
  BY <1>1, <1>2, ValueOfThree DEF ValueThree
<1>4. v >= Wide /\ IsScalar(v)
  <2>1. /\ u \in 224 .. 239 /\ b \in 128 .. 191 /\ d \in 128 .. 191
        /\ (u = 224 => b >= 160) /\ (u = 237 => b <= 159)
    BY DEF Lead3, Cont, Second3
  <2>2. ValueThree(u, b, d) >= Wide /\ IsScalar(ValueThree(u, b, d))
    BY ONLY <2>1, ScalarsThree, ZenonT(60)
  <2> QED
    BY <1>3, <2>2, Zenon
<1>5. CheckFull(mem, p, 3)
  BY <1>2, <1>4, FullThree DEF Cont
<1>6. CheckFirst(u) = 3
  BY <1>1, FirstIs DEF Lead3
<1> QED
  BY <1>5, <1>6 DEF Iterate, NULL

LEMMA AcceptsFour ==
    ASSUME NEW mem, NEW p \in Nat, NEW n \in Nat, n >= 4,
           NEW u \in Lead4, NEW b \in Cont, NEW d \in Cont, NEW e \in Cont, Second4(u, b),
           At(mem, p) = u, At(mem, p + 1) = b, At(mem, p + 2) = d, At(mem, p + 3) = e
    PROVE  Iterate(mem, p, n).at # NULL
<1>1. u \in Byte /\ b \in Byte /\ d \in Byte /\ e \in Byte
  BY SMT DEF Byte, Lead4, Cont
<1>2. PICK v : v = FullValue(mem, p, 4)
  OBVIOUS
<1>3. v = ValueFour(u, b, d, e)
  BY <1>1, <1>2, ValueOfFour
<1>4. v >= Wider /\ IsScalar(v)
  <2>1. /\ u \in 240 .. 244 /\ b \in 128 .. 191 /\ d \in 128 .. 191 /\ e \in 128 .. 191
        /\ (u = 240 => b >= 144) /\ (u = 244 => b <= 143)
    BY Zenon DEF Lead4, Cont, Second4
  <2>2. /\ ValueFour(u, b, d, e) \in Nat /\ ValueFour(u, b, d, e) >= Wider
        /\ IsScalar(ValueFour(u, b, d, e))
    BY ONLY <2>1, ScalarsFour
  <2> QED
    BY <1>3, <2>2
<1>5. CheckFull(mem, p, 4)
  BY <1>2, <1>4, FullFour DEF Cont
<1>6. CheckFirst(u) = 4
  BY <1>1, FirstIs DEF Lead4
<1> QED
  BY <1>5, <1>6 DEF Iterate, NULL

\* What Unicode's table of well-formed byte sequences allows is accepted.
LEMMA RowOfOne ==
    ASSUME NEW A, \A u \in A : u \in Byte /\ CheckFirst(u) = 1,
           NEW mem, NEW p \in Nat, NEW n \in Nat, Len(<<A>>) <= n,
           \A i \in DOMAIN <<A>> : At(mem, p + i - 1) \in <<A>>[i]
    PROVE  Iterate(mem, p, n).at # NULL
<1>1. Len(<<A>>) = 1 /\ 1 \in DOMAIN <<A>> /\ <<A>>[1] = A
  OBVIOUS
<1>2. p + 1 - 1 = p
  OBVIOUS
<1>3. PICK u \in A : u = At(mem, p)
  BY <1>1, <1>2, Zenon
<1> QED
  BY <1>1, <1>3 DEF Iterate, NULL

LEMMA RowOfTwo ==
    ASSUME NEW A, NEW B, A \subseteq Lead2, B \subseteq Cont,
           NEW mem, NEW p \in Nat, NEW n \in Nat, Len(<<A, B>>) <= n,
           \A i \in DOMAIN <<A, B>> : At(mem, p + i - 1) \in <<A, B>>[i]
    PROVE  Iterate(mem, p, n).at # NULL
<1>1. /\ Len(<<A, B>>) = 2 /\ 1 \in DOMAIN <<A, B>> /\ 2 \in DOMAIN <<A, B>>
      /\ <<A, B>>[1] = A /\ <<A, B>>[2] = B
  OBVIOUS
<1>2. p + 1 - 1 = p /\ p + 2 - 1 = p + 1
  OBVIOUS
<1>3. PICK u \in A : u = At(mem, p)
  BY <1>1, <1>2, Zenon
<1>4. PICK b \in B : b = At(mem, p + 1)
  BY <1>1, <1>2, Zenon
<1>5. n >= 2
  BY <1>1
<1> QED
  BY <1>3, <1>4, <1>5, AcceptsTwo, Zenon

LEMMA RowOfThree ==
    ASSUME NEW A, NEW B, NEW C, A \subseteq Lead3, B \subseteq Cont, C \subseteq Cont,
           \A u \in A, b \in B : Second3(u, b),
           NEW mem, NEW p \in Nat, NEW n \in Nat, Len(<<A, B, C>>) <= n,
           \A i \in DOMAIN <<A, B, C>> : At(mem, p + i - 1) \in <<A, B, C>>[i]
    PROVE  Iterate(mem, p, n).at # NULL
<1>1. /\ Len(<<A, B, C>>) = 3
      /\ 1 \in DOMAIN <<A, B, C>> /\ 2 \in DOMAIN <<A, B, C>> /\ 3 \in DOMAIN <<A, B, C>>
      /\ <<A, B, C>>[1] = A /\ <<A, B, C>>[2] = B /\ <<A, B, C>>[3] = C
  OBVIOUS
<1>2. p + 1 - 1 = p /\ p + 2 - 1 = p + 1 /\ p + 3 - 1 = p + 2
  OBVIOUS
<1>3. PICK u \in A : u = At(mem, p)
  BY <1>1, <1>2, Zenon
<1>4. PICK b \in B : b = At(mem, p + 1)
  BY <1>1, <1>2, Zenon
<1>5. PICK d \in C : d = At(mem, p + 2)
  BY <1>1, <1>2, Zenon
<1>6. n >= 3
  BY <1>1
<1> QED
  BY <1>3, <1>4, <1>5, <1>6, AcceptsThree, Zenon

LEMMA RowOfFour ==
    ASSUME NEW A, NEW B, NEW C, A \subseteq Lead4, B \subseteq Cont, C \subseteq Cont,
           \A u \in A, b \in B : Second4(u, b),
           NEW mem, NEW p \in Nat, NEW n \in Nat, Len(<<A, B, C, C>>) <= n,
           \A i \in DOMAIN <<A, B, C, C>> : At(mem, p + i - 1) \in <<A, B, C, C>>[i]
    PROVE  Iterate(mem, p, n).at # NULL
<1>1. /\ Len(<<A, B, C, C>>) = 4
      /\ 1 \in DOMAIN <<A, B, C, C>> /\ 2 \in DOMAIN <<A, B, C, C>>
      /\ 3 \in DOMAIN <<A, B, C, C>> /\ 4 \in DOMAIN <<A, B, C, C>>
      /\ <<A, B, C, C>>[1] = A /\ <<A, B, C, C>>[2] = B
      /\ <<A, B, C, C>>[3] = C /\ <<A, B, C, C>>[4] = C
  OBVIOUS
<1>2. p + 1 - 1 = p /\ p + 2 - 1 = p + 1 /\ p + 3 - 1 = p + 2 /\ p + 4 - 1 = p + 3
  OBVIOUS
<1>3. PICK u \in A : u = At(mem, p)
  BY <1>1, <1>2, Zenon
<1>4. PICK b \in B : b = At(mem, p + 1)
  BY <1>1, <1>2, Zenon
<1>5. PICK d \in C : d = At(mem, p + 2)
  BY <1>1, <1>2, Zenon
<1>6. PICK e \in C : e = At(mem, p + 3)
  BY <1>1, <1>2, Zenon
<1>7. n >= 4
  BY <1>1
<1> QED
  BY <1>3, <1>4, <1>5, <1>6, <1>7, AcceptsFour, Zenon

\* Every row of the table.
LEMMA Accepted ==
    ASSUME NEW mem, NEW p \in Nat, NEW n \in Nat, NEW row \in WellFormed, Len(row) <= n,
           \A i \in DOMAIN row : At(mem, p + i - 1) \in row[i]
    PROVE  Iterate(mem, p, n).at # NULL
<1>0. row \in WellFormed
  OBVIOUS
<1>1. PICK C : C = Continuation
  OBVIOUS
<1>2. PICK S1 : S1 = \h00 .. \h7F
  OBVIOUS
<1>3. PICK S2 : S2 = \hC2 .. \hDF
  OBVIOUS
<1>4. PICK S3 : S3 = {\hE0}
  OBVIOUS
<1>5. PICK T3 : T3 = \hA0 .. \hBF
  OBVIOUS
<1>6. PICK S4 : S4 = \hE1..\hEC \cup \hEE..\hEF
  OBVIOUS
<1>7. PICK S5 : S5 = {\hED}
  OBVIOUS
<1>8. PICK T5 : T5 = \h80..\h9F
  OBVIOUS
<1>9. PICK S6 : S6 = {\hF0}
  OBVIOUS
<1>10. PICK T6 : T6 = \h90..\hBF
  OBVIOUS
<1>11. PICK S7 : S7 = \hF1..\hF3
  OBVIOUS
<1>12. PICK S8 : S8 = {\hF4}
  OBVIOUS
<1>13. PICK T8 : T8 = \h80..\h8F
  OBVIOUS
<1>14. \/ row = <<S1>>
       \/ row = <<S2, C>>
       \/ row = <<S3, T3, C>> \/ row = <<S4, C, C>> \/ row = <<S5, T5, C>>
       \/ row = <<S6, T6, C, C>> \/ row = <<S7, C, C, C>> \/ row = <<S8, T8, C, C>>
  BY ONLY <1>0, <1>1, <1>2, <1>3, <1>4, <1>5, <1>6, <1>7, <1>8, <1>9, <1>10, <1>11, <1>12, <1>13, SMT DEF WellFormed
<1>15. C \subseteq Cont
  BY <1>1, SMT DEF Continuation, Cont
<1>16. CASE row = <<S1>>
  <2>1. \A u \in S1 : u \in Byte /\ CheckFirst(u) = 1
    <3>1. \A u \in S1 : u \in Byte /\ u \in 0 .. 127
      BY <1>2, SMT DEF Byte
    <3>2. \A u \in Byte : u \in 0 .. 127 => CheckFirst(u) = 1
      BY FirstIs
    <3> QED
      BY <3>1, <3>2, Zenon
  <2> QED
    BY <1>16, <2>1, RowOfOne, Zenon
<1>17. CASE row = <<S2, C>>
  <2>1. S2 \subseteq Lead2
    BY <1>3, SMT DEF Lead2
  <2> QED
    BY <1>17, <1>15, <2>1, RowOfTwo, Zenon
<1>18. CASE row = <<S3, T3, C>>
  <2>1. S3 \subseteq Lead3 /\ T3 \subseteq Cont /\ \A u \in S3, b \in T3 : Second3(u, b)
    BY <1>4, <1>5, SMT DEF Lead3, Cont, Second3
  <2> QED
    BY <1>18, <1>15, <2>1, RowOfThree, Zenon
<1>19. CASE row = <<S4, C, C>>
  <2>1. S4 \subseteq Lead3 /\ \A u \in S4, b \in C : Second3(u, b)
    BY <1>6, SMT DEF Lead3, Second3
  <2> QED
    BY <1>19, <1>15, <2>1, RowOfThree, Zenon
<1>20. CASE row = <<S5, T5, C>>
  <2>1. S5 \subseteq Lead3 /\ T5 \subseteq Cont /\ \A u \in S5, b \in T5 : Second3(u, b)
    BY <1>7, <1>8, SMT DEF Lead3, Cont, Second3
  <2> QED
    BY <1>20, <1>15, <2>1, RowOfThree, Zenon
<1>21. CASE row = <<S6, T6, C, C>>
  <2>1. S6 \subseteq Lead4 /\ T6 \subseteq Cont /\ \A u \in S6, b \in T6 : Second4(u, b)
    BY <1>9, <1>10, SMT DEF Lead4, Cont, Second4
  <2> QED
    BY <1>21, <1>15, <2>1, RowOfFour, Zenon
<1>22. CASE row = <<S7, C, C, C>>
  <2>1. S7 \subseteq Lead4 /\ \A u \in S7, b \in C : Second4(u, b)
    BY <1>11, SMT DEF Lead4, Second4
  <2> QED
    BY <1>22, <1>15, <2>1, RowOfFour, Zenon
<1>23. CASE row = <<S8, T8, C, C>>
  <2>1. S8 \subseteq Lead4 /\ T8 \subseteq Cont /\ \A u \in S8, b \in T8 : Second4(u, b)
    BY <1>12, <1>13, SMT DEF Lead4, Cont, Second4
  <2> QED
    BY <1>23, <1>15, <2>1, RowOfFour, Zenon
<1> QED
  BY <1>14, <1>16, <1>17, <1>18, <1>19, <1>20, <1>21, <1>22, <1>23, Zenon

-----------------------------------------------------------------------------
(* The loops over the characters.                                          *)

\* A loop that goes from place to place up to e, and answers where it stops.
Descends(a, e, stops, answer, next, f) ==
    f = [p \in a .. e |-> IF p \in stops THEN answer[p] ELSE f[next[p]]]

LEMMA DescentExists ==
    ASSUME NEW a \in Nat, NEW e \in Nat, a <= e, NEW stops, NEW answer, NEW next,
           \A p \in a .. e : p \notin stops => next[p] \in p + 1 .. e
    PROVE  \E f : Descends(a, e, stops, answer, next, f)
<1> DEFINE Body(f, p) == IF p \in stops THEN answer[p] ELSE f[next[p]]
           Has(k) == \E f : f = [p \in k .. e |-> Body(f, p)]
           S == {k \in a .. e : ~Has(k)}
<1>1. Has(e)
  <2> DEFINE f == [p \in e .. e |-> answer[p]]
  <2>1. e \in stops
    <3>1. e \in a .. e /\ e + 1 .. e = {}
      OBVIOUS
    <3> QED
      BY <3>1
  <2>2. \A p \in e .. e : f[p] = Body(f, p)
    BY <2>1
  <2>3. f = [p \in e .. e |-> Body(f, p)]
    BY <2>2
  <2> QED
    BY <2>3
<1>2. ASSUME NEW k \in a .. e, k # a, Has(k) PROVE Has(k - 1)
  <2>1. PICK f : f = [p \in k .. e |-> Body(f, p)]
    BY <1>2
  <2> DEFINE g == [p \in k - 1 .. e |-> IF p = k - 1 THEN Body(f, p) ELSE f[p]]
  <2>2. ASSUME NEW p \in k - 1 .. e PROVE g[p] = Body(g, p)
    <3>1. p \in a .. e
      BY <1>2
    <3>2. g[p] = Body(f, p)
      <4>1. CASE p = k - 1
        BY <4>1
      <4>2. CASE p # k - 1
        <5>1. p \in k .. e /\ g[p] = f[p]
          BY <1>2, <4>2
        <5>2. f[p] = Body(f, p)
          BY <2>1, <5>1, Zenon
        <5> QED
          BY <5>1, <5>2, Zenon
      <4> QED
        BY <4>1, <4>2
    <3>3. CASE p \in stops
      BY <3>2, <3>3
    <3>4. CASE p \notin stops
      <4>1. next[p] \in p + 1 .. e
        BY <3>1, <3>4
      <4>2. next[p] \in k - 1 .. e /\ next[p] # k - 1
        BY <1>2, <4>1
      <4>3. g[next[p]] = f[next[p]]
        BY <4>2
      <4> QED
        BY <3>2, <3>4, <4>3
    <3> QED
      BY <3>3, <3>4
  <2>3. g = [p \in k - 1 .. e |-> Body(g, p)]
    BY <2>2
  <2> QED
    BY <2>3
<1> HIDE DEF Has
<1>3. ASSUME S # {} PROVE FALSE
  <2>1. S \subseteq -1 .. e
    OBVIOUS
  <2>2. PICK m \in S : \A k \in S : k <= m
    BY <1>3, <2>1, MaxIs
  <2>3. m # e /\ m + 1 \in a .. e /\ (m + 1) - 1 = m /\ m + 1 # a
    BY <1>1, <2>2
  <2>4. m + 1 \notin S
    BY <2>2, <2>3
  <2>5. Has(m + 1)
    BY <2>3, <2>4
  <2> QED
    BY <1>2, <2>2, <2>3, <2>5
<1>4. Has(a)
  BY <1>3
<1> QED
  BY <1>4 DEF Has, Descends

\* What a slice of bytes is.
IsText(x) == /\ x.mem \in Seq(Byte) /\ x.at \in Nat /\ x.len \in Nat
             /\ x.at + x.len <= Len(x.mem)

\* utf8_check_string(): f[i] tells whether it comes through from the offset i.
Checks(x, f) ==
    /\ CheckString(x.mem, x.at, x.len) <=> f[0] = 1
    /\ f[x.len] = 1
    /\ \A i \in 0 .. x.len - 1 :
        /\ Iterate(x.mem, x.at + i, x.len - i).at = NULL => f[i] = 0
        /\ Iterate(x.mem, x.at + i, x.len - i).at # NULL =>
            f[i] = f[Iterate(x.mem, x.at + i, x.len - i).at - x.at]

LEMMA ChecksExist ==
    ASSUME NEW x, IsText(x)
    PROVE  \E f : Checks(x, f)
<1> DEFINE n == x.len
           Count(i) == CheckFirst(At(x.mem, x.at + i))
           Bad(i) == \/ Count(i) = 0 \/ Count(i) > n - i
                     \/ Count(i) > 1 /\ ~CheckFull(x.mem, x.at + i, Count(i))
           Body(f, i) == IF i = n THEN 1 ELSE IF Bad(i) THEN 0 ELSE f[i + Count(i)]
           stops == {i \in 0 .. n : i = n \/ Bad(i)}
           answer == [i \in 0 .. n |-> IF i = n THEN 1 ELSE 0]
           next == [i \in 0 .. n |-> i + Count(i)]
           It(i) == Iterate(x.mem, x.at + i, n - i)
<1>1. n \in Nat /\ x.at \in Nat /\ x.mem \in Seq(Byte) /\ x.at + n <= Len(x.mem) /\ Len(x.mem) \in Nat
  BY DEF IsText
<1>2. ASSUME NEW i \in 0 .. n - 1
      PROVE  /\ It(i).at = NULL <=> Bad(i)
             /\ It(i).at # NULL => It(i).at = x.at + i + Count(i) /\ Count(i) \in 1 .. n - i
  <2>1. x.at + i \in Nat /\ n - i \in Nat /\ n - i > 0 /\ (x.at + i) + (n - i) <= Len(x.mem)
    BY <1>1
  <2>2. PICK p \in Nat, m \in Nat : p = x.at + i /\ m = n - i
    BY <2>1
  <2>3. PICK it : it = Iterate(x.mem, p, m)
    OBVIOUS
  <2>4. /\ it.at # NULL => it.at \in p + 1 .. p + m /\ it.at = p + CheckFirst(At(x.mem, p))
        /\ it.at = NULL <=>
             LET count == CheckFirst(At(x.mem, p)) IN
             count = 0 \/ count > m \/ (count > 1 /\ ~CheckFull(x.mem, p, count))
    <3>1. p \in Nat /\ m \in Nat /\ x.mem \in Seq(Byte) /\ p + m <= Len(x.mem) /\ m > 0
      BY <1>1, <2>1, <2>2
    <3> QED
      BY ONLY <2>3, <3>1, IterateIs
  <2>5. p + m \in Nat /\ CheckFirst(At(x.mem, p)) \in 0 .. 4
    <3>1. At(x.mem, p) \in Byte
      BY <1>1, <2>1, <2>2, ByteAt, SMTT(40)
    <3> QED
      BY <3>1, FirstIs
  <2> QED
    BY <2>2, <2>3, <2>4, <2>5
<1> HIDE DEF Count, Bad, It
<1>3. ASSUME NEW i \in 0 .. n, i \notin stops PROVE next[i] \in i + 1 .. n
  <2>1. i \in 0 .. n - 1 /\ ~Bad(i)
    BY <1>1, <1>3
  <2> QED
    BY <1>1, <1>2, <2>1
<1>4. PICK f : Descends(0, n, stops, answer, next, f)
  <2>1. 0 \in Nat /\ 0 <= n
    BY <1>1
  <2> HIDE DEF stops, answer, next
  <2>2. \A p \in 0 .. n : p \notin stops => next[p] \in p + 1 .. n
    BY <1>3
  <2> QED
    BY ONLY <1>1, <2>1, <2>2, DescentExists
<1>5. f = [i \in 0 .. n |-> Body(f, i)]
  <2>1. ASSUME NEW i \in 0 .. n PROVE (IF i \in stops THEN answer[i] ELSE f[next[i]]) = Body(f, i)
    BY <2>1
  <2> QED
    BY <1>4, <2>1 DEF Descends
<1>6. PICK g : g = (CHOOSE h : h = [i \in 0 .. n |-> Body(h, i)])
  OBVIOUS
<1>7. g = [i \in 0 .. n |-> Body(g, i)]
  BY <1>5, <1>6, Zenon
<1>8. CheckString(x.mem, x.at, x.len) <=> g[0] = 1
  BY <1>6 DEF CheckString, Bad, Count
<1>9. \A i \in 0 .. n : g[i] = Body(g, i)
  BY <1>7, Zenon
<1>10. g[n] = 1
  BY <1>1, <1>9
<1>11. ASSUME NEW i \in 0 .. n - 1
       PROVE  /\ It(i).at = NULL => g[i] = 0
              /\ It(i).at # NULL => g[i] = g[It(i).at - x.at]
  <2>1. i \in 0 .. n /\ i # n
    BY <1>1
  <2>2. g[i] = IF Bad(i) THEN 0 ELSE g[i + Count(i)]
    BY <1>9, <2>1
  <2>3. It(i).at # NULL => It(i).at - x.at = i + Count(i)
    BY <1>1, <1>2
  <2> QED
    BY <1>2, <2>2, <2>3
<1>12. Checks(x, g)
  BY <1>8, <1>10, <1>11, Zenon DEF Checks, It
<1> QED
  BY <1>12

\* findFrom(wchar32): f[p] is what the loop answers from the place p.
Looks(x, start, code, f) ==
    /\ FindCodeFrom(x, start, code) = f[x.at + start]
    /\ f[x.at + x.len] = NotFound
    /\ \A p \in x.at + start .. (x.at + x.len) - 1 :
        Iterate(x.mem, p, (x.at + x.len) - p).at # NULL =>
            f[p] = IF Iterate(x.mem, p, (x.at + x.len) - p).value = code
                   THEN MakeRange(p - x.at, Iterate(x.mem, p, (x.at + x.len) - p).at - p)
                   ELSE f[Iterate(x.mem, p, (x.at + x.len) - p).at]

LEMMA LooksExist ==
    ASSUME NEW x, IsText(x), NEW start \in 0 .. x.len, NEW code
    PROVE  \E f : Looks(x, start, code, f)
<1> DEFINE a == x.at + start
           e == x.at + x.len
           It(p) == Iterate(x.mem, p, e - p)
           Body(f, p) == IF It(p).at = p THEN NotFound
                         ELSE IF It(p).at = NULL THEN MakeRange(Junk, 0)
                         ELSE IF It(p).value = code THEN MakeRange(p - x.at, It(p).at - p)
                         ELSE f[It(p).at]
           stops == {p \in a .. e : It(p).at = p \/ It(p).at = NULL \/ It(p).value = code}
           answer == [p \in a .. e |-> IF It(p).at = p THEN NotFound
                                       ELSE IF It(p).at = NULL THEN MakeRange(Junk, 0)
                                       ELSE MakeRange(p - x.at, It(p).at - p)]
           next == [p \in a .. e |-> It(p).at]
<1>1. /\ x.at \in Nat /\ a \in Nat /\ e \in Nat /\ a <= e /\ x.mem \in Seq(Byte)
      /\ e <= Len(x.mem) /\ Len(x.mem) \in Nat /\ x.len \in Nat
  BY DEF IsText
<1>2. ASSUME NEW p \in a .. e
      PROVE  /\ p = e => It(p).at = p
             /\ p # e => It(p).at # p /\ (It(p).at # NULL => It(p).at \in p + 1 .. e)
  <2>1. PICK m \in Nat : m = e - p
    BY <1>1
  <2>2. PICK it : it = Iterate(x.mem, p, m)
    OBVIOUS
  <2>3. p \in Nat /\ m \in Nat /\ x.mem \in Seq(Byte) /\ p + m <= Len(x.mem) /\ p + m = e
    BY <1>1, <2>1
  <2>4. /\ m = 0 => it.at = p
        /\ m > 0 /\ it.at # NULL => it.at \in p + 1 .. p + m
    BY ONLY <2>2, <2>3, IterateIs
  <2>5. p # NULL
    BY <2>3 DEF NULL
  <2> HIDE DEF a, e
  <2>6. m > 0 => it.at # p
    BY <2>3, <2>4, <2>5
  <2>7. p = e <=> m = 0
    BY <1>1, <2>1, <2>3
  <2> QED
    BY <2>1, <2>2, <2>3, <2>4, <2>6, <2>7
<1> HIDE DEF It, a, e
<1>3. \A p \in a .. e : p \notin stops => next[p] \in p + 1 .. e
  BY <1>1, <1>2
<1>4. PICK f : Descends(a, e, stops, answer, next, f)
  <2> HIDE DEF stops, answer, next
  <2> QED
    BY ONLY <1>1, <1>3, DescentExists
<1>5. f = [p \in a .. e |-> Body(f, p)]
  <2>1. ASSUME NEW p \in a .. e PROVE (IF p \in stops THEN answer[p] ELSE f[next[p]]) = Body(f, p)
    BY <2>1
  <2> QED
    BY <1>4, <2>1 DEF Descends
<1>6. PICK g : g = (CHOOSE h : h = [p \in a .. e |-> Body(h, p)])
  OBVIOUS
<1>7. g = [p \in a .. e |-> Body(g, p)]
  BY <1>5, <1>6, Zenon
<1>8. FindCodeFrom(x, start, code) = g[a]
  BY <1>6 DEF FindCodeFrom, EndOf, It, a, e
<1>9. \A p \in a .. e : g[p] = Body(g, p)
  BY <1>7, Zenon
<1>10. g[e] = NotFound
  <2>1. e \in a .. e
    BY <1>1
  <2> QED
    BY <1>2, <1>9, <2>1
<1>11. ASSUME NEW p \in a .. e - 1, It(p).at # NULL
       PROVE  g[p] = IF It(p).value = code THEN MakeRange(p - x.at, It(p).at - p) ELSE g[It(p).at]
  <2>1. p \in a .. e /\ p # e
    BY <1>1
  <2> QED
    BY <1>2, <1>9, <1>11, <2>1
<1>12. \A p \in a .. e - 1 : It(p).at # NULL =>
            g[p] = IF It(p).value = code THEN MakeRange(p - x.at, It(p).at - p) ELSE g[It(p).at]
  BY <1>11
<1>13. Looks(x, start, code, g)
  <2>1. FindCodeFrom(x, start, code) = g[x.at + start]
    BY <1>8 DEF a
  <2>2. g[x.at + x.len] = NotFound
    BY <1>10 DEF e
  <2>3. \A p \in x.at + start .. (x.at + x.len) - 1 :
          Iterate(x.mem, p, (x.at + x.len) - p).at # NULL =>
            g[p] = IF Iterate(x.mem, p, (x.at + x.len) - p).value = code
                   THEN MakeRange(p - x.at, Iterate(x.mem, p, (x.at + x.len) - p).at - p)
                   ELSE g[Iterate(x.mem, p, (x.at + x.len) - p).at]
    <3> SUFFICES ASSUME NEW p \in x.at + start .. (x.at + x.len) - 1,
                        Iterate(x.mem, p, (x.at + x.len) - p).at # NULL
                 PROVE  g[p] = IF Iterate(x.mem, p, (x.at + x.len) - p).value = code
                               THEN MakeRange(p - x.at, Iterate(x.mem, p, (x.at + x.len) - p).at - p)
                               ELSE g[Iterate(x.mem, p, (x.at + x.len) - p).at]
      OBVIOUS
    <3>1. p \in a .. e - 1
      BY DEF a, e
    <3>2. It(p) = Iterate(x.mem, p, (x.at + x.len) - p)
      BY DEF It, e
    <3> QED
      BY <1>12, <3>1, <3>2
  <2> QED
    BY ONLY <2>1, <2>2, <2>3, Zenon DEF Looks
<1> QED
  BY <1>13

\* What FlattenSeq() makes of a sequence that is one longer.
Flattens(n, seqs, f) == f = [i \in 1 .. n |-> IF i = 1 THEN seqs[i] ELSE f[i - 1] \o seqs[i]]

LEMMA FlattensExist ==
    ASSUME NEW n \in Nat, NEW seqs
    PROVE  \E f : Flattens(n, seqs, f)
<1> DEFINE Body(f, i) == IF i = 1 THEN seqs[i] ELSE f[i - 1] \o seqs[i]
           Has(k) == \E f : f = [i \in 1 .. k |-> Body(f, i)]
           S == {k \in 0 .. n : ~Has(k)}
<1>1. Has(0)
  <2> DEFINE f == [i \in 1 .. 0 |-> <<>>]
  <2>1. \A i \in 1 .. 0 : f[i] = Body(f, i)
    OBVIOUS
  <2>2. f = [i \in 1 .. 0 |-> Body(f, i)]
    BY <2>1
  <2> QED
    BY <2>2
<1>2. ASSUME NEW k \in Nat, Has(k) PROVE Has(k + 1)
  <2>1. PICK f : f = [i \in 1 .. k |-> Body(f, i)]
    BY <1>2
  <2> DEFINE g == [i \in 1 .. k + 1 |-> IF i = k + 1 THEN Body(f, i) ELSE f[i]]
  <2>2. ASSUME NEW i \in 1 .. k + 1 PROVE g[i] = Body(g, i)
    <3>1. g[i] = Body(f, i)
      <4>1. CASE i = k + 1
        BY <4>1
      <4>2. CASE i # k + 1
        <5>1. i \in 1 .. k /\ g[i] = f[i]
          BY <4>2
        <5>2. f[i] = Body(f, i)
          BY <2>1, <5>1, Zenon
        <5> QED
          BY <5>1, <5>2, Zenon
      <4> QED
        BY <4>1, <4>2
    <3>2. CASE i = 1
      BY <3>1, <3>2
    <3>3. CASE i # 1
      <4>1. i - 1 \in 1 .. k + 1 /\ i - 1 # k + 1
        BY <3>3
      <4>2. g[i - 1] = f[i - 1]
        BY <4>1
      <4> QED
        BY <3>1, <3>3, <4>2
    <3> QED
      BY <3>2, <3>3
  <2>3. g = [i \in 1 .. k + 1 |-> Body(g, i)]
    BY <2>2
  <2> QED
    BY <2>3
<1> HIDE DEF Has
<1>3. ASSUME S # {} PROVE FALSE
  <2>1. PICK m \in S : \A k \in S : m <= k
    BY <1>3, LeastUpTo
  <2>2. m # 0 /\ m - 1 \in 0 .. n /\ (m - 1) + 1 = m
    BY <1>1, <2>1
  <2>3. m - 1 \notin S
    BY <2>1, <2>2
  <2>4. Has(m - 1)
    BY <2>2, <2>3
  <2> QED
    BY <1>2, <2>1, <2>2, <2>4
<1>4. Has(n)
  BY <1>3
<1> QED
  BY <1>4 DEF Has, Flattens

LEMMA FlattenIs ==
    ASSUME NEW seqs, NEW n \in Nat, n = Len(seqs), n > 0
    PROVE  \E f : Flattens(n, seqs, f) /\ FlattenSeq(seqs) = f[n]
<1>1. \E f : Flattens(n, seqs, f)
  BY FlattensExist
<1>2. PICK g : g = (CHOOSE f : Flattens(n, seqs, f))
  OBVIOUS
<1>3. Flattens(n, seqs, g)
  BY <1>1, <1>2
<1>4. FlattenSeq(seqs) = g[n]
  BY <1>2 DEF FlattenSeq, Flattens
<1> QED
  BY <1>3, <1>4

LEMMA FlattenOfMore ==
    ASSUME NEW seqs, NEW n \in Nat, n = Len(seqs), NEW t \in Seq(Byte), NEW more,
           Len(more) = n + 1, \A i \in 1 .. n : more[i] = seqs[i], more[n + 1] = t,
           n = 0 => seqs = <<>>
    PROVE  FlattenSeq(more) = FlattenSeq(seqs) \o t
<1>1. PICK g : Flattens(n + 1, more, g) /\ FlattenSeq(more) = g[n + 1]
  BY FlattenIs
<1>2. \A i \in 1 .. n + 1 : g[i] = IF i = 1 THEN more[i] ELSE g[i - 1] \o more[i]
  BY <1>1, Zenon DEF Flattens
<1>3. CASE n = 0
  <2>1. FlattenSeq(seqs) = <<>>
    BY <1>3 DEF FlattenSeq
  <2>2. g[1] = more[1] /\ more[1] = t
    BY <1>2, <1>3
  <2>3. <<>> \o t = t
    OBVIOUS
  <2> QED
    BY <1>1, <1>3, <2>1, <2>2, <2>3
<1>4. CASE n > 0
  <2>1. PICK f : Flattens(n, seqs, f) /\ FlattenSeq(seqs) = f[n]
    BY <1>4, FlattenIs
  <2>2. \A i \in 1 .. n : f[i] = IF i = 1 THEN seqs[i] ELSE f[i - 1] \o seqs[i]
    BY <2>1, Zenon DEF Flattens
  <2> DEFINE S == {i \in 1 .. n : f[i] # g[i]}
  <2>3. ASSUME S # {} PROVE FALSE
    <3>1. S \subseteq 0 .. n
      OBVIOUS
    <3>2. PICK m \in S : \A i \in S : m <= i
      BY <2>3, <3>1, LeastUpTo
    <3>3. m \in 1 .. n /\ m \in 1 .. n + 1 /\ f[m] # g[m] /\ more[m] = seqs[m]
      BY <3>2
    <3>4. m # 1 => m - 1 \in 1 .. n /\ m - 1 \notin S
      BY <3>2, <3>3
    <3>5. m # 1 => f[m - 1] = g[m - 1]
      BY <3>4
    <3>6. f[m] = IF m = 1 THEN seqs[m] ELSE f[m - 1] \o seqs[m]
      BY <2>2, <3>3, Zenon
    <3>7. g[m] = IF m = 1 THEN more[m] ELSE g[m - 1] \o more[m]
      BY <1>2, <3>3, Zenon
    <3> QED
      BY <3>3, <3>5, <3>6, <3>7
  <2>4. f[n] = g[n]
    BY <1>4, <2>3
  <2>5. n + 1 \in 1 .. n + 1 /\ n + 1 # 1 /\ (n + 1) - 1 = n
    BY <1>4
  <2>6. g[n + 1] = g[n] \o t
    BY <1>2, <2>5
  <2> QED
    BY <1>1, <2>1, <2>4, <2>6
<1> QED
  BY <1>3, <1>4

-----------------------------------------------------------------------------
(* The places where a character begins.                                    *)

\* A place in a window, from its beginning and to its end.
Ahead(a, l, p, i) ==
    /\ i \in 0 .. l - 1 /\ i = p - a /\ a + i = p /\ l - i = (a + l) - p
    /\ l - i \in Nat /\ l - i > 0 /\ p + (l - i) = a + l /\ p \in Nat

LEMMA AheadIs ==
    \A a \in Nat : \A l \in Nat : \A p \in a .. a + l - 1 : \E i : Ahead(a, l, p, i)
<1> SUFFICES ASSUME NEW a \in Nat, NEW l \in Nat, NEW p \in a .. a + l - 1
             PROVE  Ahead(a, l, p, p - a)
  BY Zenon
<1> QED
  BY SMT DEF Ahead

\* From such a place the iterator comes to the next one.
LEMMA OnTheWay ==
    ASSUME NEW x, IsText(x), NEW f, Checks(x, f), NEW p \in x.at .. x.at + x.len - 1,
           f[p - x.at] = 1, NEW it, it = Iterate(x.mem, p, (x.at + x.len) - p)
    PROVE  /\ it.at # NULL /\ it.at \in p + 1 .. x.at + x.len /\ f[it.at - x.at] = 1
           /\ IsCharacter(x.mem, p, it.at - p, it.value)
<1>1. /\ x.at \in Nat /\ x.len \in Nat /\ x.mem \in Seq(Byte)
      /\ x.at + x.len <= Len(x.mem) /\ Len(x.mem) \in Nat
  BY DEF IsText
<1>2. PICK i : Ahead(x.at, x.len, p, i)
  BY <1>1, AheadIs, Zenon
<1>3. PICK m : m = x.len - i
  OBVIOUS
<1>4. /\ i \in 0 .. x.len - 1 /\ i = p - x.at /\ x.at + i = p /\ p \in Nat
      /\ m \in Nat /\ m > 0 /\ m = (x.at + x.len) - p /\ p + m = x.at + x.len
  BY <1>2, <1>3, Zenon DEF Ahead
<1>5. /\ it.at = NULL => f[i] = 0
      /\ it.at # NULL => f[i] = f[it.at - x.at]
  <2>1. it = Iterate(x.mem, x.at + i, x.len - i)
    BY <1>3, <1>4, Zenon
  <2> QED
    BY <1>4, <2>1 DEF Checks
<1>6. it.at # NULL /\ f[it.at - x.at] = 1
  BY <1>4, <1>5
<1>7. it.at \in p + 1 .. p + m /\ IsCharacter(x.mem, p, it.at - p, it.value)
  <2>1. p \in Nat /\ m \in Nat /\ x.mem \in Seq(Byte) /\ p + m <= Len(x.mem) /\ m > 0 /\ it = Iterate(x.mem, p, m)
    BY <1>1, <1>4, Zenon
  <2> QED
    BY ONLY <1>6, <2>1, IterateIs
<1> QED
  BY <1>4, <1>6, <1>7

\* A byte that continues a character begins none.
LEMMA NoneInside ==
    ASSUME NEW x, IsText(x), NEW f, Checks(x, f), NEW p \in x.at .. x.at + x.len - 1,
           At(x.mem, p) \in 128 .. 191
    PROVE  f[p - x.at] = 0
<1>1. /\ x.at \in Nat /\ x.len \in Nat /\ x.mem \in Seq(Byte)
      /\ x.at + x.len <= Len(x.mem) /\ Len(x.mem) \in Nat
  BY DEF IsText
<1>2. PICK i : Ahead(x.at, x.len, p, i)
  BY <1>1, AheadIs, Zenon
<1>3. PICK m : m = x.len - i
  OBVIOUS
<1>4. i \in 0 .. x.len - 1 /\ i = p - x.at /\ x.at + i = p /\ x.len - i = m /\ m > 0 /\ p \in Nat
  BY <1>2, <1>3, Zenon DEF Ahead
<1>5. PICK u \in 128 .. 191 : u = At(x.mem, p)
  OBVIOUS
<1>6. CheckFirst(u) = 0
  <2>1. u \in Byte
    BY SMT DEF Byte
  <2> QED
    BY <2>1, FirstIs
<1>7. Iterate(x.mem, x.at + i, x.len - i).at = NULL
  BY <1>4, <1>5, <1>6 DEF Iterate
<1> QED
  BY <1>4, <1>7 DEF Checks

\* The next place is the first one behind this one.
LEMMA NoneBetween ==
    ASSUME NEW x, IsText(x), NEW f, Checks(x, f), NEW p \in x.at .. x.at + x.len - 1,
           f[p - x.at] = 1, NEW it, it = Iterate(x.mem, p, (x.at + x.len) - p),
           NEW q \in p + 1 .. it.at - 1
    PROVE  /\ q \in x.at .. x.at + x.len - 1 /\ At(x.mem, q) \in 128 .. 191
           /\ f[q - x.at] = 0
<1>1. /\ it.at \in p + 1 .. x.at + x.len /\ IsCharacter(x.mem, p, it.at - p, it.value)
      /\ x.at \in Nat /\ x.len \in Nat
  BY OnTheWay DEF IsText
<1>2. q \in x.at .. x.at + x.len - 1
  BY <1>1
<1>3. PICK k \in Nat : k = it.at - p
  BY <1>1
<1>4. PICK i \in 1 .. k - 1 : p + i = q
  <2>1. q - p \in 1 .. k - 1 /\ p + (q - p) = q
    BY <1>1, <1>3
  <2> QED
    BY <2>1
<1>5. At(x.mem, q) \in 128 .. 191
  <2>1. \A j \in 1 .. k - 1 : At(x.mem, p + j) \in 128 .. 191
    BY <1>1, <1>3 DEF IsCharacter
  <2> QED
    BY <1>4, <2>1
<1>6. f[q - x.at] = 0
  BY <1>2, <1>5, NoneInside
<1> QED
  BY <1>2, <1>5, <1>6

\* Behind such a place, every byte that continues no character begins one.
LEMMA Synchronised ==
    ASSUME NEW x, IsText(x), NEW f, Checks(x, f), NEW b \in x.at .. x.at + x.len, f[b - x.at] = 1,
           NEW q \in b .. x.at + x.len - 1, At(x.mem, q) \notin 128 .. 191
    PROVE  f[q - x.at] = 1
<1> DEFINE S == {p \in b .. q : f[p - x.at] = 1}
<1>0. x.at \in Nat /\ x.len \in Nat /\ b \in Nat /\ q \in Nat
  <2>1. x.at \in Nat /\ x.len \in Nat
    BY DEF IsText
  <2> QED
    BY <2>1
<1>1. x.at \in Nat /\ x.len \in Nat /\ b \in Nat /\ q \in Nat /\ b \in S /\ S \subseteq -1 .. q
  BY <1>0
<1>2. PICK m \in S : \A p \in S : p <= m
  BY <1>1, MaxIs
<1>3. m \in b .. q /\ f[m - x.at] = 1
  BY <1>2
<1>4. ASSUME m # q PROVE FALSE
  <2>1. m \in x.at .. x.at + x.len - 1
    BY <1>1, <1>3
  <2>2. PICK it : it = Iterate(x.mem, m, (x.at + x.len) - m)
    OBVIOUS
  <2>3. it.at \in m + 1 .. x.at + x.len /\ f[it.at - x.at] = 1
    BY <1>3, <2>1, <2>2, OnTheWay
  <2>4. it.at \notin S
    BY <1>2, <1>3, <2>3
  <2>5. it.at > q
    BY <1>1, <1>3, <2>3, <2>4
  <2>6. q \in m + 1 .. it.at - 1
    BY <1>1, <1>3, <1>4, <2>3, <2>5
  <2> QED
    BY <1>3, <2>1, <2>2, <2>6, NoneBetween
<1> QED
  BY <1>3, <1>4

-----------------------------------------------------------------------------
(* Finding a code point and finding its bytes.                             *)

\* A character of its own is a slice.
LEMMA CharacterIsSlice ==
    ASSUME NEW c \in Nat, c > 0, c <= MaxCodePoint, NEW w, w = Encode(c)
    PROVE  /\ IsSlice(CString(w)) /\ CString(w).len = Len(w) /\ Len(w) \in 1 .. 4
           /\ CString(w).at = 0
           /\ \A i \in 0 .. Len(w) - 1 : At(CString(w).mem, 0 + i) = w[i + 1]
           /\ w[1] \notin 128 .. 191
<1>1. /\ w \in Seq(Byte) /\ Len(w) \in 1 .. 4 /\ w[1] \notin 128 .. 191
      /\ \A i \in 1 .. Len(w) : w[i] # 0
  BY EncodedShape
<1>2. PICK x : x = CString(w)
  OBVIOUS
<1>3. x = [mem |-> w \o <<Nul>>, at |-> 0, len |-> Len(w)]
  BY <1>2 DEF CString
<1>4. w \in Seq(Nat) /\ <<Nul>> \in Seq(Nat) /\ Len(<<Nul>>) = 1 /\ <<Nul>>[1] = Nul
  <2>1. Byte \subseteq Nat
    BY DEF Byte
  <2>2. w \in Seq(Nat)
    BY <1>1, <2>1, SeqMonotonic
  <2> QED
    BY <2>2 DEF Nul
<1>5. /\ w \o <<Nul>> \in Seq(Nat) /\ Len(w \o <<Nul>>) = Len(w) + 1
      /\ \A i \in 1 .. Len(w) : (w \o <<Nul>>)[i] = w[i]
      /\ (w \o <<Nul>>)[Len(w) + 1] = Nul
  BY <1>1, <1>4
<1>6. PICK m : m = w \o <<Nul>>
  OBVIOUS
<1>7. ASSUME NEW p \in 0 .. Len(w) PROVE At(m, p) = Nul <=> p = Len(w)
  <2>1. CASE p = Len(w)
    BY <1>5, <1>6, <2>1 DEF At
  <2>2. CASE p # Len(w)
    <3>1. p + 1 \in 1 .. Len(w)
      BY <1>1, <2>2
    <3>2. m[p + 1] = w[p + 1] /\ w[p + 1] # 0
      BY <1>1, <1>5, <1>6, <3>1
    <3> QED
      BY <2>2, <3>2 DEF At, Nul
  <2> QED
    BY <2>1, <2>2
<1>8. /\ x.mem = m /\ x.at = 0 /\ x.len = Len(w) /\ x = [mem |-> x.mem, at |-> x.at, len |-> x.len]
  BY <1>3, <1>6
<1>9. IsSlice(x)
  <2>0. PICK n \in Nat : n = Len(w)
    BY <1>1
  <2>1. Len(m) - 1 = Len(w) /\ Len(w) \in Nat /\ 0 + Len(w) < Len(m)
    <3>1. Len(m) = n + 1
      BY <1>5, <1>6, <2>0, Zenon
    <3> QED
      BY <2>0, <3>1
  <2>2. \A p \in 0 .. Len(m) - 1 : At(m, p) = Nul <=> p = Len(m) - 1
    BY <1>7, <2>1
  <2>3. m \in Seq(Nat) /\ 0 \in Nat
    BY <1>5, <1>6
  <2> QED
    BY <1>8, <2>1, <2>2, <2>3 DEF IsSlice
<1>10. \A i \in 0 .. Len(w) - 1 : At(m, 0 + i) = w[i + 1]
  <2> SUFFICES ASSUME NEW i \in 0 .. Len(w) - 1 PROVE At(m, 0 + i) = w[i + 1]
    OBVIOUS
  <2>1. i + 1 \in 1 .. Len(w) /\ 0 + i + 1 = i + 1
    BY <1>1
  <2> QED
    BY <1>5, <1>6, <2>1 DEF At
<1> QED
  BY <1>1, <1>2, <1>8, <1>9, <1>10

\* Where the bytes of a character stand.
LEMMA FoundIs ==
    ASSUME NEW x, IsSlice(x), NEW c \in Nat, c > 0, c <= MaxCodePoint, NEW w, w = Encode(c),
           NEW p \in Nat
    PROVE  p \in Found(x, CString(w)) <=>
            /\ p >= x.at /\ p + Len(w) <= x.at + x.len
            /\ \A i \in 1 .. Len(w) : At(x.mem, p + (i - 1)) = w[i]
<1>1. /\ CString(w).len = Len(w) /\ Len(w) \in 1 .. 4 /\ CString(w).at = 0
      /\ \A i \in 0 .. Len(w) - 1 : At(CString(w).mem, 0 + i) = w[i + 1]
  BY CharacterIsSlice
<1>2. x.at \in Nat /\ x.len \in Nat /\ EndOf(x) = x.at + x.len
  BY SliceBytes
<1>3. Same(x.mem, p, CString(w)) <=> \A i \in 0 .. Len(w) - 1 : At(x.mem, p + i) = w[i + 1]
  <2>1. PICK r, n : r = CString(w) /\ n = Len(w)
    OBVIOUS
  <2>2. r.len = n /\ r.at = 0 /\ \A i \in 0 .. n - 1 : At(r.mem, 0 + i) = w[i + 1]
    BY <1>1, <2>1, Zenon
  <2>3. Same(x.mem, p, r) <=> \A i \in 0 .. n - 1 : At(x.mem, p + i) = w[i + 1]
    BY <2>2, Zenon DEF Same
  <2> QED
    BY <2>1, <2>3, Zenon
<1>4. ASSUME \A i \in 0 .. Len(w) - 1 : At(x.mem, p + i) = w[i + 1], NEW i \in 1 .. Len(w)
      PROVE  At(x.mem, p + (i - 1)) = w[i]
  <2>1. i - 1 \in 0 .. Len(w) - 1 /\ (i - 1) + 1 = i
    BY <1>1
  <2>2. At(x.mem, p + (i - 1)) = w[(i - 1) + 1]
    BY <1>4, <2>1, Zenon
  <2> QED
    BY <2>1, <2>2
<1>5. ASSUME \A i \in 1 .. Len(w) : At(x.mem, p + (i - 1)) = w[i], NEW i \in 0 .. Len(w) - 1
      PROVE  At(x.mem, p + i) = w[i + 1]
  <2>1. i + 1 \in 1 .. Len(w) /\ (i + 1) - 1 = i
    BY <1>1
  <2>2. At(x.mem, p + ((i + 1) - 1)) = w[i + 1]
    BY <1>5, <2>1, Zenon
  <2> QED
    BY <2>1, <2>2
<1>6. Same(x.mem, p, CString(w)) <=> \A i \in 1 .. Len(w) : At(x.mem, p + (i - 1)) = w[i]
  BY <1>3, <1>4, <1>5
<1>7. p \in x.at .. EndOf(x) /\ p + CString(w).len <= EndOf(x) <=> p >= x.at /\ p + Len(w) <= x.at + x.len
  BY <1>1, <1>2
<1> QED
  BY <1>6, <1>7 DEF Found

\* The loop over the characters and the search for the bytes come to the same
\* place, from any place where a character begins.
LEMMA CodeIsFound ==
    ASSUME NEW x, IsText(x), IsSlice(x), NEW f, Checks(x, f), NEW start \in 0 .. x.len, f[start] = 1,
           NEW c \in Nat, c > 0, c <= MaxCodePoint
    PROVE  FindCodeFrom(x, start, c) = FindSliceFrom(x, start, CString(Encode(c)))
<1>1. PICK w, k : w = Encode(c) /\ k = Len(w)
  OBVIOUS
<1>2. PICK r : r = CString(w)
  OBVIOUS
<1>3. IsSlice(r) /\ r.len = k /\ k \in 1 .. 4 /\ w[1] \notin 128 .. 191
  BY <1>1, <1>2, CharacterIsSlice
<1>4. PICK a, e : a = x.at + start /\ e = x.at + x.len
  OBVIOUS
<1>5. /\ x.at \in Nat /\ x.len \in Nat /\ a \in Nat /\ e \in Nat /\ a \in x.at .. e
      /\ e <= Len(x.mem) /\ Len(x.mem) \in Nat /\ x.mem \in Seq(Byte) /\ EndOf(x) = e
  <2>1. /\ x.at \in Nat /\ x.len \in Nat /\ x.mem \in Seq(Byte)
        /\ x.at + x.len <= Len(x.mem) /\ Len(x.mem) \in Nat
    BY DEF IsText
  <2> QED
    BY <1>4, <2>1 DEF EndOf
<1>6. PICK q : q = Strstr(x.mem, a, e, r)
  OBVIOUS
<1>7. /\ q \in a .. e
      /\ q # e => q \in Found(x, r)
      /\ \A p \in Found(x, r) : p >= a => p >= q
  <2>1. r.len > 0 /\ a \in x.at .. EndOf(x) /\ q = Strstr(x.mem, a, EndOf(x), r)
    BY <1>3, <1>5, <1>6
  <2> QED
    <3>1. /\ q \in a .. EndOf(x)
          /\ q # EndOf(x) => q \in Found(x, r)
          /\ \A p \in Found(x, r) : p >= a => p >= q
      <4>1. IsSlice(x) /\ IsSlice(r)
        BY <1>3, Zenon
      <4> QED
        BY ONLY <2>1, <4>1, StrstrIs
    <3> QED
      BY <1>5, <3>1, Zenon
<1>8. \A p \in Nat : p \in Found(x, r) <=>
        /\ p >= x.at /\ p + k <= e
        /\ \A i \in 1 .. k : At(x.mem, p + (i - 1)) = w[i]
  BY <1>1, <1>2, <1>4, FoundIs
<1>9. f[a - x.at] = 1 /\ f[e - x.at] = 1
  <2>1. a - x.at = start /\ e - x.at = x.len
    BY <1>4, <1>5
  <2> QED
    BY <2>1 DEF Checks
<1>10. q \in Nat /\ f[q - x.at] = 1
  <2>1. q \in Nat
    BY <1>5, <1>7
  <2>2. CASE q = e
    BY <1>9, <2>1, <2>2
  <2>3. CASE q # e
    <3>1. \A i \in 1 .. k : At(x.mem, q + (i - 1)) = w[i]
      BY <1>7, <1>8, <2>1, <2>3
    <3>2. 1 \in 1 .. k /\ q + (1 - 1) = q
      BY <1>3, <2>1
    <3>3. At(x.mem, q) \notin 128 .. 191
      BY <1>3, <3>1, <3>2
    <3>4. a \in x.at .. x.at + x.len /\ q \in a .. x.at + x.len - 1
      BY <1>4, <1>5, <1>7, <2>3
    <3> QED
      BY <1>9, <2>1, <3>3, <3>4, Synchronised
  <2> QED
    BY <2>2, <2>3
<1>11. PICK g : Looks(x, start, c, g)
  BY LooksExist
<1>12. ASSUME NEW p \in a .. q - 1, f[p - x.at] = 1, NEW it, it = Iterate(x.mem, p, e - p)
       PROVE  it.at \in p + 1 .. q /\ f[it.at - x.at] = 1 /\ g[p] = g[it.at]
  <2>1. p \in x.at .. x.at + x.len - 1 /\ p \in Nat /\ p < q /\ p \in a .. e - 1
    BY <1>4, <1>5, <1>7
  <2>2. /\ it.at # NULL /\ it.at \in p + 1 .. e /\ f[it.at - x.at] = 1
        /\ IsCharacter(x.mem, p, it.at - p, it.value)
    BY <1>4, <1>12, <2>1, OnTheWay
  <2>3. it.at <= q
    <3>1. ASSUME it.at > q PROVE FALSE
      <4>1. q \in p + 1 .. it.at - 1
        BY <1>5, <1>10, <2>1, <2>2, <3>1
      <4>2. f[q - x.at] = 0
        BY <1>4, <1>12, <2>1, <4>1, NoneBetween
      <4> QED
        BY <1>10, <4>2
    <3> QED
      BY <1>5, <1>10, <2>1, <2>2, <3>1
  <2>4. it.value # c
    <3>1. ASSUME it.value = c PROVE FALSE
      <4>1. Len(w) = it.at - p /\ \A i \in 1 .. it.at - p : w[i] = At(x.mem, p + (i - 1))
        BY <1>1, <2>2, <3>1 DEF IsCharacter
      <4>2. k = it.at - p /\ p + k <= e
        BY <1>1, <1>5, <2>1, <2>2, <4>1
      <4>3. p >= x.at /\ p >= a
        BY <2>1, <1>5
      <4>4. p \in Found(x, r)
        BY <1>8, <2>1, <4>1, <4>2, <4>3
      <4> QED
        BY <1>7, <1>10, <2>1, <4>3, <4>4
    <3> QED
      BY <3>1
  <2>5. g[p] = g[it.at]
    <3>1. p \in x.at + start .. (x.at + x.len) - 1 /\ it = Iterate(x.mem, p, (x.at + x.len) - p)
      BY <1>4, <1>12, <2>1
    <3> QED
      BY <1>11, <2>2, <2>4, <3>1 DEF Looks
  <2> QED
    BY <1>5, <1>10, <2>1, <2>2, <2>3, <2>5
<1>13. g[a] = g[q]
  <2> DEFINE S == {p \in a .. q : f[p - x.at] = 1 /\ g[p] # g[q]}
  <2>1. ASSUME S # {} PROVE FALSE
    <3>1. S \subseteq -1 .. q
      BY <1>5, <1>10
    <3>2. PICK p \in S : \A o \in S : o <= p
      BY <1>10, <2>1, <3>1, MaxIs
    <3>3. p \in a .. q - 1 /\ f[p - x.at] = 1 /\ g[p] # g[q]
      BY <1>5, <1>10, <3>2
    <3>4. PICK it : it = Iterate(x.mem, p, e - p)
      OBVIOUS
    <3>5. it.at \in p + 1 .. q /\ f[it.at - x.at] = 1 /\ g[p] = g[it.at]
      BY <1>12, <3>3, <3>4
    <3>6. PICK t \in Nat : t = it.at
      BY <1>5, <1>10, <3>3, <3>5
    <3>7. t > p /\ t \in a .. q /\ f[t - x.at] = 1 /\ g[t] # g[q]
      BY <1>5, <1>10, <3>3, <3>5, <3>6
    <3>8. t \in S
      BY <3>7, Zenon
    <3>9. t <= p /\ p \in Nat
      BY <1>5, <3>2, <3>3, <3>8
    <3> QED
      BY <3>7, <3>9
  <2>2. a \notin S
    BY <2>1
  <2>3. a \in a .. q
    BY <1>5, <1>7
  <2> QED
    BY <1>9, <2>2, <2>3
<1>14. FindCodeFrom(x, start, c) = g[q]
  BY <1>4, <1>11, <1>13 DEF Looks
<1>15. FindSliceFrom(x, start, r) = IF q = e THEN NotFound ELSE MakeRange(q - x.at, k)
  BY <1>3, <1>4, <1>5, <1>6 DEF FindSliceFrom
<1>16. FindSliceFrom(x, start, CString(w)) = FindSliceFrom(x, start, r)
  BY <1>2, Zenon
<1>17. CASE q = e
  <2>1. g[e] = NotFound
    BY <1>4, <1>11 DEF Looks
  <2> QED
    BY <1>1, <1>14, <1>15, <1>16, <1>17, <2>1, Zenon
<1>18. CASE q # e
  <2>1. /\ q >= x.at /\ q + k <= e
        /\ \A i \in 1 .. k : At(x.mem, q + (i - 1)) = w[i]
    BY <1>7, <1>8, <1>10, <1>18
  <2>2. PICK n \in Nat : n = e - q
    BY <1>5, <1>7, <1>10
  <2>3. PICK it : it = Iterate(x.mem, q, n)
    OBVIOUS
  <2>4. k <= n /\ q + n <= Len(x.mem) /\ q \in x.at .. x.at + x.len - 1
    <3>1. k <= n
      BY <1>3, <1>5, <1>10, <2>1, <2>2
    <3>2. q + n = e
      BY <1>5, <1>10, <2>2
    <3>3. q \in x.at .. e - 1
      BY <1>5, <1>7, <1>10, <1>18
    <3> QED
      BY <1>4, <1>5, <3>1, <3>2, <3>3
  <2>5. it.at = NULL \/ (it.at = q + k /\ it.value = c)
    <3>1. /\ x.mem \in Seq(Byte) /\ q \in Nat /\ n \in Nat /\ c \in Nat /\ c <= MaxCodePoint
          /\ k = Len(Encode(c)) /\ \A i \in 1 .. k : At(x.mem, q + (i - 1)) = Encode(c)[i]
      BY <1>1, <1>5, <1>10, <2>1, Zenon
    <3> QED
      <4>1. PICK m : m = x.mem
        OBVIOUS
      <4>2. /\ m \in Seq(Byte) /\ k <= n /\ q + n <= Len(m) /\ it = Iterate(m, q, n)
            /\ Spells(m, q, Encode(c))
        BY <2>3, <2>4, <3>1, <4>1, Zenon DEF Spells
      <4>3. q \in Nat /\ n \in Nat /\ c \in Nat /\ c <= MaxCodePoint /\ k = Len(Encode(c))
        BY <3>1, Zenon
      <4>5. \A p \in Nat : \A d \in Nat : \A l : \A b \in Nat : \A t :
              /\ d <= MaxCodePoint /\ l = Len(Encode(d)) /\ l <= b /\ p + b <= Len(m)
              /\ Spells(m, p, Encode(d)) /\ t = Iterate(m, p, b)
              => t.at = NULL \/ (t.at = p + l /\ t.value = d)
        BY ONLY <4>2, IterateEncodedAll, Zenon
      <4>6. \A l : \A b \in Nat : \A t :
              /\ c <= MaxCodePoint /\ l = Len(Encode(c)) /\ l <= b /\ q + b <= Len(m)
              /\ Spells(m, q, Encode(c)) /\ t = Iterate(m, q, b)
              => t.at = NULL \/ (t.at = q + l /\ t.value = c)
        BY ONLY <4>3, <4>5, Zenon
      <4>7. \A l : \A t :
              /\ c <= MaxCodePoint /\ l = Len(Encode(c)) /\ l <= n /\ q + n <= Len(m)
              /\ Spells(m, q, Encode(c)) /\ t = Iterate(m, q, n)
              => t.at = NULL \/ (t.at = q + l /\ t.value = c)
        BY ONLY <4>3, <4>6, Zenon
      <4>8. /\ c <= MaxCodePoint /\ k = Len(Encode(c)) /\ k <= n /\ q + n <= Len(m)
            /\ Spells(m, q, Encode(c)) /\ it = Iterate(m, q, n)
            => it.at = NULL \/ (it.at = q + k /\ it.value = c)
        BY ONLY <4>7, Zenon
      <4>9. it.at = NULL \/ (it.at = q + k /\ it.value = c)
        BY ONLY <4>2, <4>3, <4>8, Zenon
      <4> QED
        BY <4>9
  <2>6. it = Iterate(x.mem, q, (x.at + x.len) - q)
    BY <1>4, <2>2, <2>3
  <2>7. it.at # NULL
    BY <1>10, <2>4, <2>6, OnTheWay
  <2>8. q \in x.at + start .. (x.at + x.len) - 1
    BY <1>4, <1>5, <1>7, <1>18
  <2>9. g[q] = MakeRange(q - x.at, it.at - q)
    BY <1>11, <2>5, <2>6, <2>7, <2>8 DEF Looks
  <2>10. it.at - q = k
    BY <1>3, <1>10, <2>5, <2>7
  <2>11. g[q] = MakeRange(q - x.at, k)
    BY <2>9, <2>10, Zenon
  <2> QED
    BY <1>1, <1>14, <1>15, <1>16, <1>18, <2>11, Zenon
<1> QED
  BY <1>17, <1>18

-----------------------------------------------------------------------------
(* The iterator.                                                           *)

\* What stands before a character, and the character.
LEMMA TextGrows ==
    ASSUME NEW mem \in Seq(Byte), NEW a \in Nat, NEW p \in Nat, a <= p, NEW k \in Nat, k > 0,
           p + k <= Len(mem), NEW v, IsCharacter(mem, p, k, v)
    PROVE  Bytes(mem, a, p) \o Encode(v) = Bytes(mem, a, p + k)
<1>1. mem \in Seq(Nat)
  <2>1. Byte \subseteq Nat
    BY DEF Byte
  <2> QED
    BY <2>1, SeqMonotonic
<1>2. /\ Bytes(mem, p, p + k) \in Seq(Nat) /\ Len(Bytes(mem, p, p + k)) = k
      /\ \A i \in 1 .. k : Bytes(mem, p, p + k)[i] = At(mem, p + (i - 1))
  BY <1>1, BytesAre
<1>3. PICK w, b : w = Encode(v) /\ b = Bytes(mem, p, p + k)
  OBVIOUS
<1>4. w \in Seq(Nat) /\ Len(w) = k /\ \A i \in 1 .. k : w[i] = At(mem, p + (i - 1))
  <2>1. w \in Seq(Byte) /\ Len(w) = k /\ \A i \in 1 .. k : w[i] = At(mem, p + (i - 1))
    BY <1>3, Zenon DEF IsCharacter
  <2>2. Byte \subseteq Nat
    BY DEF Byte
  <2>3. w \in Seq(Nat)
    BY <2>1, <2>2, SeqMonotonic
  <2> QED
    BY <2>1, <2>3
<1>5. w = b
  <2>1. b \in Seq(Nat) /\ Len(b) = k /\ \A i \in 1 .. k : w[i] = b[i]
    BY <1>2, <1>3, <1>4
  <2> QED
    BY <1>4, <2>1, SeqEqual
<1>6. Bytes(mem, a, p) \o Bytes(mem, p, p + k) = Bytes(mem, a, p + k)
  <2>1. PICK m : m = a + 1
    OBVIOUS
  <2>2. PICK e : e = p + k
    OBVIOUS
  <2>3. m \in 1 .. Len(mem) + 1 /\ p \in m - 1 .. Len(mem) /\ e \in p .. Len(mem)
    BY <1>1, <2>1, <2>2
  <2>4. SubSeq(mem, m, p) \o SubSeq(mem, p + 1, e) = SubSeq(mem, m, e)
    BY <2>3, ConcatAdjacentSubSeq
  <2> QED
    BY <2>1, <2>2, <2>4, Zenon DEF Bytes
<1> QED
  BY <1>3, <1>5, <1>6, Zenon

\* The bytes of characters already answered, and of one more.
Written(t) == [i \in DOMAIN t |-> Encode(t[i])]

LEMMA WrittenMore ==
    ASSUME NEW t \in Seq(Int), NEW v \in Int, Encode(v) \in Seq(Byte)
    PROVE  FlattenSeq(Written(Append(t, v))) = FlattenSeq(Written(t)) \o Encode(v)
<1>1. PICK n \in Nat : n = Len(t)
  OBVIOUS
<1>2. PICK u : u = Append(t, v)
  OBVIOUS
<1>3. /\ u \in Seq(Int) /\ Len(u) = n + 1 /\ u[n + 1] = v /\ \A i \in 1 .. n : u[i] = t[i]
      /\ DOMAIN u = 1 .. n + 1 /\ DOMAIN t = 1 .. n
  BY <1>1, <1>2
<1>4. PICK seqs, more : seqs = Written(t) /\ more = Written(u)
  OBVIOUS
<1>5. /\ seqs = [i \in 1 .. n |-> Encode(t[i])]
      /\ more = [i \in 1 .. n + 1 |-> Encode(u[i])]
  BY <1>3, <1>4 DEF Written
<1>6. /\ Len(seqs) = n /\ Len(more) = n + 1 /\ more[n + 1] = Encode(v)
      /\ \A i \in 1 .. n : more[i] = seqs[i]
  BY <1>3, <1>5
<1>7. n = 0 => seqs = <<>>
  BY <1>5
<1>8. FlattenSeq(more) = FlattenSeq(seqs) \o Encode(v)
  <2>1. Encode(v) \in Seq(Byte) /\ n \in Nat
    OBVIOUS
  <2> QED
    BY ONLY <1>6, <1>7, <2>1, FlattenOfMore, ZenonT(60)
<1> QED
  BY <1>2, <1>4, <1>8, Zenon

LEMMA WrittenNone ==
    ASSUME NEW mem \in Seq(Byte), NEW a \in Nat, a <= Len(mem)
    PROVE  FlattenSeq(Written(<<>>)) = Bytes(mem, a, a)
<1>1. Written(<<>>) = <<>>
  BY DEF Written
<1>2. FlattenSeq(<<>>) = <<>>
  BY DEF FlattenSeq
<1>3. SubSeq(mem, a + 1, a) = <<>>
  OBVIOUS
<1> QED
  BY <1>1, <1>2, <1>3, Zenon DEF Bytes

\* utf8_check_string() from every offset of the slice
CheckFn(x) == CHOOSE f : Checks(x, f)

LEMMA CheckFnIs ==
    ASSUME NEW x, IsText(x)
    PROVE  Checks(x, CheckFn(x))
  BY ChecksExist, Zenon DEF CheckFn

\* The iterator is on the way through the slice, or has lost it.
OnWay ==
    /\ m_charStr \in slice.at .. slice.at + slice.len
    /\ m_length = (slice.at + slice.len) - m_charStr
    /\ CheckFn(slice)[m_charStr - slice.at] = CheckFn(slice)[0]
    /\ \A i \in DOMAIN read : read[i] \in Nat /\ IsScalar(read[i])
    /\ FlattenSeq(Written(read)) = Bytes(slice.mem, slice.at, m_charStr)

OffWay ==
    /\ \E i \in DOMAIN read : read[i] = Junk
    /\ CheckFn(slice)[0] = 0

\* What the first character answered says of the first one of the slice.
FirstRead ==
    /\ slice.len > 0
    /\ Iterate(slice.mem, slice.at, slice.len).at # NULL
    /\ Iterate(slice.mem, slice.at, slice.len).value = read[1]

\* The inductive invariant: the course of the iterator is what its place says.
CharInv ==
    /\ slice \in Slices
    /\ read \in Seq(Int)
    /\ m_charStr # NULL => OnWay
    /\ m_charStr = NULL => OffWay
    /\ read = <<>> => m_charStr = slice.at
    /\ read # <<>> /\ read[1] # Junk => FirstRead
    /\ state = "ended" /\ m_charStr # NULL => m_charStr = slice.at + slice.len

\* The slices are any windows of bytes, well-formed or not.
Texts == \A x \in Slices : IsText(x)

LEMMA SliceIs ==
    ASSUME Texts, slice \in Slices
    PROVE  /\ IsText(slice) /\ Checks(slice, CheckFn(slice))
           /\ slice.mem \in Seq(Byte) /\ slice.at \in Nat /\ slice.len \in Nat
           /\ slice.at + slice.len <= Len(slice.mem) /\ Len(slice.mem) \in Nat
<1>1. IsText(slice)
  BY DEF Texts
<1>2. PICK x : x = slice
  OBVIOUS
<1>3. Checks(x, CheckFn(x))
  BY <1>1, <1>2, CheckFnIs
<1> QED
  BY <1>1, <1>2, <1>3 DEF IsText

LEMMA CharStarts == ASSUME Texts, CharInit PROVE CharInv
<1>1. /\ slice \in Slices /\ m_charStr = slice.at /\ m_length = slice.len /\ read = <<>>
      /\ state = "iterating"
  BY DEF CharInit
<1>2. /\ slice.mem \in Seq(Byte) /\ slice.at \in Nat /\ slice.len \in Nat
      /\ slice.at + slice.len <= Len(slice.mem) /\ Len(slice.mem) \in Nat
  BY <1>1, SliceIs
<1>3. FlattenSeq(Written(<<>>)) = Bytes(slice.mem, slice.at, slice.at)
  <2>1. PICK m, a : m = slice.mem /\ a = slice.at
    OBVIOUS
  <2>2. m \in Seq(Byte) /\ a \in Nat /\ a <= Len(m)
    BY <1>2, <2>1
  <2>3. FlattenSeq(Written(<<>>)) = Bytes(m, a, a)
    BY <2>2, WrittenNone
  <2> QED
    BY <2>1, <2>3, Zenon
<1>4. OnWay
  <2>1. m_charStr \in slice.at .. slice.at + slice.len /\ m_length = (slice.at + slice.len) - m_charStr
    BY <1>1, <1>2
  <2>2. m_charStr - slice.at = 0
    BY <1>1, <1>2
  <2>3. \A i \in DOMAIN read : read[i] \in Nat /\ IsScalar(read[i])
    BY <1>1
  <2> QED
    BY <1>1, <1>3, <2>1, <2>2, <2>3 DEF OnWay
<1>5. read \in Seq(Int) /\ m_charStr # NULL
  BY <1>1, <1>2 DEF NULL
<1> QED
  BY <1>1, <1>4, <1>5 DEF CharInv

\* next() answers a character.
LEMMA CharKeeps ==
    ASSUME Texts, CharInv, state = "iterating", NextChar
    PROVE  CharInv'
<1>1. PICK it : it = Iterate(slice.mem, m_charStr, m_length)
  OBVIOUS
<1>2. /\ m_charStr # NULL /\ it.at # NULL /\ it.at # m_charStr
      /\ m_length' = m_length - (it.at - m_charStr) /\ m_charStr' = it.at
      /\ read' = Append(read, it.value) /\ slice' = slice /\ state' = state
  BY <1>1 DEF NextChar
<1>3. /\ slice \in Slices /\ read \in Seq(Int) /\ OnWay
      /\ read = <<>> => m_charStr = slice.at
      /\ read # <<>> /\ read[1] # Junk => FirstRead
  BY <1>2 DEF CharInv
<1>4. /\ IsText(slice) /\ Checks(slice, CheckFn(slice))
      /\ slice.mem \in Seq(Byte) /\ slice.at \in Nat /\ slice.len \in Nat
      /\ slice.at + slice.len <= Len(slice.mem) /\ Len(slice.mem) \in Nat
  BY <1>3, SliceIs
<1>5. PICK x, p, n, f, t : x = slice /\ p = m_charStr /\ n = m_length /\ f = CheckFn(slice) /\ t = read
  OBVIOUS
<1>6. /\ IsText(x) /\ Checks(x, f) /\ x.mem \in Seq(Byte) /\ x.at \in Nat /\ x.len \in Nat
      /\ x.at + x.len <= Len(x.mem) /\ Len(x.mem) \in Nat
  BY <1>4, <1>5, Zenon
<1>7. /\ p \in x.at .. x.at + x.len /\ n = (x.at + x.len) - p /\ f[p - x.at] = f[0]
      /\ \A i \in DOMAIN t : t[i] \in Nat /\ IsScalar(t[i])
      /\ FlattenSeq(Written(t)) = Bytes(x.mem, x.at, p) /\ t \in Seq(Int)
  BY <1>3, <1>5, Zenon DEF OnWay
<1>8. n \in Nat /\ p \in Nat /\ p + n = x.at + x.len /\ p + n <= Len(x.mem)
  BY <1>6, <1>7
<1>9. it = Iterate(x.mem, p, n)
  BY <1>1, <1>5, Zenon
<1>10. n > 0
  <2>1. n = 0 => it.at = p
    BY <1>6, <1>8, <1>9, IterateIs
  <2> QED
    BY <1>2, <1>5, <1>8, <2>1
<1>11. it.at \in p + 1 .. p + n /\ IsCharacter(x.mem, p, it.at - p, it.value)
  BY <1>2, <1>6, <1>8, <1>9, <1>10, IterateIs
<1>12. PICK k \in Nat, v \in Nat : k = it.at - p /\ v = it.value
  <2>1. it.value \in Nat
    BY <1>11 DEF IsCharacter
  <2> QED
    BY <1>8, <1>11, <2>1
<1>13. k > 0 /\ p + k = it.at /\ p + k <= x.at + x.len /\ IsCharacter(x.mem, p, k, v)
  BY <1>8, <1>11, <1>12
<1>14. IsScalar(v) /\ Encode(v) \in Seq(Byte)
  BY <1>13 DEF IsCharacter
<1>15. it.at # NULL /\ f[it.at - x.at] = f[0]
  <2>0. p \in x.at .. x.at + x.len - 1
    BY <1>6, <1>7, <1>8, <1>10
  <2>1. PICK i : Ahead(x.at, x.len, p, i)
    BY <1>6, <2>0, AheadIs, Zenon
  <2>2. i \in 0 .. x.len - 1 /\ i = p - x.at /\ x.at + i = p /\ x.len - i = n
    BY <1>7, <2>1, Zenon DEF Ahead
  <2>3. f[i] = f[it.at - x.at]
    BY <1>2, <1>6, <1>9, <2>2 DEF Checks
  <2> QED
    BY <1>2, <1>7, <2>2, <2>3
<1>16. FlattenSeq(Written(Append(t, v))) = Bytes(x.mem, x.at, p + k)
  <2>1. FlattenSeq(Written(Append(t, v))) = FlattenSeq(Written(t)) \o Encode(v)
    BY <1>7, <1>14, WrittenMore
  <2>2. PICK m, a : m = x.mem /\ a = x.at
    OBVIOUS
  <2>3. m \in Seq(Byte) /\ a \in Nat /\ a <= p /\ p + k <= Len(m) /\ IsCharacter(m, p, k, v)
    BY <1>6, <1>7, <1>8, <1>13, <2>2
  <2>4. Bytes(m, a, p) \o Encode(v) = Bytes(m, a, p + k)
    BY <1>8, <1>13, <2>3, TextGrows
  <2> QED
    BY <1>7, <2>1, <2>2, <2>4, Zenon
<1>17. PICK u : u = Append(t, v)
  OBVIOUS
<1>18. /\ u \in Seq(Int) /\ u # <<>>
       /\ t # <<>> => u[1] = t[1]
       /\ t = <<>> => u[1] = v
       /\ \A i \in DOMAIN u : u[i] \in Nat /\ IsScalar(u[i])
  BY <1>7, <1>14, <1>17, SMTT(40)
<1>19. read' = u /\ m_charStr' = p + k /\ m_length' = n - k /\ slice' = x /\ CheckFn(slice') = f
  BY <1>2, <1>5, <1>8, <1>12, <1>13, <1>17
<1>20. OnWay'
  <2>1. m_charStr' \in x.at .. x.at + x.len /\ m_length' = (x.at + x.len) - m_charStr'
    <3>1. p + k \in x.at .. x.at + x.len
      BY <1>6, <1>7, <1>8, <1>12, <1>13, SMTT(40)
    <3>2. n - k = (x.at + x.len) - (p + k)
      <4>1. PICK e \in Int : e = x.at + x.len
        BY <1>6
      <4>2. p + n = e
        BY <1>8, <4>1
      <4>3. n - k = e - (p + k)
        BY <1>8, <1>12, <4>2
      <4> QED
        BY <4>1, <4>3, Zenon
    <3> QED
      BY <1>19, <3>1, <3>2, Zenon
  <2>2. f[m_charStr' - x.at] = f[0]
    BY <1>13, <1>15, <1>19
  <2>3. FlattenSeq(Written(u)) = Bytes(x.mem, x.at, m_charStr')
    BY <1>16, <1>17, <1>19
  <2> QED
    BY <1>18, <1>19, <2>1, <2>2, <2>3 DEF OnWay
<1>21. FirstRead'
  <2>1. CASE t = <<>>
    <3>1. p = x.at /\ n = x.len
      BY <1>3, <1>5, <1>6, <1>7, <2>1
    <3>2. x.len > 0 /\ Iterate(x.mem, x.at, x.len).at # NULL /\ Iterate(x.mem, x.at, x.len).value = u[1]
      BY <1>2, <1>9, <1>10, <1>12, <1>18, <2>1, <3>1
    <3> QED
      BY <1>19, <3>2 DEF FirstRead
  <2>2. CASE t # <<>>
    <3>1. t[1] # Junk
      BY <1>7, <2>2 DEF Junk
    <3>2. FirstRead
      BY <1>3, <1>5, <2>2, <3>1
    <3>3. u[1] = read[1]
      BY <1>5, <1>18, <2>2
    <3> QED
      BY <1>5, <1>19, <3>2, <3>3 DEF FirstRead
  <2> QED
    BY <2>1, <2>2
<1>22. slice' \in Slices /\ read' \in Seq(Int) /\ read' # <<>> /\ m_charStr' # NULL /\ state' # "ended"
  BY <1>2, <1>3, <1>18, <1>19
<1> QED
  BY <1>20, <1>21, <1>22 DEF CharInv

\* next() answers true though there is no character.
LEMMA LostKeeps ==
    ASSUME Texts, CharInv, state = "iterating", NextLost
    PROVE  CharInv'
<1>1. PICK it : it = Iterate(slice.mem, m_charStr, m_length)
  OBVIOUS
<1>2. /\ m_charStr # NULL /\ it.at = NULL /\ m_charStr' = NULL
      /\ read' = Append(read, Junk) /\ slice' = slice /\ state' = state
  BY <1>1 DEF NextLost
<1>3. /\ slice \in Slices /\ read \in Seq(Int) /\ OnWay
      /\ read # <<>> /\ read[1] # Junk => FirstRead
  BY <1>2 DEF CharInv
<1>4. /\ IsText(slice) /\ Checks(slice, CheckFn(slice))
      /\ slice.mem \in Seq(Byte) /\ slice.at \in Nat /\ slice.len \in Nat
      /\ slice.at + slice.len <= Len(slice.mem) /\ Len(slice.mem) \in Nat
  BY <1>3, SliceIs
<1>5. PICK x, p, n, f, t : x = slice /\ p = m_charStr /\ n = m_length /\ f = CheckFn(slice) /\ t = read
  OBVIOUS
<1>6. /\ IsText(x) /\ Checks(x, f) /\ x.mem \in Seq(Byte) /\ x.at \in Nat /\ x.len \in Nat
      /\ x.at + x.len <= Len(x.mem) /\ Len(x.mem) \in Nat
  BY <1>4, <1>5, Zenon
<1>7. /\ p \in x.at .. x.at + x.len /\ n = (x.at + x.len) - p /\ f[p - x.at] = f[0]
      /\ t \in Seq(Int)
  BY <1>3, <1>5, Zenon DEF OnWay
<1>8. n \in Nat /\ p \in Nat /\ p + n = x.at + x.len /\ p + n <= Len(x.mem)
  BY <1>6, <1>7, SMTT(40)
<1>9. it = Iterate(x.mem, p, n)
  BY <1>1, <1>5, Zenon
<1>10. n > 0
  <2>1. n = 0 => it.at = p
    BY <1>6, <1>8, <1>9, IterateIs
  <2> QED
    BY <1>2, <1>5, <1>8, <2>1
<1>11. f[0] = 0
  <2>0. p \in x.at .. x.at + x.len - 1
    BY <1>6, <1>7, <1>8, <1>10
  <2>1. PICK i : Ahead(x.at, x.len, p, i)
    BY <1>6, <2>0, AheadIs, Zenon
  <2>2. i \in 0 .. x.len - 1 /\ i = p - x.at /\ x.at + i = p /\ x.len - i = n
    BY <1>7, <2>1, Zenon DEF Ahead
  <2>3. f[i] = 0
    BY <1>2, <1>6, <1>9, <2>2 DEF Checks
  <2> QED
    BY <1>7, <2>2, <2>3
<1>12. PICK u : u = Append(t, Junk)
  OBVIOUS
<1>13. /\ u \in Seq(Int) /\ u # <<>>
       /\ t # <<>> => u[1] = t[1]
       /\ t = <<>> => u[1] = Junk
       /\ \E i \in DOMAIN u : u[i] = Junk
  <2>1. PICK m \in Nat : m = Len(t)
    BY <1>7
  <2>2. /\ u \in Seq(Int) /\ Len(u) = m + 1 /\ u[m + 1] = Junk /\ DOMAIN u = 1 .. m + 1
        /\ \A i \in 1 .. m : u[i] = t[i]
    BY <1>7, <1>12, <2>1 DEF Junk
  <2>3. m + 1 \in 1 .. m + 1
    OBVIOUS
  <2>4. t = <<>> => m = 0
    BY <2>1
  <2>5. t # <<>> => m > 0
    BY <1>7, <2>1
  <2> QED
    BY <2>2, <2>3, <2>4, <2>5
<1>14. read' = u /\ slice' = x /\ CheckFn(slice') = f
  BY <1>2, <1>5, <1>12
<1>15. OffWay'
  BY <1>11, <1>13, <1>14 DEF OffWay
<1>16. read' # <<>> /\ read'[1] # Junk => FirstRead'
  <2>1. ASSUME u[1] # Junk PROVE FirstRead'
    <3>1. t # <<>> /\ u[1] = t[1]
      BY <1>13, <2>1
    <3>2. FirstRead
      BY <1>3, <1>5, <2>1, <3>1
    <3> QED
      BY <1>5, <1>14, <3>1, <3>2 DEF FirstRead
  <2> QED
    BY <1>14, <2>1
<1>17. slice' \in Slices /\ read' \in Seq(Int) /\ read' # <<>> /\ m_charStr' = NULL
  BY <1>2, <1>3, <1>13, <1>14
<1> QED
  BY <1>15, <1>16, <1>17 DEF CharInv

LEMMA CharKept == ASSUME Texts, CharInv, [CharNext]_charVars PROVE CharInv'
<1>1. CASE state = "iterating" /\ NextChar
  BY <1>1, CharKeeps
<1>2. CASE state = "iterating" /\ NextLost
  BY <1>2, LostKeeps
<1>3. CASE state = "iterating" /\ (NextFalse \/ NextCrashes)
  <2>1. /\ slice' = slice /\ m_charStr' = m_charStr /\ m_length' = m_length /\ read' = read
        /\ state' = "ended" => m_length = 0
    BY <1>3 DEF NextFalse, NextCrashes
  <2>2. /\ OnWay' <=> OnWay
        /\ OffWay' <=> OffWay
        /\ FirstRead' <=> FirstRead
    BY <2>1 DEF OnWay, OffWay, FirstRead
  <2>3. ASSUME m_charStr # NULL, m_length = 0 PROVE m_charStr = slice.at + slice.len
    <3>1. OnWay /\ slice \in Slices
      BY <2>3 DEF CharInv
    <3>2. slice.at \in Nat /\ slice.len \in Nat
      BY <3>1, SliceIs
    <3> QED
      BY <2>3, <3>1, <3>2 DEF OnWay
  <2> QED
    BY <2>1, <2>2, <2>3 DEF CharInv
<1>4. CASE UNCHANGED charVars
  <2>1. slice' = slice /\ m_charStr' = m_charStr /\ m_length' = m_length /\ read' = read /\ state' = state
    BY <1>4 DEF charVars
  <2>2. /\ OnWay' <=> OnWay
        /\ OffWay' <=> OffWay
        /\ FirstRead' <=> FirstRead
    BY <2>1 DEF OnWay, OffWay, FirstRead
  <2> QED
    BY <2>1, <2>2 DEF CharInv
<1> QED
  BY <1>1, <1>2, <1>3, <1>4 DEF CharNext

-----------------------------------------------------------------------------
(* What the invariant says.                                                *)

LEMMA RowLength == ASSUME NEW row \in WellFormed PROVE Len(row) \in 1 .. 4
<1>0. row \in WellFormed
  OBVIOUS
<1>1. PICK C : C = Continuation
  OBVIOUS
<1>2. PICK S1 : S1 = \h00 .. \h7F
  OBVIOUS
<1>3. PICK S2 : S2 = \hC2 .. \hDF
  OBVIOUS
<1>4. PICK S3 : S3 = {\hE0}
  OBVIOUS
<1>5. PICK T3 : T3 = \hA0 .. \hBF
  OBVIOUS
<1>6. PICK S4 : S4 = \hE1..\hEC \cup \hEE..\hEF
  OBVIOUS
<1>7. PICK S5 : S5 = {\hED}
  OBVIOUS
<1>8. PICK T5 : T5 = \h80..\h9F
  OBVIOUS
<1>9. PICK S6 : S6 = {\hF0}
  OBVIOUS
<1>10. PICK T6 : T6 = \h90..\hBF
  OBVIOUS
<1>11. PICK S7 : S7 = \hF1..\hF3
  OBVIOUS
<1>12. PICK S8 : S8 = {\hF4}
  OBVIOUS
<1>13. PICK T8 : T8 = \h80..\h8F
  OBVIOUS
<1>14. \/ row = <<S1>>
       \/ row = <<S2, C>>
       \/ row = <<S3, T3, C>> \/ row = <<S4, C, C>> \/ row = <<S5, T5, C>>
       \/ row = <<S6, T6, C, C>> \/ row = <<S7, C, C, C>> \/ row = <<S8, T8, C, C>>
  BY ONLY <1>0, <1>1, <1>2, <1>3, <1>4, <1>5, <1>6, <1>7, <1>8, <1>9, <1>10, <1>11, <1>12, <1>13, SMT DEF WellFormed
<1> QED
  BY ONLY <1>14

\* The iterator is lost when there is no place, and only then.
LEMMA LostIs == ASSUME Texts, CharInv PROVE Lost <=> m_charStr = NULL
<1>1. CASE m_charStr = NULL
  BY <1>1 DEF CharInv, OffWay, Lost, Range
<1>2. CASE m_charStr # NULL
  <2>1. \A i \in DOMAIN read : read[i] \in Nat
    BY <1>2 DEF CharInv, OnWay
  <2>2. \A i \in DOMAIN read : read[i] # Junk
    BY <2>1 DEF Junk
  <2> QED
    BY <1>2, <2>2, Zenon DEF Lost, Range
<1> QED
  BY <1>1, <1>2

LEMMA EndedIs ==
    ASSUME Texts, CharInv, state = "ended"
    PROVE  /\ m_charStr # NULL => CheckFn(slice)[0] = 1
           /\ CheckString(slice.mem, slice.at, slice.len) <=> m_charStr # NULL
<1>1. /\ slice \in Slices
      /\ m_charStr # NULL => OnWay /\ m_charStr = slice.at + slice.len
      /\ m_charStr = NULL => CheckFn(slice)[0] = 0
  BY DEF CharInv, OffWay
<1>2. Checks(slice, CheckFn(slice)) /\ slice.at \in Nat /\ slice.len \in Nat
  BY <1>1, SliceIs
<1>3. m_charStr # NULL => CheckFn(slice)[0] = 1
  <2>1. ASSUME m_charStr # NULL PROVE CheckFn(slice)[0] = 1
    <3>1. m_charStr - slice.at = slice.len /\ CheckFn(slice)[m_charStr - slice.at] = CheckFn(slice)[0]
      BY <1>1, <1>2, <2>1 DEF OnWay
    <3> QED
      BY <1>2, <3>1 DEF Checks
  <2> QED
    BY <2>1
<1> QED
  BY <1>1, <1>2, <1>3 DEF Checks

LEMMA TextShown == ASSUME Texts, CharInv PROVE CodePointsAreText
<1>1. m_charStr # NULL => OnWay
  BY DEF CharInv
<1> QED
  BY <1>1, Zenon DEF OnWay, Written, CodePointsAreText

LEMMA MalformedShown == ASSUME Texts, CharInv PROVE LostOnlyIfMalformed
<1>1. slice \in Slices /\ (m_charStr # NULL => OnWay)
  BY DEF CharInv
<1>2. /\ slice.mem \in Seq(Byte) /\ slice.at \in Nat /\ slice.len \in Nat
      /\ slice.at + slice.len <= Len(slice.mem) /\ Len(slice.mem) \in Nat
  BY <1>1, SliceIs
<1>3. EndOf(slice) = slice.at + slice.len
  BY DEF EndOf
<1>4. m_charStr \in {NULL} \cup slice.at .. EndOf(slice)
  BY <1>1, <1>3 DEF OnWay
<1>5. ASSUME m_charStr # NULL, Iterate(slice.mem, m_charStr, m_length).at = NULL,
             CharacterAt(m_charStr, EndOf(slice))
      PROVE  FALSE
  <2>1. m_charStr \in Nat /\ m_length = (slice.at + slice.len) - m_charStr /\ m_length \in Nat
    BY <1>1, <1>2, <1>5 DEF OnWay
  <2>2. PICK row \in WellFormed :
            /\ m_charStr + Len(row) <= slice.at + slice.len
            /\ \A i \in DOMAIN row : At(slice.mem, m_charStr + i - 1) \in row[i]
    BY <1>3, <1>5, Zenon DEF CharacterAt
  <2>3. Len(row) <= m_length
    BY <1>2, <2>1, <2>2, RowLength
  <2>4. PICK mem, p, n : mem = slice.mem /\ p = m_charStr /\ n = m_length
    OBVIOUS
  <2>5. Iterate(mem, p, n).at # NULL
    BY <2>1, <2>2, <2>3, <2>4, Accepted
  <2> QED
    BY <1>5, <2>4, <2>5
<1>6. state = "ended" /\ ~Lost => m_charStr = EndOf(slice)
  BY <1>3, LostIs DEF CharInv
<1>7. state = "ended" => (Lost <=> ~CheckString(slice.mem, slice.at, slice.len))
  BY LostIs, EndedIs
<1> QED
  BY <1>4, <1>5, <1>6, <1>7, Zenon DEF LostOnlyIfMalformed

\* The slices looked in, and the characters looked for.
Sought ==
    /\ \A x \in Slices : IsSlice(x)
    /\ \A c \in CodePoints : c \in Nat /\ c > 0 /\ c <= MaxCodePoint

LEMMA AgreementShown == ASSUME Texts, Sought, CharInv PROVE FindsAgree
<1> SUFFICES ASSUME state = "ended", ~Lost, NEW c \in CodePoints,
                    NEW start \in {0} \cup {Len(Encode(read[i])) : i \in DOMAIN read \cap {1}}
             PROVE  FindCodeFrom(slice, start, c) = FindSliceFrom(slice, start, CString(Encode(c)))
  BY Zenon DEF FindsAgree
<1>1. m_charStr # NULL
  BY LostIs
<1>2. slice \in Slices /\ OnWay /\ (read # <<>> /\ read[1] # Junk => FirstRead)
  BY <1>1 DEF CharInv
<1>3. PICK x, f : x = slice /\ f = CheckFn(slice)
  OBVIOUS
<1>4. /\ IsText(x) /\ IsSlice(x) /\ Checks(x, f)
      /\ x.mem \in Seq(Byte) /\ x.at \in Nat /\ x.len \in Nat /\ x.at + x.len <= Len(x.mem)
  BY <1>2, <1>3, SliceIs, Zenon DEF Sought
<1>5. f[0] = 1
  BY <1>1, <1>3, EndedIs
<1>6. start \in 0 .. x.len /\ f[start] = 1
  <2>1. CASE start = 0
    BY <1>4, <1>5, <2>1
  <2>2. CASE start # 0
    <3>1. 1 \in DOMAIN read /\ start = Len(Encode(read[1]))
      BY <2>2
    <3>2. read # <<>> /\ read[1] # Junk
      <4>1. read[1] \in Nat
        BY <1>2, <3>1 DEF OnWay
      <4> QED
        BY <3>1, <4>1 DEF Junk
    <3>3. /\ x.len > 0 /\ Iterate(x.mem, x.at, x.len).value = read[1]
      BY <1>2, <1>3, <3>2 DEF FirstRead
    <3>4. PICK p, it : p = x.at /\ it = Iterate(x.mem, p, (x.at + x.len) - p)
      OBVIOUS
    <3>5. p \in x.at .. x.at + x.len - 1 /\ p - x.at = 0 /\ (x.at + x.len) - p = x.len
      BY <1>4, <3>3, <3>4
    <3>6. it.value = read[1]
      BY <3>3, <3>4, <3>5
    <3>7. /\ it.at \in p + 1 .. x.at + x.len /\ f[it.at - x.at] = 1
          /\ IsCharacter(x.mem, p, it.at - p, it.value)
      BY <1>4, <1>5, <3>4, <3>5, OnTheWay
    <3>8. start = it.at - x.at
      BY <3>1, <3>4, <3>6, <3>7 DEF IsCharacter
    <3> QED
      BY <1>4, <3>4, <3>7, <3>8
  <2> QED
    BY <2>1, <2>2
<1>7. c \in Nat /\ c > 0 /\ c <= MaxCodePoint
  BY DEF Sought
<1>8. FindCodeFrom(x, start, c) = FindSliceFrom(x, start, CString(Encode(c)))
  BY <1>4, <1>6, <1>7, CodeIsFound
<1> QED
  BY <1>3, <1>8, Zenon

LEMMA CharAlways == ASSUME Texts PROVE CharSpec => []CharInv
<1>1. CharInit => CharInv
  BY CharStarts
<1>2. CharInv /\ [CharNext]_charVars => CharInv'
  BY CharKept
<1> QED
  BY <1>1, <1>2, PTL DEF CharSpec

\* Of any slices of bytes: while the iterator has a place, the code points it
\* has answered are Unicode's and, written out again, are the bytes it has
\* gone over (StringCharIter::next(), utf8_iterate(), utf8_encode()).
THEOREM CharCodePointsAreText == ASSUME Texts PROVE CharSpec => []CodePointsAreText
<1>1. CharInv => CodePointsAreText
  BY TextShown
<1> QED
  BY <1>1, CharAlways, PTL

\* Of any slices of bytes: the iterator never leaves the slice, is lost only
\* where the table of well-formed byte sequences has no character, ends at the
\* end when it is not lost, and utf8_check_string() tells which it is.
THEOREM CharLostOnlyIfMalformed == ASSUME Texts PROVE CharSpec => []LostOnlyIfMalformed
<1>1. CharInv => LostOnlyIfMalformed
  BY MalformedShown
<1> QED
  BY <1>1, CharAlways, PTL

\* Of any slices and any characters but 0: where the text is well-formed,
\* find(wchar32) answers what findSlice() does for the bytes of the character,
\* so that the byte search never finds one that begins inside another.
THEOREM CharFindsAgree == ASSUME Texts, Sought PROVE CharSpec => []FindsAgree
<1>1. CharInv => FindsAgree
  BY AgreementShown
<1> QED
  BY <1>1, CharAlways, PTL
=============================================================================
