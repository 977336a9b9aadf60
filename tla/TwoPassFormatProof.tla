------------------------- MODULE TwoPassFormatProof -------------------------
(***************************************************************************)
(* StackOrHeapAllocator and the functions that print twice, for any sizes, *)
(* lengths and number of slots: the allocator keeps its promises whoever   *)
(* uses it, as long as no sum of sizes wraps, and a message is delivered   *)
(* whole if vsnprintf() does not fail.                                     *)
(***************************************************************************)
EXTENDS TwoPassFormat, TLAPS

(* The allocator.                                                          *)

\* The greatest of a set is the one that bounds it.
LEMMA MaxIs ==
    ASSUME NEW S, S \subseteq Int, NEW m \in S, \A x \in S : x <= m
    PROVE  Max(S) = m
<1>1. \A y \in S : m >= y
  OBVIOUS
<1>2. \A x \in S : (\A y \in S : x >= y) => x = m
  OBVIOUS
<1> QED
  BY <1>1, <1>2 DEF Max

\* What is known of every piece handed out, and of one of the buffer.
LEMMA PieceTypes ==
    ASSUME AllocatorTypes
    PROVE  /\ \A i \in DOMAIN given : given[i].size \in Nat /\ given[i].from \in Nat
           /\ \A i \in FromStack : /\ i \in DOMAIN given /\ i \in 1 .. Len(given)
                                   /\ i < Len(given) + 1 /\ PieceEnd(i) \in Nat
<1>1. /\ \A i \in DOMAIN given : given[i] \in Pieces
      /\ DOMAIN given = 1 .. Len(given) /\ Len(given) \in Nat
  BY DEF AllocatorTypes
<1> QED
  BY <1>1 DEF FromStack, PieceEnd, Pieces

\* Where the pieces of the buffer end is how much of it is used.
LEMMA StackEndIsUsed ==
    ASSUME AllocatorTypes, UsedIsEnd
    PROVE  StackEnd(Len(given) + 1) = m_usedStackSize
<1> DEFINE S == {0} \cup {PieceEnd(j) : j \in {k \in FromStack : k < Len(given) + 1}}
<1>1. \A j \in FromStack : j < Len(given) + 1 /\ PieceEnd(j) \in Nat
  BY PieceTypes
<1>2. S \subseteq Int /\ m_usedStackSize \in S /\ \A x \in S : x <= m_usedStackSize
  BY <1>1, SizesAssumption DEF UsedIsEnd, AllocatorTypes
<1>3. Max(S) = m_usedStackSize
  <2> HIDE DEF S
  <2> QED
    BY <1>2, MaxIs
<1> QED
  BY <1>3 DEF StackEnd

\* One more answer changes nothing about the earlier ones.
LEMMA AnswersStay ==
    ASSUME AllocatorTypes, NEW piece \in Pieces,
           given' = Append(given, piece)
    PROVE  /\ given' \in Seq(Pieces)
           /\ Len(given') = Len(given) + 1 /\ given'[Len(given) + 1] = piece
           /\ DOMAIN given = 1 .. Len(given) /\ DOMAIN given' = 1 .. Len(given) + 1
           /\ \A i \in DOMAIN given : given'[i] = given[i] /\ PieceEnd(i)' = PieceEnd(i)
           /\ FromStack' = IF piece.place = "stack" THEN FromStack \cup {Len(given) + 1}
                           ELSE FromStack
           /\ \A i \in 1 .. Len(given) + 1 : StackEnd(i)' = StackEnd(i)
<1>1. /\ given' \in Seq(Pieces)
      /\ Len(given') = Len(given) + 1 /\ given'[Len(given) + 1] = piece
      /\ DOMAIN given = 1 .. Len(given) /\ DOMAIN given' = 1 .. Len(given) + 1
      /\ \A i \in DOMAIN given : given'[i] = given[i]
  BY DEF AllocatorTypes
<1>2. \A i \in DOMAIN given : PieceEnd(i)' = PieceEnd(i)
  BY <1>1 DEF PieceEnd
<1>3. \A i : i \in FromStack' <=> i \in FromStack \/ (piece.place = "stack" /\ i = Len(given) + 1)
  BY <1>1 DEF FromStack, AllocatorTypes
<1>4. FromStack' = IF piece.place = "stack" THEN FromStack \cup {Len(given) + 1} ELSE FromStack
  BY <1>3
<1>5. ASSUME NEW i \in 1 .. Len(given) + 1
      PROVE  StackEnd(i)' = StackEnd(i)
  <2>1. {k \in FromStack' : k < i} = {k \in FromStack : k < i}
    BY <1>3 DEF AllocatorTypes
  <2>2. \A k \in {j \in FromStack : j < i} : PieceEnd(k)' = PieceEnd(k)
    BY <1>2 DEF FromStack
  <2>3. {PieceEnd(j)' : j \in {k \in FromStack' : k < i}} = {PieceEnd(j) : j \in {k \in FromStack : k < i}}
    BY <2>1, <2>2
  <2> QED
    BY <2>3 DEF StackEnd
<1> QED
  BY <1>1, <1>2, <1>4, <1>5

\* The sum in the test of alloc() does not wrap.
LEMMA SumIsExact ==
    ASSUME AllocatorTypes, NEW r \in Nat, r + StackSize < Modulus
    PROVE  /\ (m_usedStackSize + r) % Modulus = m_usedStackSize + r
           /\ StackSize \in Nat /\ m_usedStackSize \in Nat /\ m_usedStackSize <= StackSize
<1>1. /\ Modulus \in Nat /\ StackSize \in Nat /\ m_usedStackSize \in Nat
      /\ m_usedStackSize <= StackSize /\ m_usedStackSize + r < Modulus
  BY SizesAssumption DEF AllocatorTypes
<1>2. \A m \in Nat, x \in Nat : x < m => x % m = x
  OBVIOUS
<1> QED
  BY <1>1, <1>2

\* A piece of the buffer.
LEMMA AllocOnStackKeeps ==
    ASSUME AllocatorIInv, alive, NEW r \in Nat, r + StackSize < Modulus, AllocOnStack(r)
    PROVE  AllocatorIInv'
<1> DEFINE piece == OnStack(m_usedStackSize, r)
<1>1. /\ m_usedStackSize' = m_usedStackSize + r /\ m_usedStackSize + r <= StackSize
      /\ m_usedStackSize \in Nat
  BY SumIsExact DEF AllocatorIInv, AllocatorTypes, AllocOnStack, FitsOnStack
<1>2. /\ piece \in Pieces /\ piece.place = "stack"
      /\ piece.from = m_usedStackSize /\ piece.from + piece.size = m_usedStackSize'
  BY <1>1 DEF OnStack, Pieces
<1>3. given' = Append(given, piece) /\ AllocatorTypes
  BY DEF AllocOnStack, AllocatorIInv
<1> HIDE DEF piece
<1>4. /\ Len(given') = Len(given) + 1 /\ given'[Len(given) + 1] = piece
      /\ FromStack' = FromStack \cup {Len(given) + 1}
      /\ \A i \in DOMAIN given : given'[i] = given[i] /\ PieceEnd(i)' = PieceEnd(i)
      /\ \A i \in 1 .. Len(given) + 1 : StackEnd(i)' = StackEnd(i)
      /\ given' \in Seq(Pieces)
      /\ DOMAIN given' = 1 .. Len(given) + 1 /\ DOMAIN given = 1 .. Len(given) /\ Len(given) \in Nat
  BY <1>2, <1>3, AnswersStay DEF AllocatorTypes
<1>5. \A i : i = Len(given) + 1 => PieceEnd(i)' = m_usedStackSize'
  BY <1>2, <1>4 DEF PieceEnd
<1>6. \A i \in FromStack : i \in DOMAIN given /\ i < Len(given) + 1 /\ PieceEnd(i) \in Nat
                           /\ PieceEnd(i) <= m_usedStackSize
  BY <1>3, PieceTypes DEF AllocatorIInv, UsedIsEnd
<1>7. UNCHANGED <<m_heapPointers, m_moreHeapPointers, blocks, alive, freed>>
  BY DEF AllocOnStack
<1>8. AllocatorTypes'
  BY <1>1, <1>3, <1>4, <1>7 DEF AllocatorTypes
<1>9. UsedIsEnd'
  BY <1>1, <1>4, <1>5, <1>6 DEF UsedIsEnd
<1>10. StackPiecesApart'
  <2>1. \A i \in FromStack : /\ PieceEnd(i)' = PieceEnd(i) /\ PieceEnd(i) <= StackSize
                             /\ given'[i] = given[i]
                             /\ \A j \in FromStack : i < j => PieceEnd(i) <= given[j].from
    BY <1>4, <1>6 DEF AllocatorIInv, StackPiecesApart
  <2>2. \A i : i = Len(given) + 1 =>
            /\ PieceEnd(i)' <= StackSize /\ given'[i].from = m_usedStackSize
            /\ \A j \in FromStack : j < i
    BY <1>1, <1>2, <1>4, <1>5, <1>6
  <2>3. \A i \in FromStack' : PieceEnd(i)' <= StackSize
    BY <1>4, <2>1, <2>2
  <2>4. \A i, j \in FromStack' : i < j => PieceEnd(i)' <= given'[j].from
    BY <1>4, <1>6, <2>1, <2>2
  <2> QED
    BY <2>3, <2>4 DEF StackPiecesApart
<1>11. UsesStackIfPossible'
  BY <1>2, <1>4 DEF UsesStackIfPossible, AllocatorIInv
<1>12. FreedExactlyOnce' /\ (alive' => ListedOnce')
  BY <1>7 DEF AllocatorIInv, FreedExactlyOnce, ListedOnce, Lists, Misses
<1> QED
  BY <1>8, <1>9, <1>10, <1>11, <1>12 DEF AllocatorIInv

\* A block, or NULL, is listed at the end of a list that has none like it.
LEMMA ListGrows ==
    ASSUME NEW n \in Nat, NEW s \in Seq(0 .. n), NEW p \in {NULL, n + 1}
    PROVE  /\ Append(s, p) \in Seq(0 .. n + 1) /\ s \in Seq(0 .. n + 1)
           /\ Len(Append(s, p)) = Len(s) + 1
           /\ p # NULL => Lists(Append(s, p), p) /\ Misses(s, p)
           /\ \A b \in 1 .. n : /\ Lists(s, b) => Lists(Append(s, p), b)
                                /\ Misses(s, b) => Misses(Append(s, p), b)
<1>1. /\ Append(s, p) \in Seq(0 .. n + 1) /\ s \in Seq(0 .. n + 1) /\ Len(Append(s, p)) = Len(s) + 1
      /\ DOMAIN s = 1 .. Len(s) /\ DOMAIN Append(s, p) = 1 .. Len(s) + 1 /\ Len(s) \in Nat
      /\ \A i \in 1 .. Len(s) : Append(s, p)[i] = s[i] /\ s[i] \in 0 .. n
      /\ Append(s, p)[Len(s) + 1] = p
  BY DEF NULL
<1>2. p # NULL => Lists(Append(s, p), p) /\ Misses(s, p)
  <2>1. CASE p = n + 1
    <3>1. \A i \in DOMAIN s : s[i] # p
      BY <1>1, <2>1
    <3>2. Len(s) + 1 \in DOMAIN Append(s, p)
      BY <1>1
    <3>3. \A j \in DOMAIN Append(s, p) : Append(s, p)[j] = p => j = Len(s) + 1
      BY <1>1, <3>1
    <3> QED
      BY <1>1, <3>1, <3>2, <3>3 DEF Lists, Misses
  <2> QED
    BY <2>1
<1>3. ASSUME NEW b \in 1 .. n
      PROVE  /\ Lists(s, b) => Lists(Append(s, p), b)
             /\ Misses(s, b) => Misses(Append(s, p), b)
  BY <1>1, SMTT(40) DEF Lists, Misses, NULL
<1> QED
  BY <1>1, <1>2, <1>3

\* A piece of the heap.
LEMMA AllocOnHeapKeeps ==
    ASSUME AllocatorIInv, alive, NEW r \in Nat, r + StackSize < Modulus,
           NEW p \in {NULL, Len(given) + 1}, AllocInArray(r, p) \/ AllocInVector(r, p)
    PROVE  AllocatorIInv'
<1> DEFINE piece == OnHeap(p, r)
<1>1. m_usedStackSize + r > StackSize /\ UNCHANGED <<m_usedStackSize, alive, freed>>
  <2>1. (m_usedStackSize + r) % Modulus = m_usedStackSize + r /\ StackSize \in Nat /\ m_usedStackSize \in Nat
    BY SumIsExact DEF AllocatorIInv
  <2>2. ~FitsOnStack(r) /\ UNCHANGED <<m_usedStackSize, alive, freed>>
    BY DEF AllocInArray, AllocInVector
  <2> QED
    BY <2>1, <2>2 DEF FitsOnStack
<1>2. piece \in Pieces /\ piece.place = "heap" /\ piece.size = r
  BY DEF OnHeap, Pieces, NULL, AllocatorIInv, AllocatorTypes
<1>3. given' = Append(given, piece) /\ AllocatorTypes /\ UsedIsEnd /\ blocks' = blocks \cup ({p} \ {NULL})
  BY DEF AllocInArray, AllocInVector, AllocatorIInv
<1> HIDE DEF piece
<1>4. /\ Len(given') = Len(given) + 1 /\ given'[Len(given) + 1] = piece
      /\ FromStack' = FromStack
      /\ \A i \in DOMAIN given : given'[i] = given[i] /\ PieceEnd(i)' = PieceEnd(i)
      /\ \A i \in 1 .. Len(given) + 1 : StackEnd(i)' = StackEnd(i)
      /\ given' \in Seq(Pieces)
      /\ DOMAIN given' = 1 .. Len(given) + 1 /\ DOMAIN given = 1 .. Len(given) /\ Len(given) \in Nat
  BY <1>2, <1>3, AnswersStay DEF AllocatorTypes
<1>5. UsedIsEnd'
  BY <1>1, <1>3, <1>4 DEF UsedIsEnd, FromStack
<1>6. StackPiecesApart'
  BY <1>4 DEF StackPiecesApart, AllocatorIInv, FromStack
<1>7. UsesStackIfPossible'
  <2>1. \A i : i = Len(given) + 1 => StackEnd(i)' = m_usedStackSize
    BY <1>3, <1>4, StackEndIsUsed
  <2>2. \A i \in DOMAIN given : given'[i].place = "heap" => StackEnd(i)' + given'[i].size > StackSize
    BY <1>4 DEF UsesStackIfPossible, AllocatorIInv
  <2>3. \A i : i = Len(given) + 1 => StackEnd(i)' + given'[i].size > StackSize
    BY <1>1, <1>2, <1>4, <2>1
  <2> QED
    BY <1>4, <2>2, <2>3 DEF UsesStackIfPossible
<1>8. /\ blocks \subseteq 1 .. Len(given) /\ blocks' \subseteq 1 .. Len(given')
      /\ \A b \in blocks' : b \in blocks \/ (b = p /\ p # NULL)
  BY <1>3, <1>4 DEF AllocatorTypes, NULL
<1>9. m_heapPointers \in Seq(0 .. Len(given)) /\ m_moreHeapPointers \in Seq(0 .. Len(given))
  BY <1>3 DEF AllocatorTypes
<1>10. /\ m_heapPointers' \in Seq(0 .. Len(given')) /\ m_moreHeapPointers' \in Seq(0 .. Len(given'))
       /\ Len(m_heapPointers') <= Slots /\ ListedOnce'
  <2>1. CASE AllocInArray(r, p)
    <3>1. m_heapPointers' = Append(m_heapPointers, p) /\ m_moreHeapPointers' = m_moreHeapPointers
          /\ Len(m_heapPointers) < Slots
      BY <2>1 DEF AllocInArray
    <3>2. ListedOnce'
      BY <1>4, <1>8, <1>9, <3>1, ListGrows DEF AllocatorIInv, ListedOnce
    <3>3. m_heapPointers' \in Seq(0 .. Len(given')) /\ m_moreHeapPointers' \in Seq(0 .. Len(given'))
          /\ Len(m_heapPointers') = Len(m_heapPointers) + 1
      BY <1>4, <1>9, <3>1, ListGrows
    <3> QED
      BY <1>9, <3>1, <3>2, <3>3, SizesAssumption
  <2>2. CASE AllocInVector(r, p)
    <3>1. m_moreHeapPointers' = Append(m_moreHeapPointers, p) /\ m_heapPointers' = m_heapPointers
          /\ Len(m_heapPointers) <= Slots
      BY <2>2 DEF AllocInVector, AllocatorIInv, FreedExactlyOnce
    <3>2. ListedOnce'
      BY <1>4, <1>8, <1>9, <3>1, ListGrows DEF AllocatorIInv, ListedOnce
    <3>3. m_heapPointers' \in Seq(0 .. Len(given')) /\ m_moreHeapPointers' \in Seq(0 .. Len(given'))
      BY <1>4, <1>9, <3>1, ListGrows
    <3> QED
      BY <3>1, <3>2, <3>3
  <2> QED
    BY <2>1, <2>2
<1>11. AllocatorTypes'
  BY <1>1, <1>3, <1>4, <1>8, <1>10 DEF AllocatorTypes
<1> QED
  BY <1>1, <1>5, <1>6, <1>7, <1>10, <1>11 DEF AllocatorIInv, FreedExactlyOnce

\* alloc() of a size that does not wrap.
LEMMA AllocKeeps ==
    ASSUME AllocatorIInv, alive, NEW r \in Nat, r + StackSize < Modulus, Alloc(r)
    PROVE  AllocatorIInv' /\ UNCHANGED alive
<1>1. AllocatorIInv'
  BY AllocOnStackKeeps, AllocOnHeapKeeps DEF Alloc
<1> QED
  BY <1>1 DEF Alloc, AllocOnStack, AllocInArray, AllocInVector

\* What is in one of two lists and once is once in the two after each other.
LEMMA ListsJoined ==
    ASSUME NEW n \in Nat, NEW s \in Seq(0 .. n), NEW t \in Seq(0 .. n), NEW b,
           (Lists(s, b) /\ Misses(t, b)) \/ (Misses(s, b) /\ Lists(t, b))
    PROVE  Lists(s \o t, b)
<1>1. /\ DOMAIN s = 1 .. Len(s) /\ DOMAIN t = 1 .. Len(t) /\ Len(s) \in Nat /\ Len(t) \in Nat
      /\ DOMAIN (s \o t) = 1 .. Len(s) + Len(t)
      /\ \A i \in 1 .. Len(s) : (s \o t)[i] = s[i]
      /\ \A i \in 1 .. Len(t) : (s \o t)[Len(s) + i] = t[i]
  OBVIOUS
<1>2. \A i \in DOMAIN (s \o t) : i \in DOMAIN s \/ \E j \in DOMAIN t : i = Len(s) + j
  <2> TAKE i \in DOMAIN (s \o t)
  <2>1. CASE i <= Len(s)
    BY <1>1, <2>1
  <2>2. CASE i > Len(s)
    <3>1. i - Len(s) \in DOMAIN t /\ i = Len(s) + (i - Len(s))
      BY <1>1, <2>2
    <3> QED
      BY <3>1
  <2> QED
    BY <1>1, <2>1, <2>2
<1>3. CASE Lists(s, b) /\ Misses(t, b)
  <2>1. PICK k \in DOMAIN s : s[k] = b /\ \A j \in DOMAIN s : s[j] = b => j = k
    BY <1>3 DEF Lists
  <2>2. k \in DOMAIN (s \o t) /\ (s \o t)[k] = b
    BY <1>1, <2>1
  <2>3. \A j \in DOMAIN (s \o t) : (s \o t)[j] = b => j = k
    BY <1>1, <1>2, <1>3, <2>1, SMTT(40) DEF Misses
  <2> QED
    BY <2>2, <2>3 DEF Lists
<1>4. CASE Misses(s, b) /\ Lists(t, b)
  <2>1. PICK k \in DOMAIN t : t[k] = b /\ \A j \in DOMAIN t : t[j] = b => j = k
    BY <1>4 DEF Lists
  <2>2. Len(s) + k \in DOMAIN (s \o t) /\ (s \o t)[Len(s) + k] = b
    BY <1>1, <2>1
  <2>3. \A j \in DOMAIN (s \o t) : (s \o t)[j] = b => j = Len(s) + k
    BY <1>1, <1>2, <1>4, <2>1 DEF Misses
  <2> QED
    BY <2>2, <2>3 DEF Lists
<1> QED
  BY <1>3, <1>4

\* The destructor.
LEMMA DestroyKeeps ==
    ASSUME AllocatorIInv, alive, Destroy
    PROVE  AllocatorIInv' /\ ~alive'
<1>1. /\ AllocatorTypes /\ ListedOnce /\ ~alive' /\ freed' = m_heapPointers \o m_moreHeapPointers
      /\ UNCHANGED <<m_usedStackSize, given, blocks>>
      /\ m_heapPointers' = <<>> /\ m_moreHeapPointers' = <<>>
  BY DEF AllocatorIInv, Destroy
<1>2. FreedExactlyOnce'
  BY <1>1, ListsJoined DEF AllocatorTypes, ListedOnce, FreedExactlyOnce
<1>3. AllocatorTypes'
  <2>1. m_heapPointers' \in Seq(0 .. Len(given')) /\ m_moreHeapPointers' \in Seq(0 .. Len(given'))
    BY <1>1
  <2>2. Len(given') = Len(given) /\ alive' \in BOOLEAN
    BY <1>1 DEF Destroy
  <2> QED
    BY <1>1, <2>1, <2>2 DEF AllocatorTypes
<1>4. UsedIsEnd' /\ StackPiecesApart' /\ UsesStackIfPossible'
  BY <1>1 DEF AllocatorIInv, UsedIsEnd, StackPiecesApart, UsesStackIfPossible, FromStack, PieceEnd,
              StackEnd
<1> QED
  BY <1>1, <1>2, <1>3, <1>4 DEF AllocatorIInv

\* A step in which the allocator is left alone.
LEMMA AllocatorRests ==
    ASSUME AllocatorIInv, UNCHANGED vars
    PROVE  AllocatorIInv' /\ UNCHANGED alive
<1>1. AllocatorTypes' /\ UNCHANGED alive
  BY DEF vars, AllocatorIInv, AllocatorTypes
<1>2. FromStack' = FromStack /\ UNCHANGED given
  BY DEF vars, FromStack
<1>3. UsedIsEnd' /\ StackPiecesApart' /\ UsesStackIfPossible'
  BY <1>2 DEF vars, AllocatorIInv, UsedIsEnd, StackPiecesApart, UsesStackIfPossible, PieceEnd, StackEnd
<1>4. FreedExactlyOnce' /\ (alive' => ListedOnce')
  BY DEF vars, AllocatorIInv, FreedExactlyOnce, ListedOnce
<1> QED
  BY <1>1, <1>3, <1>4 DEF AllocatorIInv

\* A new allocator.
LEMMA AllocatorStarts == ASSUME Init PROVE AllocatorIInv /\ alive
<1>1. AllocatorTypes
  <2>1. \A S : <<>> \in Seq(S)
    OBVIOUS
  <2> QED
    BY <2>1, SizesAssumption DEF Init, AllocatorTypes
<1>2. FromStack = {} /\ DOMAIN given = {}
  BY DEF Init, FromStack
<1>3. UsedIsEnd /\ StackPiecesApart /\ UsesStackIfPossible
  BY <1>2 DEF Init, UsedIsEnd, StackPiecesApart, UsesStackIfPossible
<1>4. FreedExactlyOnce /\ ListedOnce /\ alive
  BY SizesAssumption DEF Init, FreedExactlyOnce, ListedOnce
<1> QED
  BY <1>1, <1>3, <1>4 DEF AllocatorIInv

-----------------------------------------------------------------------------
(* Its clients.                                                            *)

\* Every size a client asks for is one that does not wrap.
LEMMA RoomIsExact ==
    ASSUME NoWrap, Clients
    PROVE  /\ (require + 1) % Modulus \in Nat /\ ((require + 1) % Modulus) + StackSize < Modulus
           /\ require \in Lengths => (require + 1) % Modulus = require + 1 /\ require \in Nat
           /\ STR_MAX_LEN \in Nat /\ STR_MAX_LEN + StackSize < Modulus
           /\ \A r \in Requests : r \in Nat /\ r + StackSize < Modulus
<1>1. /\ Modulus \in Nat /\ StackSize \in Nat /\ STR_MAX_LEN \in Nat /\ STR_MAX_LEN > 0
      /\ \A n \in Lengths : n \in Nat /\ n + 1 + StackSize < Modulus
      /\ STR_MAX_LEN + 1 + StackSize < Modulus
      /\ \A r \in Requests : r \in Nat /\ r + StackSize < Modulus
  BY SizesAssumption, LengthsAssumption DEF NoWrap
<1>2. \A m \in Nat, x \in Nat : x < m => x % m = x
  OBVIOUS
<1>3. \A m \in Nat : m > 0 => m % m = 0
  OBVIOUS
<1>4. CASE require \in Lengths
  <2>1. (require + 1) % Modulus = require + 1
    BY <1>1, <1>2, <1>4
  <2> QED
    BY <1>1, <1>4, <2>1
<1>5. CASE require = 0
  <2>1. (require + 1) % Modulus = 1
    BY <1>1, <1>2, <1>5
  <2> QED
    BY <1>1, <1>5, <2>1
<1>6. CASE require = Modulus - 1 /\ require \notin Lengths
  <2>1. (require + 1) % Modulus = 0
    BY <1>1, <1>3, <1>6
  <2> QED
    BY <1>1, <1>6, <2>1
<1> QED
  BY <1>4, <1>5, <1>6 DEF Clients

\* Every step of a client leaves the allocator alone, makes one call of alloc()
\* or ends it, and the log does neither after it has returned.
LEMMA ClientsKeep ==
    ASSUME NoWrap, FormatIInv, [FormatNext]_fvars
    PROVE  FormatIInv'
<1>1. AllocatorIInv /\ Clients
  BY DEF FormatIInv
<1>2. CASE client = "test" /\ Next /\ UNCHANGED <<call, logCallback>>
  <2>1. AllocatorIInv'
    BY <1>1, <1>2, AllocKeeps, DestroyKeeps, RoomIsExact DEF Next
  <2>2. Clients'
    BY <1>1, <1>2 DEF Clients, call
  <2> QED
    BY <2>1, <2>2 DEF FormatIInv
<1>3. CASE LogWrite
  <2>1. client = "log" /\ alive /\ UNCHANGED <<client, length>> /\ require' \in Lengths \cup {0, Modulus - 1}
    BY <1>1, <1>3 DEF LogWrite, LogAlloc, LogPrintFormat, LogGrowFormat, LogPrintMessage, LogRestart,
                      LogGrowMessage, LogTest, LogDeliver, LogCallsNull, LogEnd, At, Goto, Clients,
                      Answers
  <2>2. CASE LogEnd
    BY <1>1, <2>1, <2>2, DestroyKeeps DEF LogEnd, Goto, FormatIInv, Clients
  <2>3. CASE \E r \in {STR_MAX_LEN, (require + 1) % Modulus} : Alloc(r) /\ pc' # "returned"
    BY <1>1, <2>1, <2>3, AllocKeeps, RoomIsExact DEF FormatIInv, Clients
  <2>4. CASE UNCHANGED vars /\ pc' # "returned"
    BY <1>1, <2>1, <2>4, AllocatorRests DEF FormatIInv, Clients
  <2> QED
    BY <1>3, <2>2, <2>3, <2>4
    DEF LogWrite, LogAlloc, LogPrintFormat, LogGrowFormat, LogPrintMessage, LogRestart,
        LogGrowMessage, LogTest, LogDeliver, LogCallsNull, Goto
<1>4. CASE FormatMeasure \/ FormatAlloc \/ FormatPrint
  <2>1. UNCHANGED <<vars, client, length>> /\ client = "format" /\ require' \in Lengths \cup {0, Modulus - 1}
    BY <1>1, <1>4 DEF FormatMeasure, FormatAlloc, FormatPrint, At, Goto, Clients, Answers
  <2> QED
    BY <1>1, <2>1, AllocatorRests DEF FormatIInv, Clients
<1>5. CASE UNCHANGED <<vars, call>>
  BY <1>1, <1>5, AllocatorRests DEF FormatIInv, Clients, call
<1> QED
  BY <1>2, <1>3, <1>4, <1>5 DEF FormatNext, fvars

LEMMA ClientsStart == ASSUME FormatInit PROVE FormatIInv
<1>1. Clients
  BY AllocatorStarts DEF FormatInit, Clients
<1> QED
  BY <1>1, AllocatorStarts DEF FormatInit, FormatIInv

\* The allocator keeps its invariant, whichever of its clients uses it.
THEOREM AllocatorInvariant == ASSUME NoWrap PROVE FormatSpec => []FormatIInv
  BY ClientsStart, ClientsKeep, PTL DEF FormatSpec

\* Two pieces of the caller's buffer never overlap (StackOrHeapAllocator::alloc()).
THEOREM StackPiecesStayApart == ASSUME NoWrap PROVE FormatSpec => []StackPiecesApart
<1>1. FormatIInv => StackPiecesApart
  BY DEF FormatIInv, AllocatorIInv
<1> QED
  BY <1>1, AllocatorInvariant, PTL

\* The heap serves only what does not fit in the rest of the buffer.
THEOREM StackUsedIfPossible == ASSUME NoWrap PROVE FormatSpec => []UsesStackIfPossible
<1>1. FormatIInv => UsesStackIfPossible
  BY DEF FormatIInv, AllocatorIInv
<1> QED
  BY <1>1, AllocatorInvariant, PTL

\* The array and the vector together list every block for the destructor, once.
THEOREM BlocksFreedOnce == ASSUME NoWrap PROVE FormatSpec => []FreedExactlyOnce
<1>1. FormatIInv => FreedExactlyOnce
  BY DEF FormatIInv, AllocatorIInv
<1> QED
  BY <1>1, AllocatorInvariant, PTL

-----------------------------------------------------------------------------
(* What is printed.                                                        *)

\* A piece of memory is printed into.
LEMMA SlotWritten ==
    ASSUME NEW S, NEW s \in Seq(S), NEW i, NEW x \in S
    PROVE  [s EXCEPT ![i] = x] \in Seq(S) /\ Len([s EXCEPT ![i] = x]) = Len(s)
<1> DEFINE t == [s EXCEPT ![i] = x]
<1>1. Len(s) \in Nat /\ s \in [1 .. Len(s) -> S]
  OBVIOUS
<1>2. t \in [1 .. Len(s) -> S]
  BY <1>1
<1> HIDE DEF t
<1>3. t \in Seq(S) /\ Len(t) = Len(s)
  BY <1>1, <1>2
<1> QED
  BY <1>3 DEF t

\* The steps of the log that print, and what they make of a piece of memory.
LEMMA LogPrintsStep ==
    ASSUME NoWrap, PrintfFails = FALSE, FormatIInv, PrintedIInv, LogWrite
    PROVE  LogPrints' /\ DeliveredWhole'
<1>1. /\ client = "log" /\ client' = "log" /\ length' = length
      /\ length.format \in Lengths /\ length.message \in Lengths
      /\ LogPrints /\ Clients
  BY DEF LogWrite, LogAlloc, LogPrintFormat, LogGrowFormat, LogPrintMessage, LogRestart,
         LogGrowMessage, LogTest, LogDeliver, LogCallsNull, LogEnd, At, Goto, PrintedIInv, LogPrints
<1>2. /\ \A n : Answers(n) = {n}
      /\ \A n \in Lengths : n \in Nat
      /\ require \in Lengths => (require + 1) % Modulus = require + 1
      /\ STR_MAX_LEN \in Nat \ {0}
  BY <1>1, RoomIsExact, LengthsAssumption DEF Answers
<1>3. ASSUME NEW r, Alloc(r)
      PROVE  \E piece : given' = Append(given, piece)
  BY <1>3 DEF Alloc, AllocOnStack, AllocInArray, AllocInVector
<1>4. /\ Len(given) \in Nat /\ Len(printed) = Len(given) /\ DOMAIN printed = 1 .. Len(given)
      /\ printed \in Seq({"format", "message", "cut", "nothing"}) /\ given \in Seq(Pieces)
  BY <1>1 DEF FormatIInv, AllocatorIInv, AllocatorTypes, LogPrints
<1>5. CASE LogAlloc
  <2>1. PICK piece : given' = Append(given, piece)
    BY <1>3, <1>5 DEF LogAlloc
  <2>2. Len(given') = Len(given) + 1
    BY <1>4, <2>1
  <2>3. /\ printed' \in Seq({"format", "message", "cut", "nothing"}) /\ Len(printed') = Len(given')
    BY <1>4, <1>5, <2>2 DEF LogAlloc
  <2> QED
    BY <1>1, <1>2, <1>4, <1>5, <2>2, <2>3 DEF LogAlloc, pieces, At, Goto, LogPrints, Holds, DeliveredWhole, PrintedIInv
<1>6. CASE LogPrintFormat
  <2>1. printed' \in Seq({"format", "message", "cut", "nothing"}) /\ Len(printed') = Len(given')
    <3>1. Text("format", length.format, STR_MAX_LEN) \in {"format", "message", "cut", "nothing"}
      BY DEF Text
    <3>2. PICK x \in {"format", "message", "cut", "nothing"} : printed' = [printed EXCEPT ![finalFormat] = x]
      BY <1>6, <3>1 DEF LogPrintFormat
    <3>3. given' = given
      BY <1>6 DEF LogPrintFormat, vars
    <3> QED
      BY <1>4, <3>2, <3>3, SlotWritten
  <2> QED
    BY <1>1, <1>2, <1>4, <1>6, <2>1 DEF LogPrintFormat, Text, vars, pieces, At, Goto, LogPrints, Holds, DeliveredWhole, PrintedIInv
<1>7. CASE LogGrowFormat
  <2>1. CASE TooLong
    <3>1. PICK room : room = (require + 1) % Modulus
      OBVIOUS
    <3>2. PICK piece : given' = Append(given, piece)
      BY <1>3, <1>7, <2>1 DEF LogGrowFormat
    <3>3. Len(given') = Len(given) + 1
      BY <1>4, <3>2
    <3>4. room = length.format + 1 /\ Len(given) >= 2
      BY <1>1, <1>2, <1>7, <3>1 DEF LogGrowFormat, At, LogPrints
    <3>5. printed' = Append(printed, "format") /\ finalFormat' = Len(given) + 1
      BY <1>1, <1>2, <1>7, <2>1, <3>1, <3>3, <3>4 DEF LogGrowFormat, Text
    <3>6. /\ printed' \in Seq({"format", "message", "cut", "nothing"}) /\ Len(printed') = Len(given')
          /\ Len(given) + 1 \in DOMAIN printed' /\ printed'[Len(given) + 1] = "format"
      BY <1>4, <3>3, <3>5
    <3> QED
      BY <1>1, <1>2, <1>4, <1>7, <2>1, <3>3, <3>4, <3>5, <3>6 DEF LogGrowFormat, At, Goto, LogPrints, Holds, DeliveredWhole, PrintedIInv
  <2>2. CASE ~TooLong
    BY <1>1, <1>2, <1>4, <1>7, <2>2 DEF LogGrowFormat, TooLong, vars, At, Goto, LogPrints, Holds, DeliveredWhole, PrintedIInv
  <2> QED
    BY <2>1, <2>2
<1>8. CASE LogPrintMessage
  <2>1. printed' \in Seq({"format", "message", "cut", "nothing"}) /\ Len(printed') = Len(given')
    <3>1. Text(Message, length.message, STR_MAX_LEN) \in {"format", "message", "cut", "nothing"}
      BY DEF Text, Message
    <3>2. PICK x \in {"format", "message", "cut", "nothing"} : printed' = [printed EXCEPT ![message] = x]
      BY <1>8, <3>1 DEF LogPrintMessage
    <3>3. given' = given
      BY <1>8 DEF LogPrintMessage, vars
    <3> QED
      BY <1>4, <3>2, <3>3, SlotWritten
  <2> QED
    BY <1>1, <1>2, <1>4, <1>8, <2>1 DEF LogPrintMessage, Text, Message, vars, pieces, At, Goto, LogPrints, Holds, DeliveredWhole, PrintedIInv
<1>9. CASE LogRestart
  BY <1>1, <1>2, <1>4, <1>9 DEF LogRestart, TooLong, vars, pieces, At, Goto, LogPrints, Holds, DeliveredWhole, PrintedIInv
<1>10. CASE LogGrowMessage
  <2>1. PICK room : room = (require + 1) % Modulus
    OBVIOUS
  <2>2. PICK piece : given' = Append(given, piece)
    BY <1>3, <1>10 DEF LogGrowMessage
  <2>3. Len(given') = Len(given) + 1
    BY <1>4, <2>2
  <2>4. room = length.message + 1 /\ Message = "message"
    BY <1>1, <1>2, <1>10, <2>1 DEF LogGrowMessage, At, LogPrints, Holds, Message
  <2>5. printed' = Append(printed, "message") /\ message' = Len(given) + 1
    BY <1>1, <1>2, <1>10, <2>1, <2>3, <2>4 DEF LogGrowMessage, Text
  <2>6. /\ printed' \in Seq({"format", "message", "cut", "nothing"}) /\ Len(printed') = Len(given')
        /\ Len(given) + 1 \in DOMAIN printed' /\ printed'[Len(given) + 1] = "message"
    BY <1>4, <2>3, <2>5
  <2> QED
    BY <1>1, <1>2, <1>4, <1>10, <2>3, <2>4, <2>5, <2>6 DEF LogGrowMessage, At, Goto, LogPrints, Holds, DeliveredWhole, PrintedIInv
<1>11. CASE LogTest
  BY <1>1, <1>2, <1>4, <1>11 DEF LogTest, vars, pieces, At, Goto, LogPrints, Holds, DeliveredWhole, PrintedIInv
<1>12. CASE LogDeliver
  BY <1>1, <1>2, <1>4, <1>12 DEF LogDeliver, vars, pieces, At, Goto, LogPrints, Holds, DeliveredWhole, PrintedIInv
<1>13. CASE LogCallsNull \/ LogEnd
  BY <1>1, <1>2, <1>4, <1>13 DEF LogCallsNull, LogEnd, Destroy, vars, pieces, At, Goto, LogPrints, Holds, DeliveredWhole, PrintedIInv
<1> QED
  BY <1>5, <1>6, <1>7, <1>8, <1>9, <1>10, <1>11, <1>12, <1>13 DEF LogWrite

\* The steps of format() and formatVa().
LEMMA FormatPrintsStep ==
    ASSUME NoWrap, PrintfFails = FALSE, FormatIInv, PrintedIInv,
           FormatMeasure \/ FormatAlloc \/ FormatPrint
    PROVE  FormatPrints' /\ DeliveredWhole'
<1>1. /\ client = "format" /\ client' = "format" /\ length' = length
      /\ length.message \in Lengths /\ FormatPrints /\ Clients
  BY DEF FormatMeasure, FormatAlloc, FormatPrint, At, Goto, PrintedIInv, FormatPrints
<1>2. /\ \A n : Answers(n) = {n}
      /\ \A n \in Lengths : n \in Nat
      /\ require \in Lengths => (require + 1) % Modulus = require + 1
  BY <1>1, RoomIsExact, LengthsAssumption DEF Answers
<1>3. CASE FormatMeasure \/ FormatAlloc
  BY <1>1, <1>2, <1>3 DEF FormatMeasure, FormatAlloc, At, Goto, FormatPrints, PrintedIInv, DeliveredWhole
<1>4. CASE FormatPrint
  <2>1. (require + 1) % Modulus = length.message + 1 /\ require = length.message /\ va = "fresh"
    BY <1>1, <1>2, <1>4 DEF FormatPrint, At, FormatPrints
  <2>2. out' = <<[text |-> "message", length |-> length.message, to |-> <<>>]>>
    BY <1>1, <1>2, <1>4, <2>1 DEF FormatPrint, Text
  <2> QED
    BY <1>1, <1>4, <2>2 DEF FormatPrint, Goto, FormatPrints, DeliveredWhole
<1> QED
  BY <1>3, <1>4

LEMMA PrintedKeeps ==
    ASSUME NoWrap, PrintfFails = FALSE, FormatIInv, PrintedIInv, [FormatNext]_fvars
    PROVE  PrintedIInv'
<1>1. Clients'
  BY ClientsKeep DEF FormatIInv
<1>2. CASE LogWrite
  <2>1. client' = "log"
    BY <1>2 DEF LogWrite, LogAlloc, LogPrintFormat, LogGrowFormat, LogPrintMessage, LogRestart,
                LogGrowMessage, LogTest, LogDeliver, LogCallsNull, LogEnd, At, Goto
  <2> QED
    BY <1>1, <1>2, <2>1, LogPrintsStep DEF PrintedIInv, FormatPrints
<1>3. CASE FormatMeasure \/ FormatAlloc \/ FormatPrint
  <2>1. client' = "format"
    BY <1>3 DEF FormatMeasure, FormatAlloc, FormatPrint, At, Goto
  <2> QED
    BY <1>1, <1>3, <2>1, FormatPrintsStep DEF PrintedIInv, LogPrints
<1>4. CASE UNCHANGED call /\ (client = "test" \/ UNCHANGED vars)
  BY <1>1, <1>4 DEF call, pieces, vars, PrintedIInv, LogPrints, FormatPrints, DeliveredWhole, Holds
<1> QED
  BY <1>2, <1>3, <1>4 DEF FormatNext, fvars

LEMMA PrintedStarts == ASSUME FormatInit PROVE PrintedIInv
<1>1. Clients
  BY ClientsStart DEF FormatIInv
<1>2. LogPrints /\ FormatPrints /\ DeliveredWhole
  BY DEF FormatInit, Init, LogPrints, FormatPrints, DeliveredWhole, At
<1> QED
  BY <1>1, <1>2 DEF PrintedIInv

\* A message of any length reaches the callback, or the caller of format(),
\* whole, if vsnprintf() does not fail (nc_log.cpp, nc_string.cpp).
THEOREM MessageDeliveredWhole ==
    ASSUME NoWrap, PrintfFails = FALSE PROVE FormatSpec => []DeliveredWhole
<1>1. FormatInit => FormatIInv /\ PrintedIInv
  BY ClientsStart, PrintedStarts
<1>2. FormatIInv /\ PrintedIInv /\ [FormatNext]_fvars => FormatIInv' /\ PrintedIInv'
  BY ClientsKeep, PrintedKeeps
<1>3. PrintedIInv => DeliveredWhole
  BY DEF PrintedIInv
<1> QED
  BY <1>1, <1>2, <1>3, PTL DEF FormatSpec
=============================================================================
