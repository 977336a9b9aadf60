---------------------------- MODULE NcFileProof ----------------------------
(***************************************************************************)
(* For any set of NcFile objects, whatever size the file has and however   *)
(* it changes: streams are closed once, data loaded is whole, and length() *)
(* finds the way back.                                                     *)
(***************************************************************************)
EXTENDS NcFile, TLAPS

\* A place that fits an int survives the cast.
LEMMA IntsAreKept ==
    ASSUME NEW n \in Nat, n <= IntMax
    PROVE  AsInt(n) = n
<1>1. Ints \in Nat /\ Ints > 0 /\ Ints \div 2 \in Nat /\ 2 * (Ints \div 2) <= Ints
  BY SizeAssumption
<1>2. n + Ints \div 2 \in Nat /\ n + Ints \div 2 < Ints
  BY <1>1 DEF IntMax
<1>3. \A m \in Nat, x \in Nat : x < m => x % m = x
  OBVIOUS
<1>4. (n + Ints \div 2) % Ints = n + Ints \div 2
  BY <1>1, <1>2, <1>3
<1> QED
  BY <1>1, <1>4 DEF AsInt

\* fseek() goes to a place that there is, or nowhere.
LEMMA SoughtIsPlace ==
    ASSUME size \in Nat, NEW p \in Nat, NEW origin \in {"current", "begin", "end"}, NEW offset \in Int
    PROVE  Sought(p, origin, offset) \in Nat
<1>1. AsInt(offset) \in Int
  BY SizeAssumption DEF AsInt
<1>2. Base(p, origin) \in Nat
  BY DEF Base
<1> QED
  BY <1>1, <1>2 DEF Sought

\* length() answers the size and comes back, if the place fits an int.
LEMMA LengthSeeks ==
    ASSUME size \in Nat, NEW p \in Nat
    PROVE  SoughtForLength(p) \in Nat /\ (p <= IntMax => SoughtForLength(p) = p)
<1>1. Sought(p, "end", 0) \in Nat
  BY SoughtIsPlace
<1>2. SoughtForLength(p) \in Nat
  BY <1>1, SoughtIsPlace DEF SoughtForLength
<1>3. ASSUME p <= IntMax
      PROVE  SoughtForLength(p) = p
  BY <1>3, IntsAreKept DEF SoughtForLength, Sought, Base
<1> QED
  BY <1>2, <1>3

\* What is read or written is some number of bytes.
LEMMA GotIsNumber ==
    ASSUME Types, NEW f \in Files, NEW n \in Nat, NEW got \in Deliverable(f, n)
    PROVE  got \in Nat
<1>1. \A a, b \in Int : Max({a, b}) \in Int /\ Min({a, b}) \in Int
  <2> TAKE a, b \in Int
  <2>1. \E x \in {a, b} : \A y \in {a, b} : x >= y
    OBVIOUS
  <2>2. \E x \in {a, b} : \A y \in {a, b} : x =< y
    OBVIOUS
  <2> QED
    BY <2>1, <2>2 DEF Max, Min
<1>2. PICK rest \in Int : rest = Max({size - pos[f], 0})
  <2>1. size - pos[f] \in Int
    BY DEF Types
  <2> QED
    BY <1>1, <2>1
<1>3. Min({n, rest}) \in Int
  BY <1>1
<1> QED
  BY <1>2, <1>3 DEF Deliverable

\* The greater of two sizes is a size.
LEMMA MaxOfTwo ==
    ASSUME NEW a \in Nat, NEW b \in Nat
    PROVE  Max({a, b}) \in Nat
<1>1. \E x \in {a, b} : \A y \in {a, b} : x >= y
  OBVIOUS
<1> QED
  BY <1>1 DEF Max

-----------------------------------------------------------------------------
LEMMA InitIInv == Init => IInv
  BY SizeAssumption DEF Init, NoData, IInv, Types, LoadsHoldTheirFile, ClosedOnce, LoadedWhole

\* Steps of an object that move its stream, or change the file.
LEMMA StreamMoves ==
    ASSUME IInv, NEW f \in Files, NEW p \in Nat, pos' = [pos EXCEPT ![f] = p], size' \in Nat,
           UNCHANGED <<file, loading>>
    PROVE  IInv'
  BY DEF IInv, Types, LoadsHoldTheirFile, ClosedOnce, LoadedWhole, file, loading

LEMMA OpenIInv == ASSUME IInv, NEW f \in Files, Open(f) PROVE IInv'
<1>1. PICK flags : Alloc(f, flags)
  BY DEF Open
<1>2. streams[f] = 0 /\ load[f] = "none"
  BY <1>1 DEF Alloc, IInv, ClosedOnce, LoadsHoldTheirFile, Types
<1> QED
  BY <1>1, <1>2 DEF Open, Alloc, IInv, Types, LoadsHoldTheirFile, ClosedOnce, LoadedWhole, loading

LEMMA CloseIInv == ASSUME IInv, NEW f \in Files, Close(f) PROVE IInv'
  BY DEF Close, CloseFp, Ready, IInv, Types, LoadsHoldTheirFile, ClosedOnce, LoadedWhole, loading

LEMMA EndIInv == ASSUME IInv, NEW f \in Files, End(f) PROVE IInv'
  BY DEF End, Delete, CloseFp, Ready, IInv, Types, LoadsHoldTheirFile, ClosedOnce, LoadedWhole, loading

LEMMA SeekIInv ==
    ASSUME IInv, NEW f \in Files, NEW origin \in {"current", "begin", "end"}, NEW offset \in Int,
           Seek(f, origin, offset)
    PROVE  IInv'
<1>1. Sought(pos[f], origin, offset) \in Nat
  BY SoughtIsPlace DEF IInv, Types
<1>2. pos' = [pos EXCEPT ![f] = Sought(pos[f], origin, offset)] /\ size' = size
      /\ UNCHANGED <<file, loading>>
  BY DEF Seek
<1> QED
  BY <1>1, <1>2, StreamMoves DEF IInv, Types

LEMMA LengthIInv == ASSUME IInv, NEW f \in Files, Length(f) PROVE IInv'
<1>1. SoughtForLength(pos[f]) \in Nat
  BY LengthSeeks DEF IInv, Types
<1>2. pos' = [pos EXCEPT ![f] = SoughtForLength(pos[f])] /\ size' = size
      /\ UNCHANGED <<file, loading>>
  BY DEF Length
<1> QED
  BY <1>1, <1>2, StreamMoves DEF IInv, Types

LEMMA ReadIInv == ASSUME IInv, NEW f \in Files, NEW n \in Nat, Read(f, n) PROVE IInv'
<1>1. PICK got \in Deliverable(f, n) : pos' = [pos EXCEPT ![f] = @ + got]
  BY DEF Read
<1>2. pos[f] + got \in Nat
  BY GotIsNumber DEF IInv, Types
<1>3. size' \in Nat /\ UNCHANGED <<file, loading>>
  BY DEF Read, IInv, Types
<1> QED
  BY <1>1, <1>2, <1>3, StreamMoves

LEMMA WriteIInv == ASSUME IInv, NEW f \in Files, NEW n \in Nat, Write(f, n) PROVE IInv'
<1>1. PICK done \in 0 .. n : /\ pos' = [pos EXCEPT ![f] = @ + done]
                             /\ size' = IF done = 0 THEN size ELSE Max({size, pos[f] + done})
  BY DEF Write
<1>2. pos[f] + done \in Nat /\ size \in Nat
  BY DEF IInv, Types
<1>3. size' \in Nat
  BY <1>1, <1>2, MaxOfTwo
<1> QED
  BY <1>1, <1>2, <1>3, StreamMoves DEF Write

LEMMA LoadOpenIInv == ASSUME IInv, NEW f \in Files, LoadOpen(f) PROVE IInv'
<1>1. streams[f] = 0 /\ load[f] = "none"
  BY DEF LoadOpen, Alloc, IInv, ClosedOnce, LoadsHoldTheirFile, Types
<1> QED
  BY <1>1 DEF LoadOpen, Alloc, IInv, Types, LoadsHoldTheirFile, ClosedOnce, LoadedWhole

LEMMA LoadLengthIInv == ASSUME IInv, NEW f \in Files, LoadLength(f) PROVE IInv'
<1>1. SoughtForLength(pos[f]) \in Nat /\ Sought(pos[f], "end", 0) \in Nat
  BY LengthSeeks, SoughtIsPlace DEF IInv, Types
<1> QED
  BY <1>1 DEF LoadLength, file, IInv, Types, LoadsHoldTheirFile, ClosedOnce, LoadedWhole

LEMMA LoadReadIInv == ASSUME IInv, NEW f \in Files, LoadRead(f) PROVE IInv'
<1>1. PICK got \in Deliverable(f, len[f]) :
          IF LoadedAll(f, got)
          THEN /\ data' = [data EXCEPT ![f] = [m_length |-> len[f], filled |-> got]]
               /\ buffer' = [buffer EXCEPT ![f] = "taken"]
          ELSE /\ buffer' = [buffer EXCEPT ![f] = "none"]
               /\ UNCHANGED data
  BY DEF LoadRead
<1>2. len[f] \in Nat
  BY DEF IInv, Types
<1>3. LoadedWhole' /\ data' \in [Files -> [m_length : Nat, filled : Nat]]
  <2>1. CASE LoadedAll(f, got)
    <3>1. data' = [data EXCEPT ![f] = [m_length |-> len[f], filled |-> len[f]]]
      BY <1>1, <2>1 DEF LoadedAll
    <3> QED
      BY <1>2, <3>1 DEF IInv, Types, LoadedWhole
  <2>2. CASE ~LoadedAll(f, got)
    BY <1>1, <2>2 DEF IInv, Types, LoadedWhole
  <2> QED
    BY <2>1, <2>2
<1>4. \E b \in {"taken", "none"} : buffer' = [buffer EXCEPT ![f] = b]
  BY <1>1
<1> QED
  BY <1>3, <1>4 DEF LoadRead, Delete, CloseFp, IInv, Types, LoadsHoldTheirFile, ClosedOnce

LEMMA EndDataIInv == ASSUME IInv, NEW f \in Files, EndData(f) PROVE IInv'
  BY DEF EndData, file, NoData, IInv, Types, LoadsHoldTheirFile, ClosedOnce, LoadedWhole

LEMMA NextIInv == IInv /\ [Next]_vars => IInv'
<1> SUFFICES ASSUME IInv, [Next]_vars PROVE IInv'
  OBVIOUS
<1>1. CASE Resize
  BY <1>1, SizeAssumption DEF Resize, file, loading, IInv, Types, LoadsHoldTheirFile, ClosedOnce, LoadedWhole
<1>2. ASSUME NEW f \in Files,
             Open(f) \/ Close(f) \/ End(f) \/ Length(f) \/ LoadOpen(f) \/ LoadLength(f)
                 \/ LoadRead(f) \/ EndData(f)
      PROVE  IInv'
  BY <1>2, OpenIInv, CloseIInv, EndIInv, LengthIInv, LoadOpenIInv, LoadLengthIInv, LoadReadIInv,
     EndDataIInv
<1>3. ASSUME NEW f \in Files, NEW n \in 0 .. MaxSize, Read(f, n) \/ Write(f, n)
      PROVE  IInv'
  BY <1>3, ReadIInv, WriteIInv, SizeAssumption
<1>4. ASSUME NEW f \in Files, NEW origin \in {"current", "begin", "end"},
             NEW offset \in -MaxSize .. MaxSize, Seek(f, origin, offset)
      PROVE  IInv'
  BY <1>4, SeekIInv, SizeAssumption
<1>5. CASE UNCHANGED vars
  BY <1>5 DEF vars, IInv, Types, LoadsHoldTheirFile, ClosedOnce, LoadedWhole
<1> QED
  BY <1>1, <1>2, <1>3, <1>4, <1>5 DEF Next

\* The inductive invariant holds in every reachable state.
THEOREM NcFileInvariant == Spec => []IInv
  BY InitIInv, NextIInv, PTL DEF Spec

\* Every stream is closed once, by close() or ~NcFile(), also if a load fails
\* half way; and a load leaves no buffer behind (nc_file.cpp, nc_data.cpp).
THEOREM NcFileClosedOnce == Spec => []ClosedOnce
<1>1. IInv => ClosedOnce
  BY DEF IInv
<1> QED
  BY <1>1, NcFileInvariant, PTL

\* An NcData is never shorter than it says, though the file may shrink between
\* length() and read() (NcData::allocWithContentsOfFile()).
THEOREM NcFileLoadedWhole == Spec => []LoadedWhole
<1>1. IInv => LoadedWhole
  BY DEF IInv
<1> QED
  BY <1>1, NcFileInvariant, PTL

\* NcFile::length() does not move the stream, up to the greatest int.
THEOREM NcFileLengthKeepsPlace == Spec => LengthKeepsPlace
<1>1. IInv => [\A f \in Files : Length(f) /\ pos[f] <= IntMax => pos'[f] = pos[f]]_vars
  <2> SUFFICES ASSUME IInv, NEW f \in Files, Length(f), pos[f] <= IntMax
               PROVE  pos'[f] = pos[f]
    OBVIOUS
  <2>1. SoughtForLength(pos[f]) = pos[f]
    BY LengthSeeks DEF IInv, Types
  <2> QED
    BY <2>1 DEF Length, IInv, Types
<1> QED
  BY <1>1, NcFileInvariant, PTL DEF LengthKeepsPlace
=============================================================================
