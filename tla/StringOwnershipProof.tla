------------------------ MODULE StringOwnershipProof ------------------------
(***************************************************************************)
(* For any strings and any finite sets of variables: each string is        *)
(* counted once for each slice, pointer and iterator that holds it, lives  *)
(* exactly as long, and nothing that can be read points into a freed one.  *)
(*                                                                         *)
(* Every statement either moves one variable from one string to another    *)
(* and counts that (RecountKeeps), or makes a string (NewKeeps), or hands  *)
(* a reference from one variable to another (Move).                        *)
(***************************************************************************)
EXTENDS StringOwnership, FiniteSetTheorems, TLAPS

Variables == SliceVars \cup PtrVars \cup IterVars

\* The holders of a string are finitely many, and what may change.
LEMMA HoldersFinite ==
    ASSUME NEW o
    PROVE  Holders(o) \subseteq Variables /\ IsFiniteSet(Holders(o))
<1>1. IsFiniteSet(Variables)
  BY VariablesAssumption, FS_Union DEF Variables
<1>2. Holders(o) \subseteq Variables
  BY DEF Holders, Variables
<1> QED
  BY <1>1, <1>2, FS_Subset

\* One more holder, one less, or one in place of another.
LEMMA HolderCounts ==
    ASSUME NEW H, IsFiniteSet(H), NEW x
    PROVE  /\ Cardinality(H) \in Nat /\ (Cardinality(H) = 0 <=> H = {})
           /\ x \notin H => Cardinality(H \cup {x}) = Cardinality(H) + 1
           /\ x \in H => Cardinality(H \ {x}) = Cardinality(H) - 1
           /\ IsFiniteSet(H \cup {x}) /\ IsFiniteSet(H \ {x})
  BY FS_CardinalityType, FS_EmptySet, FS_AddElement, FS_RemoveElement

\* A holder may be exchanged for one that was none.
LEMMA HolderExchanged ==
    ASSUME NEW H, IsFiniteSet(H), NEW x \in H, NEW y, y \notin H
    PROVE  Cardinality((H \ {x}) \cup {y}) = Cardinality(H)
<1>1. Cardinality(H \ {x}) = Cardinality(H) - 1 /\ IsFiniteSet(H \ {x})
  BY HolderCounts
<1>2. Cardinality((H \ {x}) \cup {y}) = Cardinality(H \ {x}) + 1
  BY <1>1, HolderCounts
<1> QED
  BY <1>1, <1>2, HolderCounts

\* A string that somebody holds is counted, and there.
LEMMA HeldIsLive ==
    ASSUME Types, Counted, NEW o \in Strings, Holders(o) # {} \/ orphans[o] > 0
    PROVE  rc[o] > 0 /\ state[o] = "live"
<1>1. Cardinality(Holders(o)) \in Nat /\ (Cardinality(Holders(o)) = 0 <=> Holders(o) = {})
  BY HoldersFinite, HolderCounts
<1> QED
  BY <1>1 DEF Types, Counted

\* x lets go of the string down and takes up.
Exchanges(x, up, down) ==
    \A o \in Strings : /\ x \in Holders(o) <=> o = down
                       /\ Holders(o)' = IF o = up THEN Holders(o) \cup {x} ELSE Holders(o) \ {x}

\* What the counting says of a statement that does it.
LEMMA RecountKeeps ==
    ASSUME Types, Counted, NEW x, NEW up, NEW down, Recount(up, down), UNCHANGED orphans,
           Exchanges(x, up, down), up \in Strings => Holders(up) # {}
    PROVE  /\ rc' \in [Strings -> Nat] /\ state' \in [Strings -> {"unused", "live", "freed"}]
           /\ Counted'
<1>1. ASSUME NEW o \in Strings
      PROVE  /\ rc'[o] \in Nat /\ rc'[o] = Cardinality(Holders(o)') + orphans[o]
             /\ rc[o] \in Nat /\ orphans[o] \in Nat /\ rc[o] = Cardinality(Holders(o)) + orphans[o]
  <2>1. /\ Cardinality(Holders(o)) \in Nat
        /\ x \notin Holders(o) => Cardinality(Holders(o) \cup {x}) = Cardinality(Holders(o)) + 1
        /\ x \in Holders(o) => /\ Cardinality(Holders(o) \ {x}) = Cardinality(Holders(o)) - 1
                               /\ Cardinality(Holders(o)) # 0
    BY HoldersFinite, HolderCounts
  <2>2. rc[o] \in Nat /\ orphans[o] \in Nat /\ rc[o] = Cardinality(Holders(o)) + orphans[o]
    BY DEF Types, Counted
  <2>3. rc'[o] = rc[o] + One(o, up) - One(o, down)
    BY DEF Recount
  <2>4. CASE o = down
    <3>1. CASE o = up
      <4>1. Holders(o)' = Holders(o)
        BY <2>4, <3>1 DEF Exchanges
      <4> QED
        BY <2>1, <2>2, <2>3, <2>4, <3>1, <4>1 DEF One
    <3>2. CASE o # up
      <4>1. x \in Holders(o) /\ Holders(o)' = Holders(o) \ {x}
        BY <2>4, <3>2 DEF Exchanges
      <4> QED
        BY <2>1, <2>2, <2>3, <2>4, <3>2, <4>1 DEF One
    <3> QED
      BY <3>1, <3>2
  <2>5. CASE o # down
    <3>1. CASE o = up
      <4>1. x \notin Holders(o) /\ Holders(o)' = Holders(o) \cup {x}
        BY <2>5, <3>1 DEF Exchanges
      <4> QED
        BY <2>1, <2>2, <2>3, <2>5, <3>1, <4>1 DEF One
    <3>2. CASE o # up
      <4>1. Holders(o)' = Holders(o)
        BY <2>5, <3>2 DEF Exchanges
      <4> QED
        BY <2>1, <2>2, <2>3, <2>5, <3>2, <4>1 DEF One
    <3> QED
      BY <3>1, <3>2
  <2> QED
    BY <2>4, <2>5
<1>2. ASSUME NEW o \in Strings
      PROVE  state'[o] = "live" <=> rc'[o] > 0
  <2>1. o = up => rc[o] > 0
    BY HeldIsLive
  <2>2. rc'[o] = rc[o] + One(o, up) - One(o, down)
    BY DEF Recount
  <2>3. rc'[o] > 0 => rc[o] > 0
    BY <1>1, <2>1, <2>2 DEF One
  <2> QED
    BY <1>1, <2>3 DEF Recount, Counted
<1>3. state' \in [Strings -> {"unused", "live", "freed"}]
  BY DEF Recount, Types
<1>4. rc' \in [Strings -> Nat]
  BY <1>1 DEF Recount
<1> QED
  BY <1>1, <1>2, <1>3, <1>4 DEF Counted

\* A string begins with x as its one holder.
LEMMA NewKeeps ==
    ASSUME Types, Counted, NEW x, NEW n \in Strings, NEW where, New(n, where), UNCHANGED orphans,
           \A o \in Strings : Holders(o)' = IF o = n THEN Holders(o) \cup {x} ELSE Holders(o)
    PROVE  /\ rc' \in [Strings -> Nat] /\ state' \in [Strings -> {"unused", "live", "freed"}]
           /\ Counted'
<1>1. Holders(n) = {} /\ orphans[n] = 0
  BY HeldIsLive DEF New, Types
<1>2. Cardinality(Holders(n)') = 1
  BY <1>1, FS_Singleton, ZenonT(60)
<1>3. rc' \in [Strings -> Nat] /\ state' \in [Strings -> {"unused", "live", "freed"}]
  BY DEF New, Types
<1> QED
  BY <1>1, <1>2, <1>3 DEF New, Types, Counted

-----------------------------------------------------------------------------
(* One variable is given another value.                                    *)

\* the string that a slice or an iterator holds, and the one a pointer holds
Held(window) == IF window = Gone THEN NULL ELSE window.m_ncstring
HeldBy(p)    == IF p = Gone THEN NULL ELSE p

\* What the iterators hold stays the same, whatever else they do.
IterKept ==
    /\ iter' \in [IterVars -> Iters \cup {Gone}]
    /\ \A i \in IterVars : Sound(iter'[i]) /\ Held(iter'[i]) = Held(iter[i])

\* Who holds a string after a slice has been given another value.
LEMMA SliceMoves ==
    ASSUME Types, NEW v \in SliceVars, NEW r \in Slices \cup {Gone},
           slice' = [slice EXCEPT ![v] = r], UNCHANGED ptr, IterKept
    PROVE  \A o \in Strings :
               /\ v \in Holders(o) <=> o = Held(slice[v])
               /\ Holders(o)' = IF o = Held(r) THEN Holders(o) \cup {v} ELSE Holders(o) \ {v}
<1> TAKE o \in Strings
<1>1. v \notin PtrVars /\ v \notin IterVars /\ o # NULL
  BY VariablesAssumption, NamesAssumption
<1>2. v \in Holders(o) <=> o = Held(slice[v])
  BY <1>1 DEF Holders, Held, InScope
<1>3. slice'[v] = r /\ \A w \in SliceVars \ {v} : slice'[w] = slice[w]
  BY DEF Types
<1>4. \A i \in IterVars : iter'[i] # Gone /\ iter'[i].m_ncstring = o
                       <=> iter[i] # Gone /\ iter[i].m_ncstring = o
  BY <1>1 DEF IterKept, Held
<1>5. \A x : x \in Holders(o)' <=> IF x = v THEN o = Held(r) ELSE x \in Holders(o)
  BY <1>1, <1>3, <1>4 DEF Holders, Held, InScope
<1> QED
  BY <1>2, <1>5

\* The same of a pointer.
LEMMA PtrMoves ==
    ASSUME Types, NEW p \in PtrVars, NEW r \in Strings \cup {Gone},
           ptr' = [ptr EXCEPT ![p] = r], UNCHANGED <<slice, iter>>
    PROVE  \A o \in Strings :
               /\ p \in Holders(o) <=> o = HeldBy(ptr[p])
               /\ Holders(o)' = IF o = HeldBy(r) THEN Holders(o) \cup {p} ELSE Holders(o) \ {p}
<1> TAKE o \in Strings
<1>1. p \notin SliceVars /\ p \notin IterVars /\ o # NULL /\ o # Gone
  BY VariablesAssumption, NamesAssumption
<1>2. p \in Holders(o) <=> o = HeldBy(ptr[p])
  BY <1>1 DEF Holders, HeldBy
<1>3. ptr'[p] = r /\ \A q \in PtrVars \ {p} : ptr'[q] = ptr[q]
  BY DEF Types
<1>4. \A x : x \in Holders(o)' <=> IF x = p THEN o = HeldBy(r) ELSE x \in Holders(o)
  BY <1>1, <1>3 DEF Holders, HeldBy, InScope
<1> QED
  BY <1>2, <1>4

\* The same of an iterator.
LEMMA IterMoves ==
    ASSUME Types, NEW i \in IterVars, NEW r \in Iters \cup {Gone},
           iter' = [iter EXCEPT ![i] = r], UNCHANGED <<slice, ptr>>
    PROVE  \A o \in Strings :
               /\ i \in Holders(o) <=> o = Held(iter[i])
               /\ Holders(o)' = IF o = Held(r) THEN Holders(o) \cup {i} ELSE Holders(o) \ {i}
<1> TAKE o \in Strings
<1>1. i \notin SliceVars /\ i \notin PtrVars /\ o # NULL
  BY VariablesAssumption, NamesAssumption
<1>2. i \in Holders(o) <=> o = Held(iter[i])
  BY <1>1 DEF Holders, Held
<1>3. iter'[i] = r /\ \A j \in IterVars \ {i} : iter'[j] = iter[j]
  BY DEF Types
<1>4. \A x : x \in Holders(o)' <=> IF x = i THEN o = Held(r) ELSE x \in Holders(o)
  BY <1>1, <1>3 DEF Holders, Held, InScope
<1> QED
  BY <1>2, <1>4

\* Whatever a variable refers to is held.
LEMMA ReferredIsHeld ==
    ASSUME Types
    PROVE  /\ \A v \in SliceVars : Held(slice[v]) \in Strings => v \in Holders(Held(slice[v]))
           /\ \A p \in PtrVars : HeldBy(ptr[p]) \in Strings => p \in Holders(HeldBy(ptr[p]))
           /\ \A i \in IterVars : Held(iter[i]) \in Strings => i \in Holders(Held(iter[i]))
  BY NamesAssumption DEF Holders, Held, HeldBy, InScope

\* A slice that is given another value, and what it holds counted, keep the invariant.
LEMMA SliceSetMeanwhile ==
    ASSUME IInv, NEW v \in SliceVars, NEW r \in Slices \cup {Gone}, Sound(r),
           slice' = [slice EXCEPT ![v] = r], Recount(Held(r), Held(slice[v])),
           Held(r) \in Strings => Holders(Held(r)) # {},
           UNCHANGED <<ptr, orphans>>, IterKept
    PROVE  IInv'
<1>1. /\ rc' \in [Strings -> Nat] /\ state' \in [Strings -> {"unused", "live", "freed"}]
      /\ Counted'
  <2>1. Types /\ Counted
    BY DEF IInv
  <2>2. PICK up, down : up = Held(r) /\ down = Held(slice[v])
    OBVIOUS
  <2>3. Exchanges(v, up, down)
    BY <2>1, <2>2, SliceMoves DEF Exchanges
  <2>4. Recount(up, down)
    BY <2>2 DEF Recount
  <2>5. (up \in Strings => Holders(up) # {}) /\ UNCHANGED orphans
    BY <2>2
  <2> QED
    BY <2>1, <2>3, <2>4, <2>5, RecountKeeps
<1>2. Types'
  BY <1>1 DEF IInv, Types, IterKept
<1>3. ReadsWhatItHolds'
  BY DEF IInv, Types, ReadsWhatItHolds, IterKept
<1> QED
  BY <1>1, <1>2, <1>3 DEF IInv

\* The same when the iterators are left alone.
LEMMA IterStays == ASSUME IInv, UNCHANGED iter PROVE IterKept
  BY DEF IInv, Types, ReadsWhatItHolds, IterKept

LEMMA SliceSet ==
    ASSUME IInv, NEW v \in SliceVars, NEW r \in Slices \cup {Gone}, Sound(r),
           slice' = [slice EXCEPT ![v] = r], Recount(Held(r), Held(slice[v])),
           Held(r) \in Strings => Holders(Held(r)) # {},
           UNCHANGED <<ptr, iter, orphans>>
    PROVE  IInv'
  BY IterStays, SliceSetMeanwhile

\* The same of a pointer.
LEMMA PtrSet ==
    ASSUME IInv, NEW p \in PtrVars, NEW r \in Strings \cup {Gone},
           ptr' = [ptr EXCEPT ![p] = r], Recount(HeldBy(r), HeldBy(ptr[p])),
           HeldBy(r) \in Strings => Holders(HeldBy(r)) # {},
           UNCHANGED <<slice, iter, orphans>>
    PROVE  IInv'
<1>1. /\ rc' \in [Strings -> Nat] /\ state' \in [Strings -> {"unused", "live", "freed"}]
      /\ Counted'
  <2>1. Types /\ Counted
    BY DEF IInv
  <2>2. PICK up, down : up = HeldBy(r) /\ down = HeldBy(ptr[p])
    OBVIOUS
  <2>3. Exchanges(p, up, down)
    BY <2>1, <2>2, PtrMoves DEF Exchanges
  <2>4. Recount(up, down)
    BY <2>2 DEF Recount
  <2>5. (up \in Strings => Holders(up) # {}) /\ UNCHANGED orphans
    BY <2>2
  <2> QED
    BY <2>1, <2>3, <2>4, <2>5, RecountKeeps
<1>2. Types'
  BY <1>1 DEF IInv, Types
<1>3. ReadsWhatItHolds'
  BY DEF IInv, ReadsWhatItHolds, InScope
<1> QED
  BY <1>1, <1>2, <1>3 DEF IInv

\* The same of an iterator.
LEMMA IterSet ==
    ASSUME IInv, NEW i \in IterVars, NEW r \in Iters \cup {Gone}, Sound(r),
           iter' = [iter EXCEPT ![i] = r], Recount(Held(r), Held(iter[i])),
           Held(r) \in Strings => Holders(Held(r)) # {},
           UNCHANGED <<slice, ptr, orphans>>
    PROVE  IInv'
<1>1. /\ rc' \in [Strings -> Nat] /\ state' \in [Strings -> {"unused", "live", "freed"}]
      /\ Counted'
  <2>1. Types /\ Counted
    BY DEF IInv
  <2>2. PICK up, down : up = Held(r) /\ down = Held(iter[i])
    OBVIOUS
  <2>3. Exchanges(i, up, down)
    BY <2>1, <2>2, IterMoves DEF Exchanges
  <2>4. Recount(up, down)
    BY <2>2 DEF Recount
  <2>5. (up \in Strings => Holders(up) # {}) /\ UNCHANGED orphans
    BY <2>2
  <2> QED
    BY <2>1, <2>3, <2>4, <2>5, RecountKeeps
<1>2. Types'
  BY <1>1 DEF IInv, Types
<1>3. ReadsWhatItHolds'
  BY DEF IInv, Types, ReadsWhatItHolds, InScope
<1> QED
  BY <1>1, <1>2, <1>3 DEF IInv

-----------------------------------------------------------------------------
(* The statements.                                                         *)

\* What a slice in scope is, and that somebody holds its string: itself.
LEMMA SliceFacts ==
    ASSUME IInv, NEW w \in SliceVars, InScope(w)
    PROVE  /\ slice[w] \in Slices /\ Sound(slice[w]) /\ Held(slice[w]) = slice[w].m_ncstring
           /\ Held(slice[w]) \in Strings => Holders(Held(slice[w])) # {}
  BY ReferredIsHeld DEF IInv, Types, ReadsWhatItHolds, InScope, Sound, Held

\* The value of a slice or an iterator that is not moved from.
LEMMA UnmovedIsSound ==
    ASSUME NEW r \in Slices \cup Iters, ~r.moved, Backed(r)
    PROVE  Sound(r) /\ Held(r) = r.m_ncstring
  BY NamesAssumption DEF Sound, Held

LEMMA EphemeralKeeps == ASSUME IInv, NEW v \in SliceVars, Ephemeral(v) PROVE IInv'
<1>1. PICK r : r = Slice(Static, NULL, FALSE)
  OBVIOUS
<1>2. r \in Slices /\ Sound(r) /\ Held(r) = NULL
  BY <1>1, NamesAssumption DEF Slice, Slices, Sound, Backed, Held
<1>3. Recount(Held(r), Held(slice[v]))
  BY <1>2, NamesAssumption DEF Ephemeral, Recount, One, Held, IInv, Types
<1> QED
  BY <1>1, <1>2, <1>3, SliceSet, NamesAssumption DEF Ephemeral

LEMMA ToEphemeralSliceKeeps ==
    ASSUME IInv, NEW v \in SliceVars, NEW p \in PtrVars, ToEphemeralSlice(v, p) PROVE IInv'
<1>1. PICK r : r = [Slice(ptr[p], NULL, FALSE) EXCEPT !.ephemeral = TRUE]
  OBVIOUS
<1>2. ptr[p] \in Strings
  BY DEF ToEphemeralSlice, IInv, Types
<1>3. r \in Slices /\ ~r.moved /\ Backed(r) /\ r.m_ncstring = NULL
  BY <1>1, <1>2 DEF Slice, Slices, Backed
<1>4. Sound(r) /\ Held(r) = NULL
  BY <1>3, UnmovedIsSound
<1>5. Recount(Held(r), Held(slice[v]))
  BY <1>4, NamesAssumption DEF ToEphemeralSlice, Recount, One, Held, IInv, Types
<1> QED
  BY <1>1, <1>3, <1>4, <1>5, SliceSet, NamesAssumption DEF ToEphemeralSlice

LEMMA CopyKeeps ==
    ASSUME IInv, NEW v \in SliceVars, NEW w \in SliceVars,
           Copy(v, w) \/ Assign(v, w) \/ Subslice(v, w)
    PROVE  IInv'
<1>1. PICK r : /\ slice' = [slice EXCEPT ![v] = r] /\ UNCHANGED <<ptr, iter, orphans>>
               /\ \/ r = slice[w]
                  \/ \E whole \in {slice[w].whole, FALSE} : r = [slice[w] EXCEPT !.whole = whole]
  BY DEF Copy, Assign, Subslice
<1>2. /\ slice[w] \in Slices /\ ~slice[w].moved /\ Backed(slice[w])
      /\ slice[w].m_ncstring \in Strings => Holders(slice[w].m_ncstring) # {}
  BY SliceFacts DEF Copy, Assign, Subslice, Usable, InScope, Sound
<1>3. /\ r \in Slices /\ ~r.moved /\ r.ephemeral = slice[w].ephemeral
      /\ r.m_ncstring = slice[w].m_ncstring /\ r.m_str = slice[w].m_str
  BY <1>1, <1>2 DEF Slices
<1>4. Sound(r) /\ Held(r) = slice[w].m_ncstring
  BY <1>2, <1>3, UnmovedIsSound DEF Backed
<1>5. Recount(Held(r), Held(slice[v]))
  BY <1>4 DEF Copy, Assign, Subslice, Recount, Held, InScope
<1>6. Held(r) \in Strings => Holders(Held(r)) # {}
  BY <1>2, <1>4
<1> QED
  BY <1>1, <1>3, <1>4, <1>5, <1>6, SliceSet

LEMMA EndSliceKeeps == ASSUME IInv, NEW v \in SliceVars, EndSlice(v) PROVE IInv'
<1>1. Sound(Gone) /\ Held(Gone) = NULL
  BY DEF Sound, Held
<1>2. Recount(Held(Gone), Held(slice[v]))
  BY <1>1 DEF EndSlice, InScope, Recount, Held
<1> QED
  BY <1>1, <1>2, SliceSet, NamesAssumption DEF EndSlice

LEMMA ToSliceKeeps ==
    ASSUME IInv, NEW v \in SliceVars, NEW p \in PtrVars, ToSlice(v, p) PROVE IInv'
<1>1. PICK r : r = Slice(ptr[p], ptr[p], TRUE)
  OBVIOUS
<1>2. ptr[p] \in Strings /\ Holders(ptr[p]) # {}
  BY ReferredIsHeld DEF ToSlice, IInv, Types, HeldBy
<1>3. r \in Slices /\ ~r.moved /\ Backed(r) /\ r.m_ncstring = ptr[p]
  BY <1>1, <1>2, NamesAssumption DEF Slice, Slices, Backed
<1>4. Sound(r) /\ Held(r) = ptr[p]
  BY <1>3, UnmovedIsSound
<1>5. Recount(Held(r), Held(slice[v]))
  BY <1>4 DEF ToSlice, Recount, Held
<1>6. Held(r) \in Strings => Holders(Held(r)) # {}
  BY <1>2, <1>4
<1> QED
  BY <1>1, <1>3, <1>4, <1>5, <1>6, SliceSet DEF ToSlice

LEMMA IterNextKeeps ==
    ASSUME IInv, NEW i \in IterVars, NEW v \in SliceVars, IterNext(i, v) PROVE IInv'
<1>1. PICK r : /\ \E whole \in {iter[i].whole, FALSE} :
                      r = [Slice(iter[i].m_str, iter[i].m_ncstring, whole)
                              EXCEPT !.ephemeral = iter[i].ephemeral]
               /\ slice' = [slice EXCEPT ![v] = r]
  BY DEF IterNext
<1>2. /\ iter[i] \in Iters /\ ~iter[i].moved /\ Backed(iter[i])
      /\ iter[i].m_ncstring \in Strings => Holders(iter[i].m_ncstring) # {}
  BY ReferredIsHeld DEF IterNext, Running, IInv, Types, ReadsWhatItHolds, Sound, Held
<1>3. r \in Slices /\ ~r.moved /\ Backed(r) /\ r.m_ncstring = iter[i].m_ncstring
  BY <1>1, <1>2 DEF Slice, Slices, Iters, Backed
<1>4. Sound(r) /\ Held(r) = iter[i].m_ncstring
  BY <1>3, UnmovedIsSound
<1>5. Recount(Held(r), Held(slice[v]))
  BY <1>4 DEF IterNext, InScope, Recount, Held
<1>6. Held(r) \in Strings => Holders(Held(r)) # {}
  BY <1>2, <1>4
<1>7. IterKept
  <2>1. PICK s : s = [iter[i] EXCEPT !.whole = FALSE]
    OBVIOUS
  <2>2. s \in Iters /\ ~s.moved /\ Backed(s) /\ s.m_ncstring = iter[i].m_ncstring
    BY <1>2, <2>1 DEF Iters, Backed
  <2>3. Sound(s) /\ Held(s) = Held(iter[i])
    BY <1>2, <2>2, UnmovedIsSound
  <2>4. iter' = [iter EXCEPT ![i] = s]
    BY <2>1 DEF IterNext
  <2> QED
    BY <2>2, <2>3, <2>4 DEF IInv, Types, ReadsWhatItHolds, IterKept
<1> QED
  BY <1>1, <1>3, <1>4, <1>5, <1>6, <1>7, SliceSetMeanwhile DEF IterNext

LEMMA EndPtrKeeps == ASSUME IInv, NEW p \in PtrVars, EndPtr(p) PROVE IInv'
<1>1. HeldBy(Gone) = NULL
  BY DEF HeldBy
<1>2. Recount(HeldBy(Gone), HeldBy(ptr[p]))
  BY <1>1 DEF EndPtr, Recount, HeldBy
<1> QED
  BY <1>1, <1>2, PtrSet, NamesAssumption DEF EndPtr

LEMMA IterStartKeeps ==
    ASSUME IInv, NEW i \in IterVars, NEW w \in SliceVars, NEW sep \in SliceVars,
           IterStart(i, w, sep)
    PROVE  IInv'
<1>1. PICK r : r = [m_str |-> slice[w].m_str, m_ncstring |-> slice[w].m_ncstring,
                    m_sep |-> slice[sep].m_str, whole |-> slice[w].whole,
                    moved |-> FALSE, ephemeral |-> slice[w].ephemeral]
  OBVIOUS
<1>2. /\ slice[w] \in Slices /\ slice[sep] \in Slices /\ Backed(slice[w])
      /\ slice[w].m_ncstring \in Strings => Holders(slice[w].m_ncstring) # {}
  BY SliceFacts DEF IterStart, Usable, InScope, Sound
<1>3. r \in Iters /\ ~r.moved /\ Backed(r) /\ r.m_ncstring = slice[w].m_ncstring
  BY <1>1, <1>2 DEF Iters, Slices, Backed
<1>4. Sound(r) /\ Held(r) = slice[w].m_ncstring
  BY <1>3, UnmovedIsSound
<1>5. Recount(Held(r), Held(iter[i]))
  BY <1>4 DEF IterStart, Recount, Held
<1>6. Held(r) \in Strings => Holders(Held(r)) # {}
  BY <1>2, <1>4
<1> QED
  BY <1>1, <1>3, <1>4, <1>5, <1>6, IterSet DEF IterStart

LEMMA IterEndKeeps == ASSUME IInv, NEW i \in IterVars, IterEnd(i) PROVE IInv'
<1>1. Sound(Gone) /\ Held(Gone) = NULL
  BY DEF Sound, Held
<1>2. Recount(Held(Gone), Held(iter[i]))
  BY <1>1 DEF IterEnd, Recount, Held
<1> QED
  BY <1>1, <1>2, IterSet, NamesAssumption DEF IterEnd

\* A new string, and the slice that is all of it.
LEMMA MakeKeeps ==
    ASSUME IInv, NEW v \in SliceVars, NEW o \in Strings, Make(v, o) \/ MakeByTaking(v, o)
    PROVE  IInv'
<1>1. PICK r, where : /\ r = Slice(o, o, TRUE) /\ slice' = [slice EXCEPT ![v] = r]
                      /\ New(o, where) /\ slice[v] = Gone /\ UNCHANGED <<ptr, iter, orphans>>
  BY DEF Make, MakeByTaking
<1>2. r \in Slices /\ ~r.moved /\ Backed(r) /\ r.m_ncstring = o
  BY <1>1, NamesAssumption DEF Slice, Slices, Backed
<1>3. Sound(r) /\ Held(r) = o /\ Held(slice[v]) = NULL
  BY <1>1, <1>2, UnmovedIsSound DEF Held
<1>4. Types /\ Counted
  BY DEF IInv
<1>5. \A s \in Strings : /\ v \in Holders(s) <=> s = Held(slice[v])
                         /\ Holders(s)' = IF s = Held(r) THEN Holders(s) \cup {v} ELSE Holders(s) \ {v}
  BY <1>1, <1>2, <1>4, SliceMoves, IterStays
<1>6. \A s \in Strings : Holders(s)' = IF s = o THEN Holders(s) \cup {v} ELSE Holders(s)
  BY <1>3, <1>5, NamesAssumption
<1>7. /\ rc' \in [Strings -> Nat] /\ state' \in [Strings -> {"unused", "live", "freed"}]
      /\ Counted'
  BY <1>1, <1>4, <1>6, NewKeeps
<1>8. Types'
  BY <1>1, <1>2, <1>4, <1>7 DEF Types
<1>9. ReadsWhatItHolds'
  BY <1>1, <1>3, <1>4 DEF IInv, Types, ReadsWhatItHolds, InScope, Sound
<1> QED
  BY <1>7, <1>8, <1>9 DEF IInv

\* The reference goes from w to v, and with it w's place among the holders.
LEMMA MoveKeeps ==
    ASSUME IInv, NEW v \in SliceVars, NEW w \in SliceVars, Move(v, w) PROVE IInv'
<1>1. /\ Types /\ Counted /\ slice[v] = Gone /\ slice[w] \in Slices /\ ~slice[w].moved
      /\ Backed(slice[w]) /\ v # w
  BY DEF IInv, Types, ReadsWhatItHolds, Sound, Move, Usable
<1>2. /\ slice'[v] = slice[w]
      /\ slice'[w] = [slice[w] EXCEPT !.m_ncstring = NULL, !.whole = FALSE, !.moved = TRUE]
      /\ \A u \in SliceVars \ {v, w} : slice'[u] = slice[u]
  BY <1>1 DEF Move, Types
<1>3. slice'[w] \in Slices /\ slice'[w].m_ncstring = NULL /\ slice'[w].moved
  BY <1>1, <1>2 DEF Slices
<1>4. Types'
  BY <1>1, <1>2, <1>3 DEF Move, Types
<1>5. ASSUME NEW o \in Strings
      PROVE  Cardinality(Holders(o)') = Cardinality(Holders(o))
  <2>1. v \notin PtrVars \cup IterVars /\ w \notin PtrVars \cup IterVars /\ o # NULL
    BY VariablesAssumption, NamesAssumption
  <2>2. CASE o = slice[w].m_ncstring
    <3>1. w \in Holders(o) /\ v \notin Holders(o)
      BY <1>1, <2>1, <2>2, NamesAssumption DEF Holders, InScope
    <3>2. \A u \in SliceVars : slice'[u] # Gone /\ slice'[u].m_ncstring = o
                  <=> u = v \/ (u # w /\ slice[u] # Gone /\ slice[u].m_ncstring = o)
      BY <1>1, <1>2, <1>3, <2>1, <2>2, NamesAssumption
    <3>3. \A x : x \in Holders(o)' <=> x \in (Holders(o) \ {w}) \cup {v}
      BY <2>1, <3>2 DEF Move, Holders, InScope
    <3>4. Holders(o)' = (Holders(o) \ {w}) \cup {v}
      BY <3>3
    <3> QED
      BY <3>1, <3>4, HoldersFinite, HolderExchanged
  <2>3. CASE o # slice[w].m_ncstring
    <3>1. \A x : x \in Holders(o)' <=> x \in Holders(o)
      BY <1>1, <1>2, <1>3, <2>1, <2>3, NamesAssumption DEF Move, Holders, InScope
    <3>2. Holders(o)' = Holders(o)
      BY <3>1
    <3> QED
      BY <3>2
  <2> QED
    BY <2>2, <2>3
<1>6. Counted'
  BY <1>1, <1>5 DEF Move, Counted
<1>7. ReadsWhatItHolds'
  BY <1>1, <1>2, <1>3 DEF IInv, Move, ReadsWhatItHolds, Sound
<1> QED
  BY <1>4, <1>6, <1>7 DEF IInv

\* The same of two iterators.
LEMMA IterMoveKeeps ==
    ASSUME IInv, NEW i \in IterVars, NEW j \in IterVars, IterMove(i, j) PROVE IInv'
<1>1. /\ Types /\ Counted /\ iter[i] = Gone /\ iter[j] \in Iters /\ ~iter[j].moved
      /\ Backed(iter[j]) /\ i # j
  BY DEF IInv, Types, ReadsWhatItHolds, Sound, IterMove, Running
<1>2. /\ iter'[i] = iter[j]
      /\ iter'[j] = [iter[j] EXCEPT !.m_ncstring = NULL, !.whole = FALSE, !.moved = TRUE]
      /\ \A k \in IterVars \ {i, j} : iter'[k] = iter[k]
  BY <1>1 DEF IterMove, Types
<1>3. iter'[j] \in Iters /\ iter'[j].m_ncstring = NULL /\ iter'[j].moved
  BY <1>1, <1>2 DEF Iters
<1>4. Types'
  BY <1>1, <1>2, <1>3 DEF IterMove, Types
<1>5. ASSUME NEW o \in Strings
      PROVE  Cardinality(Holders(o)') = Cardinality(Holders(o))
  <2>1. i \notin SliceVars \cup PtrVars /\ j \notin SliceVars \cup PtrVars /\ o # NULL
    BY VariablesAssumption, NamesAssumption
  <2>2. CASE o = iter[j].m_ncstring
    <3>1. j \in Holders(o) /\ i \notin Holders(o)
      BY <1>1, <2>1, <2>2, NamesAssumption DEF Holders, InScope
    <3>2. \A k \in IterVars : iter'[k] # Gone /\ iter'[k].m_ncstring = o
                  <=> k = i \/ (k # j /\ iter[k] # Gone /\ iter[k].m_ncstring = o)
      BY <1>1, <1>2, <1>3, <2>1, <2>2, NamesAssumption
    <3>3. \A x : x \in Holders(o)' <=> x \in (Holders(o) \ {j}) \cup {i}
      BY <2>1, <3>2 DEF IterMove, Holders, InScope
    <3>4. Holders(o)' = (Holders(o) \ {j}) \cup {i}
      BY <3>3
    <3> QED
      BY <3>1, <3>4, HoldersFinite, HolderExchanged
  <2>3. CASE o # iter[j].m_ncstring
    <3>1. \A x : x \in Holders(o)' <=> x \in Holders(o)
      BY <1>1, <1>2, <1>3, <2>1, <2>3, NamesAssumption DEF IterMove, Holders, InScope
    <3>2. Holders(o)' = Holders(o)
      BY <3>1
    <3> QED
      BY <3>2
  <2> QED
    BY <2>2, <2>3
<1>6. Counted'
  BY <1>1, <1>5 DEF IterMove, Counted
<1>7. ReadsWhatItHolds'
  BY <1>1, <1>2, <1>3 DEF IInv, IterMove, ReadsWhatItHolds, Sound
<1> QED
  BY <1>4, <1>6, <1>7 DEF IInv

\* One more pointer to the string, or a pointer to a new one.
LEMMA AllocWithSliceKeeps ==
    ASSUME IInv, NEW p \in PtrVars, NEW v \in SliceVars, NEW o \in Strings,
           AllocWithSlice(p, v, o)
    PROVE  IInv'
<1>1. /\ Types /\ Counted /\ ptr[p] = Gone /\ ptr' = [ptr EXCEPT ![p] = o]
      /\ UNCHANGED <<slice, iter, orphans>>
  BY DEF IInv, AllocWithSlice
<1>2. HeldBy(o) = o /\ HeldBy(ptr[p]) = NULL
  BY <1>1, NamesAssumption DEF HeldBy
<1>3. CASE o = slice[v].m_ncstring /\ Recount(o, NULL)
  <2>1. Holders(o) # {}
    BY <1>3, SliceFacts DEF AllocWithSlice, Usable, InScope
  <2>2. Recount(HeldBy(o), HeldBy(ptr[p]))
    BY <1>2, <1>3 DEF Recount
  <2> QED
    BY <1>1, <1>2, <2>1, <2>2, PtrSet
<1>4. CASE New(o, "inline")
  <2>1. \A s \in Strings : Holders(s)' = IF s = o THEN Holders(s) \cup {p} ELSE Holders(s)
    <3>1. \A s \in Strings : /\ p \in Holders(s) <=> s = HeldBy(ptr[p])
                             /\ Holders(s)' = IF s = HeldBy(o) THEN Holders(s) \cup {p} ELSE Holders(s) \ {p}
      BY <1>1, PtrMoves
    <3> QED
      BY <1>2, <3>1, NamesAssumption
  <2>2. /\ rc' \in [Strings -> Nat] /\ state' \in [Strings -> {"unused", "live", "freed"}]
        /\ Counted'
    BY <1>1, <1>4, <2>1, NewKeeps
  <2>3. Types'
    BY <1>1, <2>2 DEF Types
  <2>4. ReadsWhatItHolds'
    BY <1>1 DEF IInv, ReadsWhatItHolds, InScope
  <2> QED
    BY <2>2, <2>3, <2>4 DEF IInv
<1> QED
  BY <1>3, <1>4 DEF AllocWithSlice

\* A new string in q, and one more forgotten slice of the one that was joined.
LEMMA JoinStringsKeeps ==
    ASSUME IInv, NEW q \in PtrVars, NEW p \in PtrVars, NEW n \in Strings, JoinStrings(q, p, n)
    PROVE  IInv'
<1>1. /\ Types /\ Counted /\ ptr[q] = Gone /\ ptr[p] \in Strings /\ state[n] = "unused"
      /\ state' = [state EXCEPT ![n] = "live"] /\ UNCHANGED <<slice, iter>>
      /\ rc' = [rc EXCEPT ![n] = 1, ![ptr[p]] = @ + 1] /\ ptr' = [ptr EXCEPT ![q] = n]
      /\ orphans' = [orphans EXCEPT ![ptr[p]] = @ + 1]
  BY DEF IInv, Types, JoinStrings
<1>2. state[ptr[p]] = "live" /\ rc[ptr[p]] > 0 /\ ptr[p] # n
  BY <1>1, ReferredIsHeld, HeldIsLive, NamesAssumption DEF HeldBy
<1>3. Holders(n) = {} /\ orphans[n] = 0
  BY <1>1, HeldIsLive DEF Types
<1>4. \A o \in Strings : Holders(o)' = IF o = n THEN Holders(o) \cup {q} ELSE Holders(o)
  <2>1. HeldBy(n) = n /\ HeldBy(ptr[q]) = NULL
    BY <1>1, NamesAssumption DEF HeldBy
  <2>2. \A o \in Strings : /\ q \in Holders(o) <=> o = HeldBy(ptr[q])
                           /\ Holders(o)' = IF o = HeldBy(n) THEN Holders(o) \cup {q} ELSE Holders(o) \ {q}
    BY <1>1, PtrMoves
  <2> QED
    BY <2>1, <2>2, NamesAssumption
<1>5. Cardinality(Holders(n)') = 1
  BY <1>3, <1>4, FS_Singleton, ZenonT(60)
<1>6. Types'
  BY <1>1 DEF Types
<1>7. ASSUME NEW o \in Strings
      PROVE  /\ rc'[o] = Cardinality(Holders(o)') + orphans'[o]
             /\ state'[o] = "live" <=> rc'[o] > 0
  <2>1. CASE o = n
    BY <1>1, <1>2, <1>3, <1>5, <2>1 DEF Types
  <2>2. CASE o # n
    <3>1. Cardinality(Holders(o)') = Cardinality(Holders(o)) /\ Cardinality(Holders(o)) \in Nat
      BY <1>4, <2>2, HoldersFinite, HolderCounts
    <3> QED
      BY <1>1, <1>2, <2>2, <3>1 DEF Types, Counted
  <2> QED
    BY <2>1, <2>2
<1>8. Counted'
  BY <1>7 DEF Counted
<1>9. ReadsWhatItHolds'
  BY <1>1 DEF IInv, ReadsWhatItHolds, InScope
<1> QED
  BY <1>6, <1>8, <1>9 DEF IInv

-----------------------------------------------------------------------------
LEMMA InitHolds == Init => IInv
<1> SUFFICES ASSUME Init PROVE IInv
  OBVIOUS
<1>1. Types
  BY DEF Init, Types
<1>2. \A o \in Strings : Holders(o) = {}
  BY NamesAssumption DEF Init, Holders, InScope
<1>3. Counted
  BY <1>2, FS_EmptySet DEF Init, Counted
<1>4. ReadsWhatItHolds
  BY DEF Init, ReadsWhatItHolds, Sound
<1> QED
  BY <1>1, <1>3, <1>4 DEF IInv

LEMMA NextKeeps == IInv /\ [Next]_vars => IInv'
<1> SUFFICES ASSUME IInv, [Next]_vars PROVE IInv'
  OBVIOUS
<1>1. ASSUME NEW v \in SliceVars, Ephemeral(v) PROVE IInv'
  BY <1>1, EphemeralKeeps
<1>2. ASSUME NEW v \in SliceVars, EndSlice(v) PROVE IInv'
  BY <1>2, EndSliceKeeps
<1>3. ASSUME NEW v \in SliceVars, NEW o \in Strings, Make(v, o) \/ MakeByTaking(v, o) PROVE IInv'
  BY <1>3, MakeKeeps
<1>4. ASSUME NEW v \in SliceVars, NEW w \in SliceVars,
             Copy(v, w) \/ Assign(v, w) \/ Subslice(v, w)
      PROVE  IInv'
  BY <1>4, CopyKeeps
<1>5. ASSUME NEW v \in SliceVars, NEW w \in SliceVars, Move(v, w) PROVE IInv'
  BY <1>5, MoveKeeps
<1>6. ASSUME NEW v \in SliceVars, NEW p \in PtrVars, ToSlice(v, p) PROVE IInv'
  BY <1>6, ToSliceKeeps
<1>7. ASSUME NEW p \in PtrVars, EndPtr(p) PROVE IInv'
  BY <1>7, EndPtrKeeps
<1>8. ASSUME NEW p \in PtrVars, NEW v \in SliceVars, NEW o \in Strings, AllocWithSlice(p, v, o)
      PROVE  IInv'
  BY <1>8, AllocWithSliceKeeps
<1>9. ASSUME NEW q \in PtrVars, NEW p \in PtrVars, NEW o \in Strings, JoinStrings(q, p, o)
      PROVE  IInv'
  BY <1>9, JoinStringsKeeps
<1>10. ASSUME NEW i \in IterVars, IterEnd(i) PROVE IInv'
  BY <1>10, IterEndKeeps
<1>11. ASSUME NEW i \in IterVars, NEW v \in SliceVars, IterNext(i, v) PROVE IInv'
  BY <1>11, IterNextKeeps
<1>12. ASSUME NEW i \in IterVars, NEW w \in SliceVars, NEW sep \in SliceVars, IterStart(i, w, sep)
       PROVE  IInv'
  BY <1>12, IterStartKeeps
<1>13. ASSUME NEW i \in IterVars, NEW j \in IterVars, IterMove(i, j) PROVE IInv'
  BY <1>13, IterMoveKeeps
<1>14. ASSUME NEW v \in SliceVars, NEW p \in PtrVars, ToEphemeralSlice(v, p) PROVE IInv'
  BY <1>14, ToEphemeralSliceKeeps
<1>15. CASE UNCHANGED vars
  BY <1>15 DEF vars, IInv, Types, Counted, ReadsWhatItHolds, Holders, InScope
<1> QED
  BY <1>1, <1>2, <1>3, <1>4, <1>5, <1>6, <1>7, <1>8, <1>9, <1>10, <1>11, <1>12, <1>13, <1>14, <1>15 DEF Next

\* The statements keep the count of every string equal to its holders, and
\* nothing readable without a reference.
THEOREM StringOwnershipInvariant == Spec => []IInv
  BY InitHolds, NextKeeps, PTL DEF Spec

\* No statement on slices, pointers and iterators loses or doubles a reference
\* to a string (string_slice.h, nc_string.h).
THEOREM StringHoldersCounted == Spec => []CountsHolders
<1>1. ASSUME IInv, NEW o \in Strings, state[o] # "unused"
      PROVE  /\ rc[o] = Cardinality(Holders(o)) + orphans[o]
             /\ state[o] = "live" <=> Holders(o) # {} \/ orphans[o] > 0
  <2>1. rc[o] = Cardinality(Holders(o)) + orphans[o] /\ (state[o] = "live" <=> rc[o] > 0)
    BY <1>1 DEF IInv, Counted
  <2>2. orphans[o] \in Nat /\ Cardinality(Holders(o)) \in Nat
        /\ (Cardinality(Holders(o)) = 0 <=> Holders(o) = {})
    BY <1>1, HoldersFinite, HolderCounts DEF IInv, Types
  <2> QED
    BY <2>1, <2>2
<1>2. IInv => CountsHolders
  BY <1>1 DEF CountsHolders
<1> QED
  BY <1>2, StringOwnershipInvariant, PTL

\* What can be read through a slice or an iterator has not been freed.
THEOREM StringsNeverDangle == Spec => []NeverDangles
<1>1. ASSUME IInv, NEW v \in SliceVars, InScope(v), Reads(slice[v])
      PROVE  state[slice[v].m_str] = "live"
  <2>1. slice[v].m_str = Held(slice[v]) /\ Held(slice[v]) \in Strings
    BY <1>1, NamesAssumption
    DEF IInv, Types, ReadsWhatItHolds, Sound, InScope, Reads, Backed, Held, Slices
  <2> QED
    BY <1>1, <2>1, ReferredIsHeld, HeldIsLive DEF IInv
<1>2. ASSUME IInv, NEW i \in IterVars, iter[i] # Gone, Reads(iter[i])
      PROVE  state[iter[i].m_str] = "live"
  <2>1. iter[i].m_str = Held(iter[i]) /\ Held(iter[i]) \in Strings
    BY <1>2, NamesAssumption
    DEF IInv, Types, ReadsWhatItHolds, Sound, Reads, Backed, Held, Iters
  <2> QED
    BY <1>2, <2>1, ReferredIsHeld, HeldIsLive DEF IInv
<1>3. IInv => NeverDangles
  BY <1>1, <1>2 DEF NeverDangles
<1> QED
  BY <1>3, StringOwnershipInvariant, PTL
=============================================================================
