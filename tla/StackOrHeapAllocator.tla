------------------------ MODULE StackOrHeapAllocator ------------------------
(***************************************************************************)
(* StackOrHeapAllocator of nc_stdlib.h and nc_stdlib.cpp: memory is handed *)
(* out from a buffer of the caller while it lasts and from malloc() after  *)
(* that; the destructor frees what came from malloc().  The first heap     *)
(* pointers are kept in an array of fixed size, the others in a vector.    *)
(*                                                                         *)
(* Sizes are size_t: sums are taken modulo Modulus (2^64 in the code).     *)
(***************************************************************************)
EXTENDS Integers, Sequences, FiniteSetsExt

CONSTANTS
    StackSize,      \* the size of the caller's buffer
    Slots,          \* countof(m_heapPointers), 8 in the code
    Requests,       \* the arguments of alloc()
    Modulus,        \* 2 to the width of size_t
    MaxAllocs       \* bound: the number of calls of alloc()

ASSUME SizesAssumption ==
    /\ Modulus \in Nat /\ StackSize \in 0 .. Modulus - 1
    /\ Requests \subseteq 0 .. Modulus - 1
    /\ Slots \in Nat /\ MaxAllocs \in Nat

VARIABLES
    m_usedStackSize,
    m_heapPointers,     \* the filled part of the array
    m_moreHeapPointers, \* the vector, empty when there is none
    given,              \* what alloc() has answered, in order
    blocks,             \* the blocks malloc() has made
    alive,              \* FALSE once the destructor has run
    freed               \* the pointers the destructor has passed to free()

vars == <<m_usedStackSize, m_heapPointers, m_moreHeapPointers, given, blocks, alive, freed>>

NULL == 0               \* what malloc() answers when it has no memory

Init ==
    /\ m_usedStackSize = 0
    /\ m_heapPointers = <<>> /\ m_moreHeapPointers = <<>>
    /\ given = <<>>
    /\ blocks = {}
    /\ alive = TRUE /\ freed = <<>>

OnStack(from, size) == [place |-> "stack", from |-> from, size |-> size]
OnHeap(block, size) == [place |-> "heap", from |-> block, size |-> size]

\* malloc(): a new block, or NULL
Malloc(p) == p = NULL \/ p = Len(given) + 1

-----------------------------------------------------------------------------
(* Mutated forms of the steps below, used to test the properties.          *)

\* the test forgets what has been used already
AllocIgnoresUsed(r) ==
    /\ r <= StackSize
    /\ given' = Append(given, OnStack(m_usedStackSize, r))
    /\ m_usedStackSize' = (m_usedStackSize + r) % Modulus
    /\ UNCHANGED <<m_heapPointers, m_moreHeapPointers, blocks, alive, freed>>

\* < in place of <= in the test of the stack
StackOffByOne(r) == (m_usedStackSize + r) % Modulus < StackSize

\* a destructor that deletes the vector without freeing what it lists
DestroyArrayOnly ==
    /\ alive' = FALSE
    /\ freed' = m_heapPointers
    /\ m_heapPointers' = <<>> /\ m_moreHeapPointers' = <<>>
    /\ UNCHANGED <<m_usedStackSize, given, blocks>>

-----------------------------------------------------------------------------
\* m_usedStackSize + requirement <= m_stackSize
FitsOnStack(r) == (m_usedStackSize + r) % Modulus <= StackSize

AllocOnStack(r) ==
    /\ FitsOnStack(r)
    /\ given' = Append(given, OnStack(m_usedStackSize, r))
    /\ m_usedStackSize' = (m_usedStackSize + r) % Modulus
    /\ UNCHANGED <<m_heapPointers, m_moreHeapPointers, blocks, alive, freed>>

AllocInArray(r, p) ==
    /\ ~FitsOnStack(r)
    /\ Len(m_heapPointers) < Slots
    /\ Malloc(p)
    /\ m_heapPointers' = Append(m_heapPointers, p)
    /\ given' = Append(given, OnHeap(p, r))
    /\ blocks' = blocks \cup ({p} \ {NULL})
    /\ UNCHANGED <<m_usedStackSize, m_moreHeapPointers, alive, freed>>

AllocInVector(r, p) ==
    /\ ~FitsOnStack(r)
    /\ Len(m_heapPointers) >= Slots
    /\ Malloc(p)
    /\ m_moreHeapPointers' = Append(m_moreHeapPointers, p)
    /\ given' = Append(given, OnHeap(p, r))
    /\ blocks' = blocks \cup ({p} \ {NULL})
    /\ UNCHANGED <<m_usedStackSize, m_heapPointers, alive, freed>>

\* alloc(r)
Alloc(r) ==
    /\ Len(given) < MaxAllocs
    /\ \/ AllocOnStack(r)
       \/ \E p \in {NULL, Len(given) + 1} : AllocInArray(r, p) \/ AllocInVector(r, p)

\* ~StackOrHeapAllocator(): the array, then the vector.  What the object held
\* is gone with it.
Destroy ==
    /\ alive' = FALSE
    /\ freed' = m_heapPointers \o m_moreHeapPointers
    /\ m_heapPointers' = <<>> /\ m_moreHeapPointers' = <<>>
    /\ UNCHANGED <<m_usedStackSize, given, blocks>>

Next == alive /\ ((\E r \in Requests : Alloc(r)) \/ Destroy)

Spec == Init /\ [][Next]_vars

-----------------------------------------------------------------------------
FromStack == {i \in DOMAIN given : given[i].place = "stack"}
PieceEnd(i) == given[i].from + given[i].size

\* Two answers from the buffer never overlap, and none reaches beyond the
\* buffer's end, whatever the sizes asked for before.
StackPiecesApart ==
    \A i \in FromStack :
        /\ PieceEnd(i) <= StackSize
        /\ \A j \in FromStack : i < j => PieceEnd(i) <= given[j].from

\* Where the pieces handed out from the buffer before the i-th answer end.
StackEnd(i) == Max({0} \cup {PieceEnd(j) : j \in {k \in FromStack : k < i}})

\* "Use stack if possible" (nc_stdlib.h): the heap serves a request only when
\* what the earlier pieces leave of the buffer is too small for it.
UsesStackIfPossible ==
    \A i \in DOMAIN given :
        given[i].place = "heap" => StackEnd(i) + given[i].size > StackSize

\* A sequence of pointers has b once, or not at all.
Lists(s, b)  == \E i \in DOMAIN s : s[i] = b /\ \A j \in DOMAIN s : s[j] = b => j = i
Misses(s, b) == \A i \in DOMAIN s : s[i] # b

\* The array never overflows, and every block malloc() made is freed by the
\* destructor, from the array or the vector, and only once.
FreedExactlyOnce ==
    IF alive THEN Len(m_heapPointers) <= Slots ELSE
        \A b \in blocks : Lists(freed, b)

\* The inductive invariant: the types, where the used part of the buffer ends,
\* and that the array and the vector list every block, one of them and once.
Pieces == [place : {"stack", "heap"}, from : Nat, size : Nat]

AllocatorTypes ==
    /\ m_usedStackSize \in 0 .. StackSize
    /\ given \in Seq(Pieces)
    /\ m_heapPointers \in Seq(0 .. Len(given)) /\ m_moreHeapPointers \in Seq(0 .. Len(given))
    /\ blocks \subseteq 1 .. Len(given)
    /\ alive \in BOOLEAN

UsedIsEnd ==
    /\ \A i \in FromStack : PieceEnd(i) <= m_usedStackSize
    /\ m_usedStackSize # 0 => \E i \in FromStack : PieceEnd(i) = m_usedStackSize

ListedOnce ==
    \A b \in blocks :
        \/ Lists(m_heapPointers, b) /\ Misses(m_moreHeapPointers, b)
        \/ Misses(m_heapPointers, b) /\ Lists(m_moreHeapPointers, b)

AllocatorIInv ==
    /\ AllocatorTypes
    /\ StackPiecesApart /\ UsedIsEnd /\ UsesStackIfPossible
    /\ FreedExactlyOnce /\ (alive => ListedOnce)
=============================================================================
