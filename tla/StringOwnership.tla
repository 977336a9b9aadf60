--------------------------- MODULE StringOwnership ---------------------------
(***************************************************************************)
(* Who keeps the bytes of a string alive: NcString objects, the sp<>       *)
(* that refer to them, the StringSlices that point into them and hold a    *)
(* reference of their own (m_ncstring), and the iterators over slices.     *)
(*                                                                         *)
(* One thread's statements are steps.  What the bytes are is left out; of  *)
(* a slice's m_str it matters whose memory it points into.                 *)
(***************************************************************************)
EXTENDS Integers, FiniteSets

CONSTANTS
    Strings,        \* the NcStrings the program may make
    SliceVars, PtrVars, IterVars,   \* its variables
    MaxOrphans,     \* bound: slices of one string that are never destroyed
    MallocFails,    \* may the malloc() of a join fail?
    Gone,           \* the value of a variable that is not in scope
    NULL,
    Static          \* memory that is no string's: literals, buffers of callers

\* What a slice and an iterator are.
\*   whole: it is, or has still to cut up, all of the string it holds;
\*   moved: it was moved from, and is only to be destroyed or, a slice, assigned to;
\*   ephemeral: it comes from toEphemeralSlice(), so the program has promised
\*   to keep the string itself.
Slices == [m_str : Strings \cup {Static}, m_ncstring : Strings \cup {NULL},
           whole : BOOLEAN, moved : BOOLEAN, ephemeral : BOOLEAN]
Iters  == [m_str : Strings \cup {Static}, m_ncstring : Strings \cup {NULL},
           m_sep : Strings \cup {Static},
           whole : BOOLEAN, moved : BOOLEAN, ephemeral : BOOLEAN]

ASSUME NamesAssumption ==
    /\ MaxOrphans \in Nat /\ MallocFails \in BOOLEAN
    /\ NULL \notin Strings /\ Static \notin Strings
    /\ Gone \notin Strings \cup Slices \cup Iters

ASSUME VariablesAssumption ==
    /\ IsFiniteSet(SliceVars) /\ IsFiniteSet(PtrVars) /\ IsFiniteSet(IterVars)
    /\ SliceVars \cap PtrVars = {} /\ SliceVars \cap IterVars = {} /\ PtrVars \cap IterVars = {}

VARIABLES
    state,      \* state[o]: "unused", "live" or "freed"
    rc,         \* m_rc of each string
    buffer,     \* where its text is: "inline", a block "malloced" for it, or
                \* nowhere, the block that a join asked for having "failed"
    slice,      \* the StringSlices
    ptr,        \* the sp<NcString>s
    iter,       \* the StringSubsliceIters and StringTokenIters
    orphans     \* of each string, the slices whose destructor never runs

vars == <<state, rc, buffer, slice, ptr, iter, orphans>>

Slice(str, ncstring, whole) ==
    [m_str |-> str, m_ncstring |-> ncstring, whole |-> whole,
     moved |-> FALSE, ephemeral |-> FALSE]

InScope(v) == slice[v] # Gone
Usable(v)  == slice[v] # Gone /\ ~slice[v].moved
Running(i) == iter[i] # Gone /\ ~iter[i].moved

\* The program keeps its promise when it has the bytes read.
Kept(window) == window.ephemeral => state[window.m_str] = "live"

Init ==
    /\ state = [o \in Strings |-> "unused"]
    /\ rc = [o \in Strings |-> 0]
    /\ buffer = [o \in Strings |-> "inline"]
    /\ slice = [v \in SliceVars |-> Gone]
    /\ ptr = [p \in PtrVars |-> Gone]
    /\ iter = [i \in IterVars |-> Gone]
    /\ orphans = [o \in Strings |-> 0]

-----------------------------------------------------------------------------
(* References: the net effect on rc of a statement that retains the strings *)
(* of one sequence of places and then releases those of another.           *)

One(o, p) == IF o = p THEN 1 ELSE 0

\* release(down); retain(up); a string that is freed in between stays freed
RecountReleaseFirst(up, down) ==
    /\ rc' = [o \in Strings |-> rc[o] + One(o, up) - One(o, down)]
    /\ state' = [o \in Strings |->
                    IF o = down /\ rc[o] = 1 THEN "freed" ELSE state[o]]

\* retain(up); release(down); the destructor ~NcString() frees no buffer.
Recount(up, down) ==
    /\ rc' = [o \in Strings |-> rc[o] + One(o, up) - One(o, down)]
    /\ state' = [o \in Strings |->
                    IF rc[o] > 0 /\ rc'[o] = 0 THEN "freed" ELSE state[o]]

\* what malloc() may answer
Blocks == {"malloced"} \cup IF MallocFails THEN {"failed"} ELSE {}

\* a new NcString held by whoever made it, its bytes behind it or in a block
\* of their own
New(o, where) ==
    /\ state[o] = "unused"
    /\ state' = [state EXCEPT ![o] = "live"]
    /\ rc' = [rc EXCEPT ![o] = 1]
    /\ buffer' = [buffer EXCEPT ![o] = where]

\* a subslice that is not counted
SubsliceUncounted(v, w) ==
    /\ slice[v] = Gone /\ Usable(w)
    /\ slice' = [slice EXCEPT ![v] = [slice[w] EXCEPT !.whole = FALSE]]
    /\ UNCHANGED <<state, rc, buffer, ptr, iter, orphans>>

-----------------------------------------------------------------------------
(* StringSlice.                                                            *)

\* StringSlice v;   StringSlice v("...");   makeEphemeral() of a literal or of
\* a buffer, which is the caller's affair
Ephemeral(v) ==
    /\ slice[v] = Gone
    /\ slice' = [slice EXCEPT ![v] = Slice(Static, NULL, FALSE)]
    /\ UNCHANGED <<state, rc, buffer, ptr, iter, orphans>>

\* make(), makeWithBytes(), format(), replaceInRange(): a string is made by an
\* sp<NcString> that ends with the function, the slice retains it.
Make(v, o) ==
    /\ slice[v] = Gone
    /\ New(o, "inline")
    /\ slice' = [slice EXCEPT ![v] = Slice(o, o, TRUE)]
    /\ UNCHANGED <<ptr, iter, orphans>>

\* makeByTakingBytes(), and join(), which takes the buffer it has malloc()ed,
\* or NULL
MakeByTaking(v, o) ==
    /\ slice[v] = Gone
    /\ \E where \in Blocks : New(o, where)
    /\ slice' = [slice EXCEPT ![v] = Slice(o, o, TRUE)]
    /\ UNCHANGED <<ptr, iter, orphans>>

\* StringSlice v(w);
Copy(v, w) ==
    /\ slice[v] = Gone /\ Usable(w)
    /\ slice' = [slice EXCEPT ![v] = slice[w]]
    /\ Recount(slice[w].m_ncstring, NULL)
    /\ UNCHANGED <<buffer, ptr, iter, orphans>>

\* StringSlice v(std::move(w)); w keeps m_str but no reference
Move(v, w) ==
    /\ slice[v] = Gone /\ Usable(w)
    /\ slice' = [slice EXCEPT ![v] = slice[w],
                              ![w] = [@ EXCEPT !.m_ncstring = NULL, !.whole = FALSE, !.moved = TRUE]]
    /\ UNCHANGED <<state, rc, buffer, ptr, iter, orphans>>

\* v = w: there is no move assignment.  The new string is retained before the
\* old one is released.
Assign(v, w) ==
    /\ InScope(v) /\ Usable(w)
    /\ slice' = [slice EXCEPT ![v] = slice[w]]
    /\ Recount(slice[w].m_ncstring, slice[v].m_ncstring)
    /\ UNCHANGED <<buffer, ptr, iter, orphans>>

\* subslice(), subsliceFrom(): a part of w, maybe all of it
Subslice(v, w) ==
    /\ slice[v] = Gone /\ Usable(w)
    /\ \E whole \in {slice[w].whole, FALSE} :
           slice' = [slice EXCEPT ![v] = [slice[w] EXCEPT !.whole = whole]]
    /\ Recount(slice[w].m_ncstring, NULL)
    /\ UNCHANGED <<buffer, ptr, iter, orphans>>

\* ~StringSlice()
EndSlice(v) ==
    /\ InScope(v)
    /\ slice' = [slice EXCEPT ![v] = Gone]
    /\ Recount(NULL, slice[v].m_ncstring)
    /\ UNCHANGED <<buffer, ptr, iter, orphans>>

-----------------------------------------------------------------------------
(* sp<NcString>.                                                           *)

\* allocWithSlice(v): the string v is all of, or a copy of v's bytes
AllocWithSlice(p, v, o) ==
    /\ ptr[p] = Gone /\ Usable(v) /\ Kept(slice[v])
    /\ \/ /\ slice[v].m_ncstring # NULL /\ slice[v].whole
          /\ o = slice[v].m_ncstring
          /\ Recount(o, NULL)
          /\ UNCHANGED buffer
       \/ /\ ~(slice[v].m_ncstring # NULL /\ slice[v].whole)
          /\ New(o, "inline")
    /\ ptr' = [ptr EXCEPT ![p] = o]
    /\ UNCHANGED <<slice, iter, orphans>>

\* toSlice(), makeWithString()
ToSlice(v, p) ==
    /\ slice[v] = Gone /\ ptr[p] # Gone
    /\ slice' = [slice EXCEPT ![v] = Slice(ptr[p], ptr[p], TRUE)]
    /\ Recount(ptr[p], NULL)
    /\ UNCHANGED <<buffer, ptr, iter, orphans>>

\* toEphemeralSlice(): all of the string, not counted
ToEphemeralSlice(v, p) ==
    /\ slice[v] = Gone /\ ptr[p] # Gone
    /\ slice' = [slice EXCEPT ![v] = [Slice(ptr[p], NULL, FALSE) EXCEPT !.ephemeral = TRUE]]
    /\ UNCHANGED <<state, rc, buffer, ptr, iter, orphans>>

\* allocByJoiningStrings() of an array that holds the string of p: the slices
\* made of the strings are in memory of the allocator and never destroyed.
JoinStrings(q, p, o) ==
    /\ ptr[q] = Gone /\ ptr[p] # Gone
    /\ orphans[ptr[p]] < MaxOrphans
    /\ state[o] = "unused"
    /\ state' = [state EXCEPT ![o] = "live"]
    /\ rc' = [rc EXCEPT ![o] = 1, ![ptr[p]] = @ + 1]
    /\ \E where \in Blocks : buffer' = [buffer EXCEPT ![o] = where]
    /\ ptr' = [ptr EXCEPT ![q] = o]
    /\ orphans' = [orphans EXCEPT ![ptr[p]] = @ + 1]
    /\ UNCHANGED <<slice, iter>>

\* ~sp()
EndPtr(p) ==
    /\ ptr[p] # Gone
    /\ ptr' = [ptr EXCEPT ![p] = Gone]
    /\ Recount(NULL, ptr[p])
    /\ UNCHANGED <<buffer, slice, iter, orphans>>

-----------------------------------------------------------------------------
(* The iterators: they retain the string they cut up, not that of the      *)
(* separators.                                                             *)

\* w.iterForSplitting(sep), w.iterForTokenizing(sep)
IterStart(i, w, sep) ==
    /\ iter[i] = Gone /\ Usable(w) /\ Usable(sep)
    /\ iter' = [iter EXCEPT ![i] = [m_str |-> slice[w].m_str, m_ncstring |-> slice[w].m_ncstring,
                                    m_sep |-> slice[sep].m_str, whole |-> slice[w].whole,
                                    moved |-> FALSE, ephemeral |-> slice[w].ephemeral]]
    /\ Recount(slice[w].m_ncstring, NULL)
    /\ UNCHANGED <<buffer, slice, ptr, orphans>>

\* StringSubsliceIter i(std::move(j)); as of a slice.  There is no copying and
\* no assigning of iterators.
IterMove(i, j) ==
    /\ iter[i] = Gone /\ Running(j)
    /\ iter' = [iter EXCEPT ![i] = iter[j],
                            ![j] = [@ EXCEPT !.m_ncstring = NULL, !.whole = FALSE, !.moved = TRUE]]
    /\ UNCHANGED <<state, rc, buffer, slice, ptr, orphans>>

\* next(&v): *cOut = StringSlice(m_str, ..., retain(m_ncstring)).  The first
\* piece of a text without separators is all of it.
IterNext(i, v) ==
    /\ Running(i) /\ InScope(v) /\ Kept(iter[i])
    /\ \E whole \in {iter[i].whole, FALSE} :
           slice' = [slice EXCEPT ![v] = [Slice(iter[i].m_str, iter[i].m_ncstring, whole)
                                             EXCEPT !.ephemeral = iter[i].ephemeral]]
    /\ iter' = [iter EXCEPT ![i] = [@ EXCEPT !.whole = FALSE]]
    /\ Recount(iter[i].m_ncstring, slice[v].m_ncstring)
    /\ UNCHANGED <<buffer, ptr, orphans>>

\* ~StringSubsliceIter()
IterEnd(i) ==
    /\ iter[i] # Gone
    /\ iter' = [iter EXCEPT ![i] = Gone]
    /\ Recount(NULL, iter[i].m_ncstring)
    /\ UNCHANGED <<buffer, slice, ptr, orphans>>

Next ==
    \/ \E v \in SliceVars :
           \/ Ephemeral(v) \/ EndSlice(v)
           \/ \E o \in Strings : Make(v, o) \/ MakeByTaking(v, o)
           \/ \E w \in SliceVars : Copy(v, w) \/ Move(v, w) \/ Assign(v, w) \/ Subslice(v, w)
           \/ \E p \in PtrVars : ToSlice(v, p) \/ ToEphemeralSlice(v, p)
    \/ \E p \in PtrVars :
           \/ EndPtr(p)
           \/ \E o \in Strings :
                  \/ \E v \in SliceVars : AllocWithSlice(p, v, o)
                  \/ \E q \in PtrVars : JoinStrings(q, p, o)
    \/ \E i \in IterVars :
           \/ IterEnd(i)
           \/ \E j \in IterVars : IterMove(i, j)
           \/ \E v \in SliceVars :
                  \/ IterNext(i, v)
                  \/ \E sep \in SliceVars : IterStart(i, v, sep)

Spec == Init /\ [][Next]_vars

-----------------------------------------------------------------------------
Holders(o) ==
    {v \in SliceVars : InScope(v) /\ slice[v].m_ncstring = o}
    \cup {p \in PtrVars : ptr[p] = o}
    \cup {i \in IterVars : iter[i] # Gone /\ iter[i].m_ncstring = o}

\* "each slice holds a reference to the string" (README.md), and so does each
\* iterator, pointer and forgotten slice: no statement loses or doubles one,
\* and the string is there for exactly as long as one of them is.
CountsHolders ==
    \A o \in Strings : state[o] # "unused" =>
        /\ rc[o] = Cardinality(Holders(o)) + orphans[o]
        /\ state[o] = "live" <=> Holders(o) # {} \/ orphans[o] > 0

\* A slice that may be read, and an iterator, point into memory that is there:
\* no order of copies, moves, assignments and ends of scope leaves one behind,
\* but for those the program asked for with toEphemeralSlice().
Reads(window) == ~window.moved /\ ~window.ephemeral /\ window.m_str # Static
NeverDangles ==
    /\ \A v \in SliceVars : InScope(v) /\ Reads(slice[v]) => state[slice[v].m_str] = "live"
    /\ \A i \in IterVars : iter[i] # Gone /\ Reads(iter[i]) => state[iter[i].m_str] = "live"

\* The inductive invariant: the types, that only what is counted is live, also
\* before a string is made, and that what can be read is what is retained,
\* unless it is ephemeral.
Types ==
    /\ state \in [Strings -> {"unused", "live", "freed"}]
    /\ rc \in [Strings -> Nat] /\ orphans \in [Strings -> Nat]
    /\ slice \in [SliceVars -> Slices \cup {Gone}]
    /\ ptr \in [PtrVars -> Strings \cup {Gone}]
    /\ iter \in [IterVars -> Iters \cup {Gone}]

Counted ==
    \A o \in Strings :
        /\ rc[o] = Cardinality(Holders(o)) + orphans[o]
        /\ state[o] = "live" <=> rc[o] > 0

Backed(window) ==
    IF window.ephemeral THEN window.m_ncstring = NULL
    ELSE window.m_str = IF window.m_ncstring = NULL THEN Static ELSE window.m_ncstring

Sound(window) ==
    window # Gone => IF window.moved THEN window.m_ncstring = NULL ELSE Backed(window)

ReadsWhatItHolds ==
    /\ \A v \in SliceVars : Sound(slice[v])
    /\ \A i \in IterVars : Sound(iter[i])

IInv == Types /\ Counted /\ ReadsWhatItHolds

-----------------------------------------------------------------------------
\* "takes ownership of the memory, and will call free() when it's not needed"
\* (README.md).  It does not: ~NcString() is = default.
BufferFreedWithString ==
    \A o \in Strings : state[o] = "freed" => buffer[o] # "malloced"

\* The separators are there for as long as the iterator that reads them.  They
\* are not: the iterator has no reference to their string.
SeparatorOutlives ==
    \A i \in IterVars : Running(i) /\ iter[i].m_sep # Static => state[iter[i].m_sep] = "live"

\* A slice that may be read has its text.  After a join without memory it has
\* a length and NULL.
TextIsThere ==
    \A v \in SliceVars : Usable(v) /\ slice[v].m_str # Static => buffer[slice[v].m_str] # "failed"

\* Every slice a function makes is destroyed.  Those of initByJoiningStrings()
\* are not.
NoOrphans == \A o \in Strings : orphans[o] = 0
=============================================================================
