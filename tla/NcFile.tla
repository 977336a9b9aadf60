-------------------------------- MODULE NcFile --------------------------------
(***************************************************************************)
(* NcFile (nc_file.cpp) and NcData::allocWithContentsOfFile (nc_data.cpp): *)
(* several NcFile objects, each used by a thread of its own, on one file   *)
(* that they and other processes make longer and shorter.                  *)
(*                                                                         *)
(* The C library is external.  A stream is its position; of the bytes only *)
(* how many there are matters.  Offsets are i64 in NcFile and are cut to   *)
(* int for fseek(); Ints is the number of values of an int.                *)
(***************************************************************************)
EXTENDS Integers, FiniteSetsExt

CONSTANTS
    Files,      \* the NcFile objects
    MaxSize,    \* bound: the size of the file, and positions in it
    Ints        \* 2 to the width of int

ASSUME SizeAssumption == MaxSize \in Nat /\ Ints \in Nat \ {0}

VARIABLES
    size,       \* of the file, now
    live,       \* the objects that exist
    m_fp,       \* m_fp[f]: "NULL", or the mode of the stream, "r" or "w"
    pos,        \* the position of that stream
    streams,    \* what the object has opened by fopen() less what it has closed
    load,       \* how far allocWithContentsOfFile() has got, if f is its file
    len,        \* the answer of its call of length()
    buffer,     \* the memory it has malloc()ed: "none", "held" by the call,
                \* "taken" by the NcData, or "lost" with it
    data        \* the NcData it has made

vars == <<size, live, m_fp, pos, streams, load, len, buffer, data>>
file == <<live, m_fp, streams>>
loading == <<load, len, buffer, data>>

NoData == [m_length |-> 0, filled |-> 0]

Init ==
    /\ size \in 0 .. MaxSize
    /\ live = {}
    /\ m_fp = [f \in Files |-> "NULL"]
    /\ pos = [f \in Files |-> 0]
    /\ streams = [f \in Files |-> 0]
    /\ load = [f \in Files |-> "none"]
    /\ len = [f \in Files |-> 0]
    /\ buffer = [f \in Files |-> "none"]
    /\ data = [f \in Files |-> NoData]

Ready(f) == f \in live /\ load[f] = "none"

IntMax == Ints \div 2 - 1

\* (int)offset
AsInt(n) == ((n + Ints \div 2) % Ints) - Ints \div 2

-----------------------------------------------------------------------------
(* The stream operations, as what they make of a position.                 *)

\* where fseek() counts the offset from
Base(p, origin) == CASE origin = "current" -> p
                     [] origin = "end"     -> size
                     [] OTHER              -> 0

\* an fseek() that fails leaves the position alone
Sought(p, origin, offset) ==
    LET q == Base(p, origin) + AsInt(offset) IN IF q < 0 THEN p ELSE q

\* length() that leaves the stream at the end of the file
SoughtForLengthOneWay(p) == Sought(p, "end", 0)

\* pos = tell(); seek(end, 0); tell(); seek(begin, pos);
SoughtForLength(p) == Sought(Sought(p, "end", 0), "begin", p)

\* what fread() can deliver of n bytes: all there are, or less on an error
Deliverable(f, n) ==
    IF m_fp[f] = "r" THEN 0 .. Min({n, Max({size - pos[f], 0})}) ELSE {0}

(* Mutated forms of the steps below, used to test the properties.          *)

\* close() that leaves m_fp as it is
CloseForgetsNull(f) ==
    /\ streams' = [streams EXCEPT ![f] = IF m_fp[f] = "NULL" THEN @ ELSE @ - 1]
    /\ UNCHANGED m_fp

\* a short read is taken for the whole file
LoadedWhateverRead(f, got) == TRUE

-----------------------------------------------------------------------------
\* NcFile::close()
CloseFp(f) ==
    /\ streams' = [streams EXCEPT ![f] = IF m_fp[f] = "NULL" THEN @ ELSE @ - 1]
    /\ m_fp' = [m_fp EXCEPT ![f] = "NULL"]

Close(f) ==
    /\ Ready(f)
    /\ CloseFp(f)
    /\ UNCHANGED <<size, live, pos, loading>>

\* ~NcFile()
Delete(f) ==
    /\ CloseFp(f)
    /\ live' = live \ {f}
    /\ pos' = [pos EXCEPT ![f] = 0]

\* The last sp<NcFile> to f ends.
End(f) ==
    /\ Ready(f)
    /\ Delete(f)
    /\ UNCHANGED <<size, loading>>

\* alloc(fileName, flags) that succeeds.  Read and write make the mode "rwb",
\* which fopen() takes for "rb"; the other flags are not looked at, and with
\* neither fopen() fails.  A failure makes no object and changes nothing.
Alloc(f, flags) ==
    /\ f \notin live
    /\ flags \cap {"read", "write"} # {}
    /\ live' = live \cup {f}
    /\ m_fp' = [m_fp EXCEPT ![f] = IF "read" \in flags THEN "r" ELSE "w"]
    /\ size' = IF "read" \in flags THEN size ELSE 0
    /\ streams' = [streams EXCEPT ![f] = @ + 1]
    /\ pos' = [pos EXCEPT ![f] = 0]

Open(f) ==
    /\ \E flags \in SUBSET {"read", "write"} : Alloc(f, flags)
    /\ UNCHANGED loading

\* seek(origin, offset)
Seek(f, origin, offset) ==
    /\ Ready(f) /\ m_fp[f] # "NULL"
    /\ Sought(pos[f], origin, offset) <= MaxSize
    /\ pos' = [pos EXCEPT ![f] = Sought(@, origin, offset)]
    /\ UNCHANGED <<size, file, loading>>

\* length(): tell, seek to the end, tell and seek back.  One step, as only the
\* seek to the end looks at what is shared; the others are on the stream of the
\* thread itself.
Length(f) ==
    /\ Ready(f) /\ m_fp[f] # "NULL"
    /\ pos' = [pos EXCEPT ![f] = SoughtForLength(@)]
    /\ UNCHANGED <<size, file, loading>>

\* read(bufferOut, n)
Read(f, n) ==
    /\ Ready(f)
    /\ \E got \in Deliverable(f, n) : pos' = [pos EXCEPT ![f] = @ + got]
    /\ UNCHANGED <<size, file, loading>>

\* write(buffer, n); fwrite() that fails may write less.
Write(f, n) ==
    /\ Ready(f) /\ m_fp[f] = "w"
    /\ pos[f] + n <= MaxSize
    /\ \E done \in 0 .. n :
           /\ pos' = [pos EXCEPT ![f] = @ + done]
           /\ size' = IF done = 0 THEN size ELSE Max({size, pos[f] + done})
    /\ UNCHANGED <<file, loading>>

-----------------------------------------------------------------------------
(* NcData::allocWithContentsOfFile(fileName).                              *)

LoadOpen(f) ==
    /\ buffer[f] # "taken"
    /\ Alloc(f, {"read"})
    /\ load' = [load EXCEPT ![f] = "opened"]
    /\ buffer' = [buffer EXCEPT ![f] = "none"]
    /\ UNCHANGED <<len, data>>

\* len = file->length(); buffer = malloc(len); NC_ASSERT(len <= INT_MAX);
LoadLength(f) ==
    /\ load[f] = "opened"
    /\ size <= IntMax
    /\ len' = [len EXCEPT ![f] = Sought(pos[f], "end", 0)]
    /\ pos' = [pos EXCEPT ![f] = SoughtForLength(@)]
    /\ buffer' = [buffer EXCEPT ![f] = "held"]
    /\ load' = [load EXCEPT ![f] = "sized"]
    /\ UNCHANGED <<size, file, data>>

LoadedAll(f, got) == got = len[f]

\* The file is read in one call; if that delivers less than len the buffer is
\* freed and there is no NcData.  The NcFile ends with the function.
LoadRead(f) ==
    /\ load[f] = "sized"
    /\ \E got \in Deliverable(f, len[f]) :
           IF LoadedAll(f, got)
           THEN /\ data' = [data EXCEPT ![f] = [m_length |-> len[f], filled |-> got]]
                /\ buffer' = [buffer EXCEPT ![f] = "taken"]
           ELSE /\ buffer' = [buffer EXCEPT ![f] = "none"]
                /\ UNCHANGED data
    /\ Delete(f)
    /\ load' = [load EXCEPT ![f] = "none"]
    /\ len' = [len EXCEPT ![f] = 0]
    /\ UNCHANGED size

\* The last sp<NcData> ends: ~NcData() does not free what m_bytes points to.
EndData(f) ==
    /\ buffer[f] = "taken"
    /\ data' = [data EXCEPT ![f] = NoData]
    /\ buffer' = [buffer EXCEPT ![f] = "lost"]
    /\ UNCHANGED <<size, file, pos, load, len>>

\* Another process writes to the file or cuts it.
Resize ==
    /\ size' \in 0 .. MaxSize
    /\ UNCHANGED <<file, pos, loading>>

Next ==
    \/ Resize
    \/ \E f \in Files :
           \/ Open(f) \/ Close(f) \/ End(f) \/ Length(f)
           \/ \E n \in 0 .. MaxSize : Read(f, n) \/ Write(f, n)
           \/ \E origin \in {"current", "begin", "end"}, offset \in -MaxSize .. MaxSize :
                  Seek(f, origin, offset)
           \/ LoadOpen(f) \/ LoadLength(f) \/ LoadRead(f) \/ EndData(f)

Spec == Init /\ [][Next]_vars

-----------------------------------------------------------------------------
\* Every stream fopen() has made is closed once, by close() or by ~NcFile(),
\* whichever comes first, when a load fails half way too; and a load that has
\* ended leaves no buffer behind that no NcData has taken.
ClosedOnce ==
    \A f \in Files :
        /\ streams[f] = IF f \in live /\ m_fp[f] # "NULL" THEN 1 ELSE 0
        /\ buffer[f] = "held" => load[f] = "sized"

\* length() goes to the end of the file and comes back to where it was, though
\* other processes change the file, as long as the place fits an int.
LengthKeepsPlace ==
    [][\A f \in Files : Length(f) /\ pos[f] <= IntMax => pos'[f] = pos[f]]_vars

\* The bytes of an NcData made from a file have all been read from it, also
\* when the file has become shorter since length() looked at it.
LoadedWhole == \A f \in Files : data[f].filled = data[f].m_length

\* The inductive invariant: the types, that a dead object has no stream, and
\* that a load has one, for reading, and holds its buffer once it knows how long.
Types ==
    /\ size \in Nat /\ live \subseteq Files
    /\ m_fp \in [Files -> {"NULL", "r", "w"}]
    /\ pos \in [Files -> Nat] /\ streams \in [Files -> {0, 1}]
    /\ load \in [Files -> {"none", "opened", "sized"}] /\ len \in [Files -> Nat]
    /\ buffer \in [Files -> {"none", "held", "taken", "lost"}]
    /\ data \in [Files -> [m_length : Nat, filled : Nat]]

LoadsHoldTheirFile ==
    \A f \in Files :
        /\ f \notin live => m_fp[f] = "NULL"
        /\ load[f] # "none" => f \in live /\ m_fp[f] = "r"
        /\ load[f] = "sized" => buffer[f] = "held"

IInv == Types /\ LoadsHoldTheirFile /\ ClosedOnce /\ LoadedWhole

-----------------------------------------------------------------------------
\* length() comes back from anywhere.  It does not from behind 2 GB, as seek()
\* cuts its offset to an int.
LengthKeepsPlaceAnywhere == [][\A f \in Files : Length(f) => pos'[f] = pos[f]]_vars

\* An NcData frees the bytes it has taken over (m_shouldFree).  It does not.
BytesFreedWithData == \A f \in Files : buffer[f] # "lost"
=============================================================================
