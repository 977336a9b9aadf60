---------------------------- MODULE TwoPassFormat ----------------------------
(***************************************************************************)
(* Text of unknown length is printed twice: NcLog_write() (nc_log.cpp)     *)
(* prints into STR_MAX_LEN bytes and again into more when that was too     *)
(* little, NcString::format() and formatVa() (nc_string.cpp) print first   *)
(* into nothing to learn the length.  NcLog_write() has its memory from a  *)
(* StackOrHeapAllocator, which a test program uses, too, in its own way.   *)
(*                                                                         *)
(* A text is what it is the whole or a part of.  A va_list that has been   *)
(* read yields no message when it is read again.  NcLog_setCallback() may  *)
(* be called by another thread meanwhile: each of the two threads' accesses*)
(* to the callback and to its userdata is a step of its own.               *)
(***************************************************************************)
EXTENDS StackOrHeapAllocator

CONSTANTS
    STR_MAX_LEN,    \* 2048 in the code; StackSize is twice as much
    Lengths,        \* the lengths of the texts, without the NUL
    PrintfFails,    \* may vsnprintf() answer -1?
    Callbacks       \* the log callbacks; each comes with its userdata

ASSUME LengthsAssumption ==
    /\ STR_MAX_LEN \in Nat \ {0} /\ StackSize = 2 * STR_MAX_LEN
    /\ \A n \in Lengths : n \in Nat /\ n + 1 < Modulus - 1
    /\ PrintfFails \in BOOLEAN

VARIABLES
    client,     \* who runs: "test", "log" or "format"
    pc,         \* its next step
    length,     \* the lengths of the final format and of the message
    require,    \* what the last vsnprintf() has answered, as a size_t
    finalFormat, message,   \* the pieces of memory they point to, 1 for the first
    printed,    \* what is in each piece of memory of the allocator
    va,         \* the va_list: "fresh" or "read"
    out,        \* what has been handed to a callback, or to the caller of format()
    g_logCallback, g_logUserdata,
    setting,    \* the callback NcLog_setCallback() is half way through setting
    called      \* what NcLog_write() has read of the two, to make its call

pieces == <<finalFormat, message>>
call  == <<client, pc, length, require, pieces, printed, va, out>>
logCallback == <<g_logCallback, g_logUserdata, setting, called>>
fvars == <<vars, call, logCallback>>

None == "none"     \* a callback that is NULL
Unread == "unread"

FormatInit ==
    /\ Init
    /\ client \in {"test", "log", "format"}
    /\ pc = "begin"
    /\ length \in [format : IF client = "log" THEN Lengths ELSE {0},
                   message : IF client = "test" THEN {0} ELSE Lengths]
    /\ finalFormat = 1 /\ message = 2
    /\ require = 0 /\ printed = <<>> /\ va = "fresh"
    /\ out = <<>>
    /\ g_logCallback = None /\ g_logUserdata = None /\ setting = <<>>
    /\ called = [callback |-> Unread, userdata |-> Unread]

At(who, where) == client = who /\ pc = where

\* vsnprintf(buffer, size, ...) of a text that is n long: what it answers, and
\* what is in the buffer afterwards
Answers(n) == {n} \cup IF PrintfFails THEN {Modulus - 1} ELSE {}
Text(what, n, size) == IF size = 0 THEN "nothing" ELSE IF n < size THEN what ELSE "cut"

\* What becomes of the message when format and va_list are as they are
Message == IF printed[finalFormat] = "format" /\ va = "fresh" THEN "message" ELSE "cut"

IsNull(answer) == answer.place = "heap" /\ answer.from = NULL

Last(s) == s[Len(s)]

-----------------------------------------------------------------------------
(* Mutated forms, used to test the properties.                             *)

\* the text of exactly STR_MAX_LEN bytes is taken to fit, without its NUL
TooLongOffByOne == require > STR_MAX_LEN

-----------------------------------------------------------------------------
(* NcLog_write().                                                          *)

\* require >= STR_MAX_LEN
TooLong == require >= STR_MAX_LEN

Goto(where) == pc' = where /\ UNCHANGED <<client, length>>

\* finalFormat = allocArray(STR_MAX_LEN); message = allocArray(STR_MAX_LEN);
LogAlloc ==
    /\ At("log", "begin")
    /\ Alloc(STR_MAX_LEN)
    /\ printed' = Append(printed, "nothing")
    /\ Goto(IF Len(given) = 1 THEN "format" ELSE "begin")
    /\ UNCHANGED <<require, pieces, va, out>>

\* require = snprintf(finalFormat, STR_MAX_LEN, ...)
LogPrintFormat ==
    /\ At("log", "format")
    /\ require' \in Answers(length.format)
    /\ printed' = [printed EXCEPT ![finalFormat] = Text("format", length.format, STR_MAX_LEN)]
    /\ Goto("formatted")
    /\ UNCHANGED <<vars, pieces, va, out>>

\* the second snprintf(), when the first needed more; malloc() may have failed
LogGrowFormat ==
    /\ At("log", "formatted")
    /\ IF TooLong
       THEN LET room == (require + 1) % Modulus IN
            /\ Alloc(room)
            /\ finalFormat' = Len(given')
            /\ printed' = Append(printed, Text("format", length.format, room))
            /\ require' \in Answers(length.format)
            /\ Goto(IF IsNull(Last(given')) THEN "crashed" ELSE "message")
       ELSE Goto("message") /\ UNCHANGED <<vars, finalFormat, printed, require>>
    /\ UNCHANGED <<message, va, out>>

\* va_start(va, format); require = vsnprintf(message, STR_MAX_LEN, finalFormat, va)
LogPrintMessage ==
    /\ At("log", "message")
    /\ require' \in Answers(length.message)
    /\ printed' = [printed EXCEPT ![message] = Text(Message, length.message, STR_MAX_LEN)]
    /\ va' = "read"
    /\ Goto("measured")
    /\ UNCHANGED <<vars, pieces, out>>

\* va_end(va); va_start(va, format); and the second vsnprintf()
LogRestart ==
    /\ At("log", "measured")
    /\ IF TooLong
       THEN va' = "fresh" /\ Goto("again")
       ELSE Goto("deliver") /\ UNCHANGED va
    /\ UNCHANGED <<vars, require, pieces, printed, out>>

LogGrowMessage ==
    /\ At("log", "again")
    /\ LET room == (require + 1) % Modulus IN
       /\ Alloc(room)
       /\ printed' = Append(printed, Text(Message, length.message, room))
       /\ message' = Len(given')
    /\ require' \in Answers(length.message)
    /\ va' = "read"
    /\ Goto(IF IsNull(Last(given')) THEN "crashed" ELSE "deliver")
    /\ UNCHANGED <<finalFormat, out>>

\* if (g_logCallback != NULL)
LogTest ==
    /\ At("log", "deliver")
    /\ Goto(IF g_logCallback # None THEN "call" ELSE "write")
    /\ UNCHANGED <<vars, require, pieces, printed, va, out>>

\* g_logCallback(message, g_logUserdata): both are read once more, one after the
\* other, in no particular order
LogReadGlobal ==
    /\ At("log", "call")
    /\ \/ called.callback = Unread /\ called' = [called EXCEPT !.callback = g_logCallback]
       \/ called.userdata = Unread /\ called' = [called EXCEPT !.userdata = g_logUserdata]
    /\ UNCHANGED <<g_logCallback, g_logUserdata, setting>>

BothRead == called.callback # Unread /\ called.userdata # Unread

\* the call with what was read; Dal_writeLog(message)
LogDeliver ==
    /\ \/ At("log", "call") /\ BothRead /\ called.callback # None
       \/ At("log", "write")
    /\ out' = <<[text |-> printed[message],
                 to |-> IF pc = "call" THEN <<called.callback, called.userdata>> ELSE <<>>]>>
    /\ Goto("end")
    /\ UNCHANGED <<vars, require, pieces, printed, va>>

LogCallsNull ==
    /\ At("log", "call") /\ BothRead /\ called.callback = None
    /\ Goto("crashed")
    /\ UNCHANGED <<vars, require, pieces, printed, va, out>>

\* the allocator's destructor
LogEnd ==
    /\ At("log", "end")
    /\ Destroy
    /\ Goto("returned")
    /\ UNCHANGED <<require, pieces, printed, va, out>>

LogWrite ==
    \/ LogAlloc \/ LogPrintFormat \/ LogGrowFormat \/ LogPrintMessage \/ LogRestart
    \/ LogGrowMessage \/ LogTest \/ LogDeliver \/ LogCallsNull \/ LogEnd

\* NcLog_setCallback(c, its userdata) or (NULL, NULL): two assignments
SetCallback(c) ==
    /\ setting = <<>> /\ g_logCallback # c
    /\ g_logCallback' = c
    /\ setting' = <<c>>
    /\ UNCHANGED <<g_logUserdata, called>>

SetUserdata ==
    /\ setting # <<>>
    /\ g_logUserdata' = setting[1]
    /\ setting' = <<>>
    /\ UNCHANGED <<g_logCallback, called>>

-----------------------------------------------------------------------------
(* NcString::format(): va_start again; formatVa(): a va_copy() made before.*)

\* len = vsnprintf(NULL, 0, format, va)
FormatMeasure ==
    /\ At("format", "begin")
    /\ require' \in Answers(length.message)
    /\ va' = "read"
    /\ Goto("restart")
    /\ UNCHANGED <<vars, pieces, printed, out>>

\* va_end, va_start; allocButFillContentLater(len), which does not look at what
\* malloc() answers
FormatAlloc ==
    /\ At("format", "restart")
    /\ va' = "fresh"
    /\ pc' \in {"print", "crashed"}
    /\ UNCHANGED <<vars, client, length, require, pieces, printed, out>>

\* vsnprintf(buffer, len + 1, format, va)
FormatPrint ==
    /\ At("format", "print")
    /\ out' = <<[text |-> Text(IF va = "fresh" THEN "message" ELSE "cut", length.message,
                               (require + 1) % Modulus),
                 length |-> require, to |-> <<>>]>>
    /\ va' = "read"
    /\ Goto("returned")
    /\ UNCHANGED <<vars, require, pieces, printed>>

FormatNext ==
    \/ client = "test" /\ Next /\ UNCHANGED <<call, logCallback>>
    \/ (LogWrite \/ FormatMeasure \/ FormatAlloc \/ FormatPrint) /\ UNCHANGED logCallback
    \/ /\ client = "log"
       /\ (\E c \in Callbacks \cup {None} : SetCallback(c)) \/ SetUserdata \/ LogReadGlobal
       /\ UNCHANGED <<vars, call>>

FormatSpec == FormatInit /\ [][FormatNext]_fvars

-----------------------------------------------------------------------------
\* Whatever its length, and whether or not the first piece of memory was large
\* enough, a message is delivered whole; and format() and formatVa() answer a
\* string of its length.
DeliveredWhole ==
    \A i \in DOMAIN out :
        /\ out[i].text = "message"
        /\ client = "format" => out[i].length = length.message

\* No sum of sizes wraps.  vsnprintf() answers an int, a size_t holds more; what
\* a test program asks for is its own affair.
NoWrap ==
    /\ \A r \in Requests : r + StackSize < Modulus
    /\ \A n \in Lengths \cup {STR_MAX_LEN} : n + 1 + StackSize < Modulus

\* The inductive invariant of the allocator as its clients use it, and that of
\* what is printed, if vsnprintf() does not fail: how far the two texts have
\* got at each step of NcLog_write() and of format().
Clients ==
    /\ client \in {"test", "log", "format"}
    /\ length \in [format : Lengths \cup {0}, message : Lengths \cup {0}]
    /\ require \in Lengths \cup {0, Modulus - 1}
    /\ client = "log" => (alive <=> pc # "returned")

FormatIInv == AllocatorIInv /\ Clients

Holds(piece, what) == piece \in DOMAIN printed /\ printed[piece] = what

LogPrints ==
    client = "log" =>
        /\ length \in [format : Lengths, message : Lengths]
        /\ printed \in Seq({"format", "message", "cut", "nothing"}) /\ Len(printed) = Len(given)
        /\ pc = "begin" => Len(given) < 2
        /\ pc = "format" => Len(given) >= 2
        /\ pc \in {"begin", "format", "formatted"} => finalFormat = 1
        /\ pc \in {"begin", "format", "formatted", "message"} => va = "fresh" /\ message = 2
        /\ pc = "formatted" =>
               /\ Len(given) >= 2 /\ require = length.format
               /\ length.format < STR_MAX_LEN => Holds(finalFormat, "format")
        /\ pc = "message" => Len(given) >= 2 /\ Holds(finalFormat, "format") /\ finalFormat # 2
        /\ pc \in {"measured", "again"} =>
               /\ require = length.message /\ Holds(finalFormat, "format")
               /\ pc = "measured" /\ length.message < STR_MAX_LEN => Holds(message, "message")
               /\ pc = "again" => va = "fresh"
        /\ pc \in {"deliver", "call", "write"} => Holds(message, "message")

FormatPrints ==
    client = "format" =>
        /\ pc \in {"restart", "print"} => require = length.message
        /\ pc = "print" => va = "fresh"
        /\ pc = "begin" => va = "fresh"
        /\ length.message \in Lengths

PrintedIInv == Clients /\ LogPrints /\ FormatPrints /\ DeliveredWhole

\* A callback gets the userdata it was registered with.  This does not hold:
\* the two are written and read one after the other, without a lock.
DeliveredWithItsUserdata ==
    \A i \in DOMAIN out : out[i].to # <<>> => out[i].to[1] = out[i].to[2]
=============================================================================
