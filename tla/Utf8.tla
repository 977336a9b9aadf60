-------------------------------- MODULE Utf8 --------------------------------
(***************************************************************************)
(* The UTF-8 functions of the vendored jansson (3rd-party/src/jansson/     *)
(* utf.cpp) that nc-runtime is built with, as functions of the bytes they  *)
(* read.  Bytes are 0 .. 255 and stand in the memory mem of StringSlices;  *)
(* masks and shifts of the code are remainders and quotients here.         *)
(***************************************************************************)
EXTENDS StringSlices

NULL == -1              \* a pointer; the others are offsets into mem

Continuation == \h80 .. \hBF
MaxCodePoint == \h10FFFF
IsScalar(c)  == 0 <= c /\ c <= MaxCodePoint /\ ~(\hD800 <= c /\ c <= \hDFFF)

\* c >> 6, and the six bits that this loses in a byte that continues
Shifted(c) == c \div 64
Rest(c)    == \h80 + (c % 64)

\* utf8_encode(c, buffer, &size): the bytes written, <<>> for an answer of -1
Encode(c) ==
    IF c < 0 THEN <<>>
    ELSE IF c < \h80 THEN <<c>>
    ELSE IF c < \h800 THEN <<\hC0 + Shifted(c), Rest(c)>>
    ELSE IF c < \h10000 THEN <<\hE0 + Shifted(Shifted(c)), Rest(Shifted(c)), Rest(c)>>
    ELSE IF c <= MaxCodePoint
         THEN <<\hF0 + Shifted(Shifted(Shifted(c))), Rest(Shifted(Shifted(c))),
                Rest(Shifted(c)), Rest(c)>>
    ELSE <<>>

\* utf8_check_first(u): the number of bytes that u begins, 0 for none
CheckFirst(u) ==
    CASE u < \h80 -> 1
      [] u \in \hC2 .. \hDF -> 2
      [] u \in \hE0 .. \hEF -> 3
      [] u \in \hF0 .. \hF4 -> 4
      [] OTHER -> 0

\* The value utf8_check_full() computes of size bytes at p
FullValue(mem, p, size) ==
    LET value[i \in 1 .. size] ==
            IF i = 1 THEN At(mem, p) % (CASE size = 2 -> 32 [] size = 3 -> 16 [] size = 4 -> 8)
            ELSE value[i - 1] * 64 + (At(mem, p + i - 1) % 64)
    IN  value[size]

\* utf8_check_full() without the test for surrogates
CheckFullSurrogates(mem, p, size) ==
    /\ \A i \in 1 .. size - 1 : At(mem, p + i) \in Continuation
    /\ FullValue(mem, p, size) <= MaxCodePoint
    /\ FullValue(mem, p, size) >= (CASE size = 2 -> \h80 [] size = 3 -> \h800 [] size = 4 -> \h10000)

\* utf8_check_full(buffer, size) = 1, for a size of 2 to 4
CheckFull(mem, p, size) ==
    /\ \A i \in 1 .. size - 1 : At(mem, p + i) \in Continuation
    /\ IsScalar(FullValue(mem, p, size))
    /\ FullValue(mem, p, size) >= (CASE size = 2 -> \h80 [] size = 3 -> \h800 [] size = 4 -> \h10000)

\* utf8_iterate() that does not look at bufsize
IterateBeyond(mem, p, bufsize) ==
    LET count == CheckFirst(At(mem, p)) IN
    IF bufsize = 0 THEN [at |-> p, value |-> NULL]
    ELSE IF count = 1 THEN [at |-> p + 1, value |-> At(mem, p)]
    ELSE IF count > 0 /\ CheckFull(mem, p, count)
         THEN [at |-> p + count, value |-> FullValue(mem, p, count)]
    ELSE [at |-> NULL, value |-> NULL]

\* utf8_iterate(buffer, bufsize, &value): where the next one begins, and the
\* code point, if it writes one
Iterate(mem, p, bufsize) ==
    IF bufsize = 0 THEN [at |-> p, value |-> NULL]
    ELSE LET count == CheckFirst(At(mem, p)) IN
         IF count = 1 THEN [at |-> p + 1, value |-> At(mem, p)]
         ELSE IF count > 0 /\ count <= bufsize /\ CheckFull(mem, p, count)
              THEN [at |-> p + count, value |-> FullValue(mem, p, count)]
         ELSE [at |-> NULL, value |-> NULL]

\* utf8_check_string(string, length) = 1
CheckString(mem, s, length) ==
    LET from[i \in 0 .. length] ==
            LET count == CheckFirst(At(mem, s + i)) IN
            IF i = length THEN 1
            ELSE IF \/ count = 0 \/ count > length - i
                    \/ count > 1 /\ ~CheckFull(mem, s + i, count) THEN 0
            ELSE from[i + count]
    IN  from[0] = 1
=============================================================================
