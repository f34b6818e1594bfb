----------------------------- MODULE SdsString -----------------------------
(***************************************************************************)
(* What a dynamic string promises (spec.md, sections 3.2 and 4.2): a      *)
(* binary-safe sequence of bytes, or NULL when no string is held.  Every   *)
(* operation is stated by its effect on the bytes; capacity, the header   *)
(* and the terminator are invisible here, so reserving room, shrinking the *)
(* allocation or writing into the spare room are stuttering steps.        *)
(***************************************************************************)
EXTENDS Integers, Sequences, SequencesExt

CONSTANTS
    Bytes,       \* the non-NUL byte values
    NUL,         \* the zero byte
    Texts,       \* byte strings passed to new, cat and cpy
    CSets,       \* character sets passed to trim (C strings: no NUL)
    Incrs,       \* increments passed to incr_len
    RangeArgs,   \* start and end indices passed to range
    GrowLens,    \* target lengths passed to grow_zero
    MapArgs,     \* <<from, to>> passed to map_chars (no byte twice in from)
    NULL         \* no string held

VARIABLES str, call

AllBytes == Bytes \cup {NUL}

Zeros(n) == [j \in 1..n |-> NUL]

Init == str = NULL /\ call = <<"none">>

\* The C-string length: the bytes before the first NUL.
CPrefix(x) == LET i == SelectInSeq(x, LAMBDA b : b = NUL)
              IN IF i = 0 THEN x ELSE SubSeq(x, 1, i - 1)

\* trim: drop leading and trailing bytes that belong to cset.
RefTrim(x, cset) ==
    LET keep == {j \in 1..Len(x) : x[j] \notin cset}
    IN IF keep = {} THEN <<>> ELSE SubSeq(x, Min(keep), Max(keep))

\* range: the inclusive slice [start, end]; a negative index counts from the
\* end; a start before the string is the first byte, an end past it is the
\* last byte, and an index that is still out of range gives the empty string.
RefRange(x, start, end) ==
    LET n  == Len(x)
        s0 == IF start < 0 THEN n + start ELSE start
        e0 == IF end < 0 THEN n + end ELSE end
        s1 == IF s0 < 0 THEN 0 ELSE s0
        e1 == IF e0 > n - 1 THEN n - 1 ELSE e0
    IN IF e0 < 0 \/ s1 > e1 THEN <<>> ELSE SubSeq(x, s1 + 1, e1 + 1)

\* map_chars: each byte equal to from[i] becomes to[i].
RefMap(x, from, to) ==
    [j \in 1..Len(x) |-> IF \E i \in 1..Len(from) : from[i] = x[j]
                         THEN to[CHOOSE i \in 1..Len(from) : from[i] = x[j]]
                         ELSE x[j]]

New(t, init) == /\ str = NULL
                /\ str' = IF init THEN t ELSE Zeros(Len(t))
                /\ call' = <<"new", t, init>>

Free == /\ str # NULL
        /\ str' = NULL
        /\ call' = <<"free">>

\* A call on a held string that leaves it equal to x.
Held(x, c) == /\ str # NULL
              /\ str' = x
              /\ call' = c

Next ==
    \/ \E t \in Texts, init \in BOOLEAN : New(t, init)
    \/ Free
    \/ Held(str, <<"room">>)                       \* make_room, remove_free_space
    \/ Held(<<>>, <<"clear">>)
    \/ Held(CPrefix(str), <<"updatelen">>)
    \/ \E t \in Texts : Held(str \o t, <<"cat", t>>)
    \/ \E t \in Texts : Held(t, <<"cpy", t>>)
    \/ \E c \in CSets : Held(RefTrim(str, c), <<"trim", c>>)
    \/ \E a, b \in RangeArgs : Held(RefRange(str, a, b), <<"range", a, b>>)
    \/ \E m \in MapArgs : Held(RefMap(str, m[1], m[2]), <<"map", m[1], m[2]>>)
    \/ \E n \in GrowLens :
          Held(IF n <= Len(str) THEN str ELSE str \o Zeros(n - Len(str)),
               <<"growzero", n>>)
    \/ \E d \in Incrs :
          \/ d >= 0 /\ \E w \in TupleOf(AllBytes, d) : Held(str \o w, <<"incrlen", d>>)
          \/ d < 0 /\ -d <= Len(str)
                   /\ Held(SubSeq(str, 1, Len(str) + d), <<"incrlen", d>>)

Spec == Init /\ [][Next]_<<str, call>>
=============================================================================
