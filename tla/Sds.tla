-------------------------------- MODULE Sds --------------------------------
(***************************************************************************)
(* One sds string of sds.c: the header fields len and free (both C int,   *)
(* sds.h) and the allocation that follows the header, as a sequence of    *)
(* bytes whose length is what zmalloc/zrealloc was asked for.  Byte j of  *)
(* the string (s[j] in C, j from 0) is buf[j+1].  s = NULL when the        *)
(* program holds no string.  Each public function that changes the       *)
(* string is one action; the helpers it calls (sdsMakeRoomFor above all)   *)
(* are operators that return the set of records the call may leave, the   *)
(* set because zrealloc leaves new bytes uninitialised.                   *)
(***************************************************************************)
EXTENDS Integers, Sequences, SequencesExt

CONSTANTS
    Bytes, NUL, NULL, Texts, CSets, Incrs, RangeArgs, GrowLens,
    MapArgs,            \* <<from, to>> arguments of sdsmapchars
    AddLens,            \* addlen arguments of sdsMakeRoomFor
    Garbage,            \* values a byte left uninitialised by zrealloc may hold
    SDS_MAX_PREALLOC,   \* sds.h: 1 MiB; a small value so both branches occur
    MaxLen              \* bound: no call makes len + addlen exceed it

ASSUME /\ NUL \notin Bytes
       /\ Garbage \subseteq Bytes \cup {NUL}
       /\ SDS_MAX_PREALLOC \in Nat \ {0}
       /\ MaxLen \in Nat

VARIABLES
    s,      \* the string: [len, free, buf], or NULL
    call    \* the last call and its arguments, for the refinement

vars == <<s, call>>

AllBytes == Bytes \cup {NUL}

Zeros(n) == [j \in 1..n |-> NUL]

\* sh->buf after the first n bytes of the string are set to t.
Write(buf, at, t) ==
    [j \in DOMAIN buf |-> IF at < j /\ j <= at + Len(t) THEN t[j - at] ELSE buf[j]]

\* s[j] = '\0'
Term(buf, j) == [buf EXCEPT ![j + 1] = NUL]

\* strlen(s)
StrLen(buf) == SelectInSeq(buf, LAMBDA b : b = NUL) - 1

\* sdsnewlen: zmalloc copies init, zcalloc zeroes; len = initlen, free = 0.
sdsnewlen(t, init) ==
    [len |-> Len(t), free |-> 0,
     buf |-> (IF init THEN t ELSE Zeros(Len(t))) \o <<NUL>>]

\* zrealloc to n bytes: the old bytes are kept, the new ones are garbage.
Realloc(buf, n) ==
    IF n <= Len(buf) THEN {SubSeq(buf, 1, n)}
    ELSE {buf \o g : g \in TupleOf(Garbage, n - Len(buf))}

NewLenFor(len, addlen) ==
    IF len + addlen < SDS_MAX_PREALLOC THEN (len + addlen) * 2
    ELSE len + addlen + SDS_MAX_PREALLOC

\* sdsMakeRoomFor: enough room for addlen more bytes; len is not touched.
sdsMakeRoomFor(sh, addlen) ==
    IF sh.free >= addlen THEN {sh}
    ELSE LET newlen == NewLenFor(sh.len, addlen)
         IN {[sh EXCEPT !.buf = b, !.free = newlen - sh.len]
               : b \in Realloc(sh.buf, newlen + 1)}

\* sdsRemoveFreeSpace
sdsRemoveFreeSpace(sh) == [sh EXCEPT !.buf = SubSeq(sh.buf, 1, sh.len + 1), !.free = 0]

\* sdsupdatelen
sdsupdatelen(sh) ==
    LET reallen == StrLen(sh.buf)
    IN [sh EXCEPT !.free = sh.free + (sh.len - reallen), !.len = reallen]

\* sdsclear
sdsclear(sh) == [sh EXCEPT !.free = sh.free + sh.len, !.len = 0, !.buf = Term(sh.buf, 0)]

\* s[j] = '\0' for j < 0 lands in the 8-byte header (int len at offsets 0-3,
\* int free at 4-7, little-endian): it clears one byte of len or free.
\* Clearing the top byte leaves the low 24 bits; clearing a lower byte of a
\* negative value keeps its top byte 0xFF, so the value stays negative.
ClearByte(v, i) == IF i = 3 THEN v % 2^24
                   ELSE v - ((v \div 2^(8 * i)) % 256) * 2^(8 * i)

HeaderWrite(sh, j) ==
    LET o == 8 + j
    IN IF o >= 4 THEN [sh EXCEPT !.free = ClearByte(sh.free, o - 4)]
       ELSE [sh EXCEPT !.len = ClearByte(sh.len, o)]

\* sdsIncrLen: assert(free >= incr) aborts otherwise, so it is the guard.
sdsIncrLen(sh, incr) ==
    LET moved == [sh EXCEPT !.len = sh.len + incr, !.free = sh.free - incr]
    IN IF moved.len >= 0 THEN [moved EXCEPT !.buf = Term(sh.buf, moved.len)]
       ELSE HeaderWrite(moved, moved.len)

\* Mutant: memset(s+curlen, 0, len-curlen) leaves s[len] unwritten.
sdsgrowzeroNoTerm(sh, len) ==
    IF len <= sh.len THEN {sh}
    ELSE {[r EXCEPT !.buf = Write(r.buf, sh.len, Zeros(len - sh.len)),
                    !.len = len, !.free = (r.len + r.free) - len]
            : r \in sdsMakeRoomFor(sh, len - sh.len)}

\* sdsgrowzero: make room, zero s[curlen..len] (the terminator included),
\* then len = len and free = totlen - len with totlen read after the realloc.
sdsgrowzero(sh, len) ==
    IF len <= sh.len THEN {sh}
    ELSE {[r EXCEPT !.buf = Write(r.buf, sh.len, Zeros(len - sh.len + 1)),
                    !.len = len, !.free = (r.len + r.free) - len]
            : r \in sdsMakeRoomFor(sh, len - sh.len)}

\* sdscatlen
sdscatlen(sh, t) ==
    {[r EXCEPT !.buf = Term(Write(r.buf, sh.len, t), sh.len + Len(t)),
               !.len = sh.len + Len(t), !.free = r.free - Len(t)]
       : r \in sdsMakeRoomFor(sh, Len(t))}

\* sdscpylen: totlen = free + len, recomputed after sdsMakeRoomFor.
CpyInto(r, t, totlen) ==
    [r EXCEPT !.buf = Term(Write(r.buf, 0, t), Len(t)),
              !.len = Len(t), !.free = totlen - Len(t)]

\* Mutant: totlen is not read again after sdsMakeRoomFor (sds.c 251-252).
sdscpylenStaleTotlen(sh, t) ==
    IF sh.free + sh.len < Len(t)
    THEN {CpyInto(r, t, sh.free + sh.len) : r \in sdsMakeRoomFor(sh, Len(t) - sh.len)}
    ELSE {CpyInto(sh, t, sh.free + sh.len)}

sdscpylen(sh, t) ==
    IF sh.free + sh.len < Len(t)
    THEN {CpyInto(r, t, r.free + r.len) : r \in sdsMakeRoomFor(sh, Len(t) - sh.len)}
    ELSE {CpyInto(sh, t, sh.free + sh.len)}

\* The tail of sdstrim and sdsrange: memmove s[from..from+n-1] to s[0..],
\* s[n] = '\0', free += len - n, len = n.
KeepSlice(sh, from, n) ==
    [sh EXCEPT !.buf = Term(Write(sh.buf, 0, SubSeq(sh.buf, from + 1, from + n)), n),
               !.free = sh.free + (sh.len - n), !.len = n]

\* strchr(cset, c) also finds the terminator of cset, so c = '\0' matches.
InCset(cset, c) == c \in cset \/ c = NUL

\* sdstrim: sp runs forward while sp <= end, ep backward while ep > start.
sdstrim(sh, cset) ==
    LET keep == {j \in 0..(sh.len - 1) : ~InCset(cset, sh.buf[j + 1])}
        sp   == IF keep = {} THEN sh.len ELSE Min(keep)
        ep   == IF sh.len = 0 THEN -1
                ELSE IF keep \cap (1..(sh.len - 1)) = {} THEN 0
                ELSE Max(keep)
    IN KeepSlice(sh, sp, IF sp > ep THEN 0 ELSE (ep - sp) + 1)

\* sdsrange: the index arithmetic of sds.c 337-365.
RangeStart(len, start) == IF start < 0 THEN (IF len + start < 0 THEN 0 ELSE len + start)
                          ELSE start
RangeEnd(len, end) == IF end < 0 THEN (IF len + end < 0 THEN 0 ELSE len + end) ELSE end
Span(a, b) == IF a > b THEN 0 ELSE (b - a) + 1

\* Mutant: an end past the string is clamped to len instead of len-1.
sdsrangeEndAtLen(sh, start, end) ==
    LET a == RangeStart(sh.len, start)
        b == RangeEnd(sh.len, end)
        n == IF Span(a, b) = 0 THEN 0
             ELSE IF a >= sh.len THEN 0
             ELSE IF b >= sh.len THEN Span(a, sh.len)
             ELSE Span(a, b)
    IN IF sh.len = 0 THEN sh
       ELSE KeepSlice(sh, IF Span(a, b) = 0 THEN 0 ELSE a, n)

sdsrange(sh, start, end) ==
    LET a == RangeStart(sh.len, start)
        b == RangeEnd(sh.len, end)
        n == IF Span(a, b) = 0 THEN 0
             ELSE IF a >= sh.len THEN 0
             ELSE IF b >= sh.len THEN Span(a, sh.len - 1)
             ELSE Span(a, b)
    IN IF sh.len = 0 THEN sh
       ELSE KeepSlice(sh, IF Span(a, b) = 0 THEN 0 ELSE a, n)

\* Mutant: no break after a match, so later pairs of from/to see the byte
\* already substituted.
MapByteNoBreak(c, from, to) ==
    FoldLeft(LAMBDA b, i : IF b = from[i] THEN to[i] ELSE b, c, [i \in 1..Len(from) |-> i])

\* The inner loop of sdsmapchars: the first i with from[i] = c, then break.
MapByte(c, from, to) ==
    LET hits == {i \in 1..Len(from) : from[i] = c}
    IN IF hits = {} THEN c ELSE to[Min(hits)]

\* sdsmapchars: s[0..len-1] in place; the allocation is not touched.
sdsmapchars(sh, from, to) ==
    [sh EXCEPT !.buf = [j \in DOMAIN @ |-> IF j <= sh.len THEN MapByte(@[j], from, to) ELSE @[j]]]

-----------------------------------------------------------------------------
Held == s # NULL

Init == s = NULL /\ call = <<"none">>

SdsNewLen(t, init) == /\ s = NULL
                      /\ s' = sdsnewlen(t, init)
                      /\ call' = <<"new", t, init>>

SdsFree == /\ Held
           /\ s' = NULL
           /\ call' = <<"free">>

SdsUpdateLen == Held /\ s' = sdsupdatelen(s) /\ call' = <<"updatelen">>

SdsClear == Held /\ s' = sdsclear(s) /\ call' = <<"clear">>

SdsMakeRoomFor(addlen) == /\ Held
                          /\ s.len + addlen <= MaxLen
                          /\ s' \in sdsMakeRoomFor(s, addlen)
                          /\ call' = <<"room">>

SdsRemoveFreeSpace == Held /\ s' = sdsRemoveFreeSpace(s) /\ call' = <<"room">>

SdsIncrLen(incr) == /\ Held
                    /\ s.free >= incr
                    /\ s' = sdsIncrLen(s, incr)
                    /\ call' = <<"incrlen", incr>>

SdsGrowZero(len) == /\ Held
                    /\ len <= MaxLen
                    /\ s' \in sdsgrowzero(s, len)
                    /\ call' = <<"growzero", len>>

SdsCatLen(t) == /\ Held
                /\ s.len + Len(t) <= MaxLen
                /\ s' \in sdscatlen(s, t)
                /\ call' = <<"cat", t>>

SdsCpyLen(t) == Held /\ s' \in sdscpylen(s, t) /\ call' = <<"cpy", t>>

SdsTrim(cset) == Held /\ s' = sdstrim(s, cset) /\ call' = <<"trim", cset>>

SdsRange(start, end) == Held /\ s' = sdsrange(s, start, end) /\ call' = <<"range", start, end>>

SdsMapChars(from, to) == Held /\ s' = sdsmapchars(s, from, to) /\ call' = <<"map", from, to>>

Next ==
    \/ \E t \in Texts, init \in BOOLEAN : SdsNewLen(t, init)
    \/ SdsFree \/ SdsUpdateLen \/ SdsClear \/ SdsRemoveFreeSpace
    \/ \E n \in AddLens : SdsMakeRoomFor(n)
    \/ \E d \in Incrs : SdsIncrLen(d)
    \/ \E n \in GrowLens : SdsGrowZero(n)
    \/ \E t \in Texts : SdsCatLen(t) \/ SdsCpyLen(t)
    \/ \E c \in CSets : SdsTrim(c)
    \/ \E a, b \in RangeArgs : SdsRange(a, b)
    \/ \E m \in MapArgs : SdsMapChars(m[1], m[2])

Spec == Init /\ [][Next]_vars
=============================================================================
