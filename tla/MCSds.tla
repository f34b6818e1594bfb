------------------------------- MODULE MCSds -------------------------------
(***************************************************************************)
(* Model checking of Sds.  The host is the program that owns the string.  *)
(* Besides calling the sds functions it uses the zero-copy idiom that the *)
(* comment of sdsIncrLen describes (sds.c 157-165): sdsMakeRoomFor, a     *)
(* read() of nread bytes into s+oldlen, then sdsIncrLen(s, nread).         *)
(*                                                                         *)
(* HostNext keeps three preconditions that neither sds.h nor the spec      *)
(* states; the misuse hosts below drop the first or the second:           *)
(*   - sdstrim only on strings without a NUL byte;                        *)
(*   - sdsrange never with a negative end before the start of the string; *)
(*   - sdsIncrLen never with a negative incr larger than len (which its  *)
(*     asserts let through: len then goes negative).                      *)
(***************************************************************************)
EXTENDS Sds, TLC

MCTexts == {<<>>, <<"a">>, <<"b", "a">>, <<"a", "nul">>}
MCCSets == {{}, {"a"}}
MCIncrs == {-2, -1, 1, 2}
MCRangeArgs == {-3, -1, 0, 2}
\* A single substitution, and a swap that must not be applied twice.
MCMapArgs == {<<<<"a">>, <<"nul">>>>, <<<<"a", "b">>, <<"b", "a">>>>}

ReadLens == {d \in Incrs : d > 0}

\* oldlen = sdslen(s); s = sdsMakeRoomFor(s, n); nread = read(fd, s+oldlen, n);
\* sdsIncrLen(s, nread).
ReadInto(n) ==
    /\ Held
    /\ s.len + n <= MaxLen
    /\ \E r \in sdsMakeRoomFor(s, n), w \in TupleOf(AllBytes, n) :
          s' = sdsIncrLen([r EXCEPT !.buf = Write(r.buf, r.len, w)], n)
    /\ call' = <<"incrlen", n>>

HasNul == \E j \in 1..s.len : s.buf[j] = NUL

CallsWhen(trimNul, farEnd) ==
    \/ \E t \in Texts, init \in BOOLEAN : SdsNewLen(t, init)
    \/ SdsFree \/ SdsUpdateLen \/ SdsClear \/ SdsRemoveFreeSpace
    \/ \E n \in AddLens : SdsMakeRoomFor(n)
    \/ \E n \in ReadLens : ReadInto(n)
    \/ \E d \in Incrs : Held /\ s.len + d >= 0 /\ SdsIncrLen(d)
    \/ \E n \in GrowLens : SdsGrowZero(n)
    \/ \E t \in Texts : SdsCatLen(t) \/ SdsCpyLen(t)
    \/ \E c \in CSets : Held /\ (trimNul \/ ~HasNul) /\ SdsTrim(c)
    \/ \E a, b \in RangeArgs : Held /\ (farEnd \/ b >= 0 \/ s.len + b >= 0)
                                /\ SdsRange(a, b)
    \/ \E m \in MapArgs : SdsMapChars(m[1], m[2])

HostNext == CallsWhen(FALSE, FALSE)
HostSpec == Init /\ [][HostNext]_vars

TrimNulNext == CallsWhen(TRUE, FALSE)
TrimNulSpec == Init /\ [][TrimNulNext]_vars

FarEndNext == CallsWhen(FALSE, TRUE)
FarEndSpec == Init /\ [][FarEndNext]_vars

-----------------------------------------------------------------------------
(***************************************************************************)
(* Properties.                                                             *)
(***************************************************************************)

\* The shapes of the header and the allocation: len and free are counts,
\* and no block is larger than sdsMakeRoomFor asks for (len + addlen is at
\* most MaxLen, grown by doubling or by SDS_MAX_PREALLOC, plus the NUL).
MaxAlloc == NewLenFor(MaxLen, 0) + 1

TypeOK ==
    /\ \/ s = NULL
       \/ /\ s \in [len : Nat, free : Nat, buf : Seq(AllBytes)]
          /\ Len(s.buf) \in 1..MaxAlloc
    /\ call[1] \in {"none", "new", "free", "room", "clear", "updatelen", "cat", "cpy",
                   "trim", "range", "growzero", "incrlen", "map"}

\* sds.h / spec 3.2: len >= 0, free >= 0 and buf[len] = '\0', and the header
\* describes the block zmalloc/zrealloc handed out: len + free + 1 bytes
\* follow it.  Every function that reallocates recomputes free from the new
\* block (sdsMakeRoomFor, then totlen in sdscpylen and sdsgrowzero); a free
\* larger than the block lets the next append write past it.
HeaderMatchesAlloc ==
    s # NULL =>
        /\ s.len >= 0 /\ s.free >= 0
        /\ s.len + s.free + 1 = Len(s.buf)
        /\ s.buf[s.len + 1] = NUL

\* The string implements SdsString: the bytes s[0..len-1] change exactly as
\* spec 4.2 says of new, cat, cpy, clear, update_len, trim, range,
\* grow_zero and incr_len, and reserving or releasing room leaves them alone.
Abstract == INSTANCE SdsString WITH str <- IF s = NULL THEN NULL ELSE SubSeq(s.buf, 1, s.len)

SdsRefinement == Abstract!Spec
=============================================================================
