------------------------------ MODULE DictHash ------------------------------
(***************************************************************************)
(* The hash functions of dict.c: Thomas Wang's integer mix, the identity, *)
(* MurmurHash2 over a byte array (dictGenHashFunction) and the             *)
(* case-insensitive DJB hash (dictGenCaseHashFunction), as operators.      *)
(*                                                                         *)
(* An unsigned int / uint32_t is a pair <<hi, lo>> of 16-bit halves, so    *)
(* that every intermediate value fits TLC's integers; the operators below  *)
(* are the C operators on uint32 with wrap-around modulo 2^32.  The build  *)
(* is little-endian (x86): the uint32_t read of data takes data[0] as the *)
(* low byte.  tolower runs in the "C" locale, as Redis never sets LC_CTYPE. *)
(***************************************************************************)
EXTENDS Integers, Sequences, Bitwise

B16 == 65536

\* A uint32 holding the natural n (n < 2^31).
U32(n) == <<n \div B16, n % B16>>

XorU(a, b) == <<a[1] ^^ b[1], a[2] ^^ b[2]>>

AddU(a, b) == LET lo == a[2] + b[2]
              IN  <<(a[1] + b[1] + lo \div B16) % B16, lo % B16>>

\* ~a
NotU(a) == <<B16 - 1 - a[1], B16 - 1 - a[2]>>

\* a << r and a >> r, for 0 < r < 32.
ShlU(a, r) ==
    IF r >= 16 THEN <<(a[2] * 2^(r - 16)) % B16, 0>>
    ELSE <<(((a[1] * 2^r) % B16) + (a[2] * 2^r) \div B16) % B16, (a[2] * 2^r) % B16>>

ShrU(a, r) ==
    IF r >= 16 THEN <<0, a[1] \div 2^(r - 16)>>
    ELSE <<a[1] \div 2^r, a[2] \div 2^r + (a[1] % 2^r) * 2^(16 - r)>>

\* (x * y) mod 2^16 for halves x, y, without an intermediate above 2^24.
MulLo(x, y) == ((x % 256) * y + (((x \div 256) * y) % 256) * 256) % B16

\* a * b modulo 2^32.
MulU(a, b) ==
    LET p == (a[2] % 256) * b[2]
        q == (a[2] \div 256) * b[2]
        s == p + (q % 256) * 256
        carry == s \div B16 + q \div 256
    IN  <<(carry + MulLo(a[1], b[2]) + MulLo(a[2], b[1])) % B16, s % B16>>

-----------------------------------------------------------------------------
(* Thomas Wang's 32 bit mix, and the identity hash.                        *)

\* Mutant: the second step shifts the wrong way.
dictIntHashFunctionShl10(key) ==
    LET k1 == AddU(key, NotU(ShlU(key, 15)))
        k2 == XorU(k1, ShlU(k1, 10))
        k3 == AddU(k2, ShlU(k2, 3))
        k4 == XorU(k3, ShrU(k3, 6))
        k5 == AddU(k4, NotU(ShlU(k4, 11)))
    IN  XorU(k5, ShrU(k5, 16))

dictIntHashFunction(key) ==
    LET k1 == AddU(key, NotU(ShlU(key, 15)))
        k2 == XorU(k1, ShrU(k1, 10))
        k3 == AddU(k2, ShlU(k2, 3))
        k4 == XorU(k3, ShrU(k3, 6))
        k5 == AddU(k4, NotU(ShlU(k4, 11)))
    IN  XorU(k5, ShrU(k5, 16))

dictIdentityHashFunction(key) == key

-----------------------------------------------------------------------------
(* MurmurHash2.                                                            *)

\* m = 0x5bd1e995
MurmurM == <<23505, 59797>>

\* uint32_t k = *(uint32_t*)data, little-endian.
Word(data) == <<data[3] + 256 * data[4], data[1] + 256 * data[2]>>

\* One round of the while(len >= 4) loop.
MixBlock(h, data) ==
    LET k1 == MulU(Word(data), MurmurM)
        k2 == XorU(k1, ShrU(k1, 24))
        k3 == MulU(k2, MurmurM)
    IN  XorU(MulU(h, MurmurM), k3)

RECURSIVE MixBlocks(_, _)
MixBlocks(h, data) ==
    IF Len(data) >= 4 THEN MixBlocks(MixBlock(h, data), SubSeq(data, 5, Len(data)))
    ELSE [h |-> h, tail |-> data]

\* Mutant: case 3 does not fall through to cases 2 and 1.
TailWordNoFallthrough(t) ==
    IF Len(t) = 3 THEN <<t[3], 0>>
    ELSE <<0, (IF Len(t) >= 2 THEN 256 * t[2] ELSE 0) + t[1]>>

\* What the falling-through cases of switch(len) xor into h:
\* data[2] << 16, data[1] << 8, data[0].
TailWord(t) ==
    <<IF Len(t) = 3 THEN t[3] ELSE 0,
      (IF Len(t) >= 2 THEN 256 * t[2] ELSE 0) + t[1]>>

\* The switch: nothing for no tail, else h ^= the tail bytes; h *= m.
MixTail(h, t) == IF t = <<>> THEN h ELSE MulU(XorU(h, TailWord(t)), MurmurM)

\* The final avalanche.
Avalanche(h) ==
    LET h1 == XorU(h, ShrU(h, 13))
        h2 == MulU(h1, MurmurM)
    IN  XorU(h2, ShrU(h2, 15))

\* dictGenHashFunction(key, len) with dict_hash_function_seed = seed.
dictGenHashFunction(key, seed) ==
    LET b == MixBlocks(XorU(seed, U32(Len(key))), key)
    IN  Avalanche(MixTail(b.h, b.tail))

-----------------------------------------------------------------------------
(* The case-insensitive DJB hash.                                          *)

\* tolower of an unsigned char in the "C" locale.
ToLowerByte(c) == IF c \in 65..90 THEN c + 32 ELSE c

\* Mutant: the byte is added as it is.
CaseHashStepNoLower(h, c) == AddU(AddU(ShlU(h, 5), h), U32(c))

\* hash = ((hash << 5) + hash) + tolower(*buf++)
CaseHashStep(h, c) == AddU(AddU(ShlU(h, 5), h), U32(ToLowerByte(c)))

RECURSIVE CaseHash(_, _)
CaseHash(h, buf) ==
    IF buf = <<>> THEN h ELSE CaseHash(CaseHashStep(h, Head(buf)), Tail(buf))

dictGenCaseHashFunction(buf, seed) == CaseHash(seed, buf)

\* dict_hash_function_seed's initial value.
DefaultHashSeed == U32(5381)

=============================================================================
