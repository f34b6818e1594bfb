--------------------------- MODULE MCPureFunctions ---------------------------
(***************************************************************************)
(* Checks the operators of SdsText and DictHash, for every argument of a  *)
(* bounded set, against reference definitions written from spec.md or    *)
(* from the algebra of the functions.  The state is the                   *)
(* argument, tagged with the function it is for; each invariant compares  *)
(* the code's answer for its arguments with the reference.                 *)
(***************************************************************************)
EXTENDS SdsText, DictHash, TLC

CONSTANT Args

VARIABLE arg

Init == arg \in Args
Next == UNCHANGED arg
Spec == Init /\ [][Next]_arg

\* Argument sets: strings over a few bytes, including bytes of 128..255.
CmpArgs == SeqOf({97, 98, 200}, 3) \X SeqOf({97, 98, 200}, 3)
SplitArgs == SeqOf({97, 98}, 6) \X (SeqOf({97, 98}, 2) \ {<<>>})
\* Every case of the switch of sdscatrepr, the two quotes, a blank that is
\* not a separator (11, \v), hex digits and 'x', and high bytes.
ReprArgs == SeqOf({0, 7, 8, 9, 10, 11, 13, 32, 34, 39, 48, 92, 97, 120, 255}, 3)
LongLongs == -(2^(W - 1))..(2^(W - 1) - 1)

\* Formatted outputs: runs of 'a' around the buffer sizes 16, 32 and 64,
\* each also with a NUL byte (as "%c" of 0 writes) at every position.
PrintfOutputs ==
    LET run(n) == [j \in 1..n |-> 97]
    IN {run(n) : n \in 0..66}
       \cup {[j \in 1..n |-> IF j = p THEN 0 ELSE 97] :
                n \in 1..66, p \in {1, 14, 15, 16, 30, 31, 32, 62, 63}}

\* A key with byte p replaced by b, where it held another byte.
Changed(x, p, b) == [x EXCEPT ![p] = b]
OneByteChanges(keys, bytes) ==
    UNION {{<<x, Changed(x, p, b)>> : p \in 1..Len(x), b \in bytes} : x \in keys}
    \ {<<x, x>> : x \in keys}

\* MurmurHash2 keys of 1 to 9 bytes (two blocks and every tail length),
\* changed at each byte.
MurmurKeys == UNION {{[j \in 1..n |-> 97], [j \in 1..n |-> (37 * j) % 256]} : n \in 1..9}
MurmurArgs == OneByteChanges(MurmurKeys, {0, 98, 128, 255})

\* Integer keys: each half 0, 1, the byte and sign boundaries, all ones.
IntKeys == {<<hi, lo>> : hi, lo \in {0, 1, 255, 256, 32767, 32768, 65535}}

\* Every argument, tagged with the function it is for.
AllArgs == ({"cmp"} \X CmpArgs) \cup ({"split"} \X SplitArgs)
           \cup ({"repr"} \X ReprArgs) \cup ({"fromll"} \X LongLongs)
           \cup ({"printf"} \X PrintfOutputs)
           \cup ({"murmur"} \X MurmurArgs)
           \cup ({"int"} \X IntKeys)

-----------------------------------------------------------------------------
(* References, from spec.md 4.2 and 6.                                     *)

\* Lexicographic order over bytes, a proper prefix first.
RefLess(a, b) ==
    \E k \in 0..Len(a) :
        /\ k <= Len(b)
        /\ SubSeq(a, 1, k) = SubSeq(b, 1, k)
        /\ \/ k = Len(a) /\ k < Len(b)
           \/ k < Len(a) /\ k < Len(b) /\ a[k + 1] < b[k + 1]

\* The fields between the leftmost non-overlapping occurrences of sep;
\* empty fields are kept, and an empty string has no fields.
RECURSIVE Fields(_, _)
Fields(x, sep) ==
    LET at == {i \in 1..(Len(x) - Len(sep) + 1) : SubSeq(x, i, i + Len(sep) - 1) = sep}
    IN IF at = {} THEN <<x>>
       ELSE <<SubSeq(x, 1, Min(at) - 1)>>
            \o Fields(SubSeq(x, Min(at) + Len(sep), Len(x)), sep)

RefSplit(x, sep) == IF x = <<>> THEN <<>> ELSE Fields(x, sep)

\* The value a string of ASCII digits with an optional '-' denotes.
DecimalValue(d) == FoldLeft(LAMBDA acc, c : acc * 10 + (c - 48), 0, d)

IsNumeral(str) ==
    LET d == IF str # <<>> /\ str[1] = 45 THEN Tail(str) ELSE str
    IN /\ d # <<>>
       /\ \A j \in 1..Len(d) : d[j] \in 48..57
       /\ (d[1] = 48 => d = <<48>>)
       /\ (str # d => d # <<48>>)

NumeralValue(str) == IF str[1] = 45 THEN -DecimalValue(Tail(str)) ELSE DecimalValue(str)

\* The inverse of Thomas Wang's mix, step by step: x ^= x >> s is undone
\* by xoring the shifts of the result by s, 2s, ...; x += ~(x << s) is
\* x * (1 - 2^s) - 1 and x += x << 3 is x * 9, undone by the inverses of
\* the odd factors modulo 2^32.
UnXorShr(y, s) ==
    LET RECURSIVE Go(_, _)
        Go(x, j) == IF j * s >= 32 THEN x ELSE Go(XorU(x, ShrU(y, j * s)), j + 1)
    IN  Go(y, 1)
InvTimes1Minus2p15 == <<16384, 32769>>
InvTimes9 == <<14563, 36409>>
InvTimes1Minus2p11 == <<64, 2049>>
Unmix(h) ==
    LET k5 == UnXorShr(h, 16)
        k4 == MulU(AddU(k5, U32(1)), InvTimes1Minus2p11)
        k3 == UnXorShr(k4, 6)
        k2 == MulU(k3, InvTimes9)
        k1 == UnXorShr(k2, 10)
    IN  MulU(AddU(k1, U32(1)), InvTimes1Minus2p15)

-----------------------------------------------------------------------------
(* Properties.                                                             *)

\* sdscmp orders strings as spec 4.2 says: lexicographically over bytes
\* (memcmp reads unsigned char, so bytes of 128..255 sort after ASCII),
\* with a proper prefix first and 0 only for equal strings.
CmpOrder ==
    arg[1] = "cmp" =>
    LET a == arg[2][1]
        b == arg[2][2]
    IN /\ (sdscmp(a, b) < 0) <=> RefLess(a, b)
       /\ (sdscmp(a, b) = 0) <=> (a = b)

ReprRoundTrip ==
    arg[1] = "repr" => sdssplitargs(sdscatrepr(<<>>, arg[2])) = <<arg[2]>>

\* sdsfromlonglong writes the canonical decimal numeral of every long long,
\* LLONG_MIN (whose negation overflows) included.
FromLongLongDecimal ==
    arg[1] = "fromll" =>
    LET str == sdsfromlonglong(arg[2]) IN IsNumeral(str) /\ NumeralValue(str) = arg[2]

\* sdscatvprintf appends the whole formatted text, up to its first NUL as
\* for any C string, whatever its length: the probe of buf[buflen-2] must
\* tell a text that fills the buffer from one that fits exactly.
CatPrintfAppends ==
    arg[1] = "printf" =>
    LET out == arg[2]
        nul == SelectInSeq(out, LAMBDA c : c = 0)
        text == IF nul = 0 THEN out ELSE SubSeq(out, 1, nul - 1)
    IN sdscatprintf(<<98>>, out) = <<98>> \o text

\* Every byte of a key reaches dictGenHashFunction: two keys of the same
\* length that differ in one byte get different hashes.  (Each step of
\* MurmurHash2 is a bijection of h, so this holds of the code for every
\* key; it fails when a block byte is not read or a case of the tail
\* switch does not fall through.)
MurmurOneByte ==
    arg[1] = "murmur" =>
    dictGenHashFunction(arg[2][1], DefaultHashSeed) # dictGenHashFunction(arg[2][2], DefaultHashSeed)

\* dictIntHashFunction is a permutation of the 32-bit integers: its
\* algebraic inverse gives every key back, so no two integer keys ever
\* share a full hash.
IntHashInvertible ==
    arg[1] = "int" => Unmix(dictIntHashFunction(arg[2])) = arg[2]

=============================================================================
