------------------------------- MODULE SdsText -------------------------------
(***************************************************************************)
(* The functions of sds.c that compute a result from their arguments      *)
(* without keeping state between calls: sdscmp, sdssplitlen,              *)
(* sdsfromlonglong, sdscatrepr, sdssplitargs, sdscatvprintf, sdstolower   *)
(* and sdstoupper.  A byte is an integer in                                *)
(* 0..255 and a string a sequence of bytes; a C string (the line of        *)
(* sdssplitargs) ends at its first 0 byte, so the byte after the last one  *)
(* reads as 0.  The locale is "C": isprint is 32..126, isspace is 9..13    *)
(* and 32, and bytes of 128..255 (negative as a char) are neither.         *)
(***************************************************************************)
EXTENDS Integers, Sequences, SequencesExt, FiniteSetsExt

CONSTANTS
    W,       \* width of long long in bits (64 in the build; small here)
    NULL     \* the NULL pointer returned on errors

ASSUME W \in 2..16

IsPrint(c) == c \in 32..126

IsSpace(c) == c \in 9..13 \cup {32}

-----------------------------------------------------------------------------
(* sdscmp                                                                   *)

\* Mutant: the bytes are compared as (signed) char.
MemcmpSigned(a, b, n) ==
    LET diff == {j \in 1..n : a[j] # b[j]}
        sc(c) == IF c >= 128 THEN c - 256 ELSE c
    IN IF diff = {} THEN 0 ELSE sc(a[Min(diff)]) - sc(b[Min(diff)])

\* memcmp(s1, s2, n): the difference of the first differing bytes, read as
\* unsigned char, or 0.
Memcmp(a, b, n) ==
    LET diff == {j \in 1..n : a[j] # b[j]}
    IN IF diff = {} THEN 0 ELSE a[Min(diff)] - b[Min(diff)]

\* sdscmp: memcmp over the shorter length, then l1 - l2.  Both lengths come
\* from the int header fields, so their size_t difference converts back to
\* int without loss.
sdscmp(s1, s2) ==
    LET l1 == Len(s1)
        l2 == Len(s2)
        cmp == Memcmp(s1, s2, IF l1 < l2 THEN l1 ELSE l2)
    IN IF cmp = 0 THEN l1 - l2 ELSE cmp

-----------------------------------------------------------------------------
(* sdssplitlen                                                              *)

Grows(slots, elements) == slots < elements + 2

\* The loop of sdssplitlen from j on: tokens holds the elements so far and
\* slots the size of the array; fits is FALSE once a token is stored at an
\* index the array does not have.  The array grows before the separator
\* test at j; a match stores s[start..j-1] and skips the separator.
RECURSIVE SplitFrom(_, _, _, _, _, _, _)
SplitFrom(s, sep, j, start, tokens, slots, fits) ==
    IF j >= Len(s) - (Len(sep) - 1)
    THEN [tokens |-> Append(tokens, SubSeq(s, start + 1, Len(s))),
          fits   |-> fits /\ Len(tokens) < slots]
    ELSE LET sl == IF Grows(slots, Len(tokens)) THEN slots * 2 ELSE slots
         IN IF SubSeq(s, j + 1, j + Len(sep)) = sep
            THEN SplitFrom(s, sep, j + Len(sep), j + Len(sep),
                           Append(tokens, SubSeq(s, start + 1, j)), sl,
                           fits /\ Len(tokens) < sl)
            ELSE SplitFrom(s, sep, j + 1, start, tokens, sl, fits)

\* sdssplitlen: NULL for an empty separator, no tokens for an empty string,
\* else the scan from j = 0 with an array of 5 slots.
sdssplitlen(s, sep) ==
    IF Len(sep) < 1 THEN NULL
    ELSE IF Len(s) = 0 THEN [tokens |-> <<>>, fits |-> TRUE]
    ELSE SplitFrom(s, sep, 0, 0, <<>>, 5, TRUE)

-----------------------------------------------------------------------------
(* sdsfromlonglong                                                          *)

\* A W-bit two's complement result, as the build's wrapping negation gives.
WrapSigned(n) == ((n + 2^(W - 1)) % 2^W) - 2^(W - 1)

\* The do/while loop: digits from the last one back, at least one.
RECURSIVE Digits(_)
Digits(v) == IF v < 10 THEN <<48 + v>> ELSE Digits(v \div 10) \o <<48 + (v % 10)>>

\* Mutant: v is declared long long, so -LLONG_MIN stays negative.
LongLongAbsSigned(value) == IF value < 0 THEN WrapSigned(-value) ELSE value

\* v = (value < 0) ? -value : value, into an unsigned long long: -value is
\* a signed overflow for LLONG_MIN; the build wraps it to LLONG_MIN, and
\* the conversion to unsigned makes that 2^(W-1).
LongLongAbs(value) == IF value < 0 THEN WrapSigned(-value) % 2^W ELSE value

\* sdsfromlonglong: the digits of v, after a '-' for a negative value.
sdsfromlonglong(value) == (IF value < 0 THEN <<45>> ELSE <<>>) \o Digits(LongLongAbs(value))

-----------------------------------------------------------------------------
(* sdscatvprintf                                                            *)

\* strlen: the bytes before the first 0 (the sequence has one).
CStr(buf) == SubSeq(buf, 1, SelectInSeq(buf, LAMBDA c : c = 0) - 1)

\* vsnprintf(buf, buflen, ...) of a format whose full output is out: the
\* first buflen-1 bytes of out and a terminator; buf[j] is the j+1-th
\* element.  Bytes after the terminator, buf[buflen-2] = '\0' included
\* when the output is short, read as 0; nothing reads the other ones.
Vsnprintf(out, buflen) ==
    LET w == IF Len(out) < buflen - 1 THEN Len(out) ELSE buflen - 1
    IN [j \in 1..buflen |-> IF j <= w THEN out[j] ELSE 0]

\* Mutant: the probe reads the last byte of the buffer.
ProbeIndexLast(buflen) == buflen - 1

\* The byte the loop tests: buf[buflen-2].
ProbeIndex(buflen) == buflen - 2

\* The while(1) loop: from buflen on, doubling while the probed byte was
\* overwritten; the buffer it stops with.
RECURSIVE PrintfBuffer(_, _)
PrintfBuffer(out, buflen) ==
    LET buf == Vsnprintf(out, buflen)
    IN IF buf[ProbeIndex(buflen) + 1] # 0 THEN PrintfBuffer(out, buflen * 2) ELSE buf

\* sdscatvprintf(s, fmt, ap) whose formatted output is out: sdscat(s, buf),
\* which appends strlen(buf) bytes, with buf from a first size of 16.
sdscatvprintf(s, out) == s \o CStr(PrintfBuffer(out, 16))

\* sdscatprintf: va_start, sdscatvprintf, va_end.
sdscatprintf(s, out) == sdscatvprintf(s, out)

-----------------------------------------------------------------------------
(* sdstolower, sdstoupper                                                   *)

\* s[j] is a char, signed in the build: a byte of 128..255 reaches tolower
\* and toupper as -128..-1, which C leaves undefined.  glibc's tables cover
\* -128..-1 and, in the "C" locale, return them unchanged (-1 is EOF), so
\* this build stores the byte back as it was.
SignedChar(c) == IF c >= 128 THEN c - 256 ELSE c

\* Mutant: the case test has no lower bound, as a hand-written
\* "if (c <= 'Z') c += 32" on a signed char would.
CharToLowerNoLowerBound(c) ==
    LET sc == SignedChar(c) IN (IF sc <= 90 THEN sc + 32 ELSE sc) % 256

\* s[j] = tolower(s[j])
CharToLower(c) ==
    LET sc == SignedChar(c) IN (IF sc \in 65..90 THEN sc + 32 ELSE sc) % 256

\* s[j] = toupper(s[j])
CharToUpper(c) ==
    LET sc == SignedChar(c) IN (IF sc \in 97..122 THEN sc - 32 ELSE sc) % 256

\* The loops over j < len.
sdstolower(s) == [j \in DOMAIN s |-> CharToLower(s[j])]
sdstoupper(s) == [j \in DOMAIN s |-> CharToUpper(s[j])]

-----------------------------------------------------------------------------
(* sdscatrepr                                                               *)

HexDigit(d) == IF d < 10 THEN 48 + d ELSE 87 + d     \* "%x": 0-9, a-f

\* Mutant: the char itself is passed for "\\x%02x"; printf widens a byte of
\* 128..255 to a negative int and prints ffffffXX.
HexEscapeSigned(c) ==
    IF c >= 128
    THEN <<92, 120, 102, 102, 102, 102, 102, 102, HexDigit(c \div 16), HexDigit(c % 16)>>
    ELSE <<92, 120, HexDigit(c \div 16), HexDigit(c % 16)>>

\* "\\x%02x" of (unsigned char)*p
HexEscape(c) == <<92, 120, HexDigit(c \div 16), HexDigit(c % 16)>>

\* The case of the switch of sdscatrepr that one byte takes.
ReprByte(c) ==
    CASE c = 92 \/ c = 34 -> <<92, c>>            \* "\\%c"
      [] c = 10 -> <<92, 110>>                    \* \n
      [] c = 13 -> <<92, 114>>                    \* \r
      [] c = 9  -> <<92, 116>>                    \* \t
      [] c = 7  -> <<92, 97>>                     \* \a
      [] c = 8  -> <<92, 98>>                     \* \b
      [] IsPrint(c) -> <<c>>                      \* "%c"
      [] OTHER -> HexEscape(c)

\* sdscatrepr(s, p, len): s, a quote, each byte's rendering, a quote.
sdscatrepr(s, p) ==
    s \o <<34>> \o FlattenSeq([j \in 1..Len(p) |-> ReprByte(p[j])]) \o <<34>>

-----------------------------------------------------------------------------
(* sdssplitargs                                                             *)

\* *p of a C string, p from 1; the terminator and what follows read as 0.
At(line, p) == IF p \in 1..Len(line) THEN line[p] ELSE 0

is_hex_digit(c) == c \in 48..57 \cup 97..102 \cup 65..70

hex_digit_to_int(c) ==
    CASE c \in 48..57 -> c - 48
      [] c \in 97..102 -> c - 87
      [] c \in 65..70 -> c - 55
      [] OTHER -> 0

\* The switch after a backslash inside "quotes".
Unescape(c) ==
    CASE c = 110 -> 10 [] c = 114 -> 13 [] c = 116 -> 9
      [] c = 98 -> 8 [] c = 97 -> 7 [] OTHER -> c

SyntaxError == [p |-> 0, cur |-> <<>>, err |-> TRUE]

\* A closing quote at p: an error unless a space or the end follows; else
\* the token is done and p moves past the quote.
CloseQuote(line, p, cur) ==
    IF At(line, p + 1) # 0 /\ ~IsSpace(At(line, p + 1)) THEN SyntaxError
    ELSE [p |-> p + 1, cur |-> cur, err |-> FALSE]

\* The while(!done) loop of one token, from p, in mode "plain" (neither
\* inq nor insq), "dq" (inq) or "sq" (insq); each branch includes the
\* trailing "if (*p) p++".
RECURSIVE ReadToken(_, _, _, _)
ReadToken(line, p, cur, mode) ==
    LET c == At(line, p)
        n == At(line, p + 1)
    IN CASE mode = "dq" ->
              IF c = 92 /\ n = 120 /\ is_hex_digit(At(line, p + 2))
                                   /\ is_hex_digit(At(line, p + 3))
              THEN ReadToken(line, p + 4,
                             Append(cur, hex_digit_to_int(At(line, p + 2)) * 16
                                         + hex_digit_to_int(At(line, p + 3))), mode)
              ELSE IF c = 92 /\ n # 0 THEN ReadToken(line, p + 2, Append(cur, Unescape(n)), mode)
              ELSE IF c = 34 THEN CloseQuote(line, p, cur)
              ELSE IF c = 0 THEN SyntaxError
              ELSE ReadToken(line, p + 1, Append(cur, c), mode)
         [] mode = "sq" ->
              IF c = 92 /\ n = 39 THEN ReadToken(line, p + 2, Append(cur, 39), mode)
              ELSE IF c = 39 THEN CloseQuote(line, p, cur)
              ELSE IF c = 0 THEN SyntaxError
              ELSE ReadToken(line, p + 1, Append(cur, c), mode)
         [] OTHER ->
              IF c \in {32, 10, 13, 9, 0}
              THEN [p |-> IF c # 0 THEN p + 1 ELSE p, cur |-> cur, err |-> FALSE]
              ELSE IF c = 34 THEN ReadToken(line, p + 1, cur, "dq")
              ELSE IF c = 39 THEN ReadToken(line, p + 1, cur, "sq")
              ELSE ReadToken(line, p + 1, Append(cur, c), mode)

RECURSIVE SkipBlanks(_, _)
SkipBlanks(line, p) ==
    IF At(line, p) # 0 /\ IsSpace(At(line, p)) THEN SkipBlanks(line, p + 1) ELSE p

\* The outer while(1): skip blanks, stop at the end, else read a token and
\* append it to the vector; a syntax error frees everything: NULL.
RECURSIVE ArgsFrom(_, _, _)
ArgsFrom(line, p, argv) ==
    LET q == SkipBlanks(line, p)
        r == ReadToken(line, q, <<>>, "plain")
    IN IF At(line, q) = 0 THEN argv
       ELSE IF r.err THEN NULL
       ELSE ArgsFrom(line, r.p, Append(argv, r.cur))

sdssplitargs(line) == ArgsFrom(line, 1, <<>>)

=============================================================================
