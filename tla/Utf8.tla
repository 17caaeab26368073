---- MODULE Utf8 ----
(***************************************************************************)
(* Unicode in UTF-8 and UTF-16 (src/src/utils/Utf8.cpp).  A text is a      *)
(* sequence of bytes, or of 16-bit units; a read at position p gives the   *)
(* character and the position behind it.  The end of the sequence is the   *)
(* bound; TooLarge stands for every value of more than 31 bits.            *)
(***************************************************************************)
EXTENDS Integers, Sequences, FiniteSets

TooLarge == -1
ReplacementCharacter == 65533

(* The largest value of n bytes, n in 1..6.                                *)
Most == <<127, 2047, 65535, 2097151, 67108863, 2147483647>>
(* What the first byte of n adds to the leading bits of the value.         *)
Lead == <<0, 192, 224, 240, 248, 252>>
Pow64 == <<1, 64, 4096, 262144, 16777216, 1073741824>>

SizeOfUtf8(c) ==
    IF c = TooLarge THEN 3 ELSE CHOOSE n \in 1..6 : c <= Most[n] /\ (n > 1 => c > Most[n - 1])

SizeOfUtf16(c) == IF 65535 < c /\ c <= 1114111 THEN 4 ELSE 2

(* How long the character that begins with this byte says it is.           *)
IndicatedLength(byte) ==
    IF byte < 192 \/ byte >= 254 THEN 1
    ELSE CHOOSE n \in 2..6 : Lead[n] <= byte /\ (n < 6 => byte < Lead[n + 1])

IsContinuation(byte) == byte \in 128..191

(* Surrogates and noncharacters.                                           *)
IsForbiddenCharacter(c) == c \in 55296..57343 \union 64976..65007 \union {65534, 65535}

RECURSIVE ValueOf(_)
ValueOf(bytes) ==       \* the bits of the first byte and of its continuation
    IF Len(bytes) = 1 THEN 0
    ELSE (bytes[2] % 64) * Pow64[Len(bytes) - 1] + ValueOf(Tail(bytes))

(* A byte that begins no character, a character that the bound cuts off, a *)
(* byte that does not continue it, a form longer than needed, a forbidden  *)
(* value: each gives the replacement character.                            *)
ReadUtf8(text, p) ==
    LET byte == text[p]
        n    == IndicatedLength(byte)
        bad  == {i \in 1..n - 1 : ~IsContinuation(text[p + i])}
        c    == (byte - Lead[n]) * Pow64[n] + ValueOf(SubSeq(text, p, p + n - 1))
    IN  IF p > Len(text) THEN <<0, p>>
        ELSE IF byte < 128 THEN <<byte, p + 1>>
        ELSE IF n = 1 THEN <<ReplacementCharacter, p + 1>>
        ELSE IF p + n - 1 > Len(text) THEN <<ReplacementCharacter, Len(text) + 1>>
        ELSE IF bad # {} THEN <<ReplacementCharacter, p + (CHOOSE i \in bad : \A j \in bad : i <= j)>>
        ELSE IF c <= Most[n - 1] \/ IsForbiddenCharacter(c) THEN <<ReplacementCharacter, p + n>>
        ELSE <<c, p + n>>

(* The first byte at or before p - 1 that does not continue a character.   *)
PreviousUtf8(text, p) ==
    LET starts == {i \in 1..p - 1 : ~IsContinuation(text[i])}
    IN  IF starts = {} THEN 1 ELSE CHOOSE i \in starts : \A j \in starts : j <= i

(* The bytes of a character, in a buffer with room for so many.  Forbidden *)
(* values are written as they are.                                         *)
WriteUtf8(c, room) ==
    LET n     == SizeOfUtf8(c)
        value == IF c = TooLarge THEN ReplacementCharacter ELSE c
    IN  IF room < n THEN <<>>
        ELSE [i \in 1..n |-> IF i = 1 THEN Lead[n] + (value \div Pow64[n])
                             ELSE 128 + ((value \div Pow64[n - i + 1]) % 64)]

IsHigh(unit) == unit \in 55296..56319
IsLow(unit)  == unit \in 56320..57343

(* A surrogate without its partner is read as it stands.                   *)
ReadUtf16(text, p) ==
    IF p > Len(text) THEN <<0, p>>
    ELSE IF IsHigh(text[p]) /\ p < Len(text) /\ IsLow(text[p + 1])
    THEN <<65536 + (text[p] - 55296) * 1024 + (text[p + 1] - 56320), p + 2>>
    ELSE <<text[p], p + 1>>

WriteUtf16(c, room) ==
    LET value == IF c = TooLarge \/ c > 1114111 THEN ReplacementCharacter ELSE c
    IN  IF 2 * room < SizeOfUtf16(value) THEN <<>>
        ELSE IF value <= 65535 THEN <<value>>
        ELSE <<55296 + ((value - 65536) \div 1024), 56320 + ((value - 65536) % 1024)>>

----
(***************************************************************************)
(* What was written is read back, as the same character or, where Utf8.h   *)
(* asks for it, as the replacement character; its length is the one that   *)
(* was announced, the byte before its end leads back to its beginning, and *)
(* a buffer one byte too small is left alone.                              *)
(***************************************************************************)
WrittenIsRead(c) ==
    LET bytes == WriteUtf8(c, 6)
        units == WriteUtf16(c, 2)
        n     == Len(bytes)
    IN  /\ n = SizeOfUtf8(c) /\ n = IndicatedLength(bytes[1])
        /\ WriteUtf8(c, n - 1) = <<>>
        /\ ReadUtf8(bytes, 1) =
             <<IF c = TooLarge \/ IsForbiddenCharacter(c) THEN ReplacementCharacter ELSE c, n + 1>>
        /\ PreviousUtf8(bytes, n + 1) = 1
        /\ 2 * Len(units) = SizeOfUtf16(c)
        /\ ReadUtf16(units, 1) =
             <<IF c = TooLarge \/ c > 1114111 THEN ReplacementCharacter ELSE c, Len(units) + 1>>

(***************************************************************************)
(* Whatever the bytes are, a read moves on, never past the bound and never *)
(* past the next byte that begins a character, so that one bad character   *)
(* costs no good one (except at the bound, where all that is left goes     *)
(* with a character that runs past it); and no value is read that has a    *)
(* shorter or no form.                                                     *)
(***************************************************************************)
ReadsOn(bytes) ==
    \A p \in DOMAIN bytes :
        LET c    == ReadUtf8(bytes, p)[1]
            next == ReadUtf8(bytes, p)[2]
        IN  /\ next \in p + 1..Len(bytes) + 1
            /\ (\A i \in p + 1..next - 1 : IsContinuation(bytes[i]))
                 \/ (next = Len(bytes) + 1 /\ p + IndicatedLength(bytes[p]) > next)
            /\ c # ReplacementCharacter => WriteUtf8(c, 6) = SubSeq(bytes, p, next - 1)
====
