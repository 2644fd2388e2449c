-------------------------------- MODULE Utf8 --------------------------------
(***************************************************************************)
(* detail/Unicode.cpp: the strict UTF-8 decoder that terminal input goes   *)
(* through, and the encoder that textInput() and the renderer use.  Bytes  *)
(* are numbers below 256, characters are code points.                      *)
(***************************************************************************)
EXTENDS Naturals, Sequences, SequencesExt

Replacement == 65533

\* isValidUnicodeScalar(): no surrogate and nothing beyond U+10FFFF.
IsScalar(c) == c <= 1114111 /\ ~(c >= 55296 /\ c <= 57343)

\* What a first byte announces; zero for a byte that begins nothing.
SequenceLength(first) ==
  CASE first < 128 -> 1
    [] first \in 194 .. 223 -> 2
    [] first \in 224 .. 239 -> 3
    [] first \in 240 .. 244 -> 4
    [] OTHER -> 0

\* The payload bits of a first byte, and the least character that needs the
\* length it announces.
Payload(first, length) == first % (2 ^ (7 - length))
NoLeast(length) == 0
Least(length) == CASE length = 2 -> 128 [] length = 3 -> 2048 [] length = 4 -> 65536

IsContinuation(b) == b \in 128 .. 191

Malformed == [character |-> Replacement, length |-> 1, complete |-> TRUE]
Incomplete == [character |-> Replacement, length |-> 0, complete |-> FALSE]

\* The payload of a series of n bytes, six bits from each that continues it.
AddBits(bits, b) == bits * 64 + (b % 64)
Value(bytes, n) == FoldLeft(AddBits, Payload(bytes[1], n), SubSeq(bytes, 2, n))

\* A series of n bytes is a character only as the encoding of it.
DecodeWhole(bytes, n) ==
  LET c == Value(bytes, n)
  IN IF /\ \A i \in 2 .. n : IsContinuation(bytes[i])
        /\ c >= Least(n)
        /\ IsScalar(c)
     THEN [character |-> c, length |-> n, complete |-> TRUE]
     ELSE Malformed

\* decodeNextUtf8() for the bytes from its offset on: a malformed sequence
\* costs one byte, an incomplete one waits, whatever its bytes are so far.
DecodeHasty(bytes) ==
  IF bytes = <<>> THEN Incomplete
  ELSE LET n == SequenceLength(bytes[1])
       IN IF n = 0 \/ n > Len(bytes) THEN Malformed
          ELSE IF n = 1 THEN [character |-> bytes[1], length |-> 1, complete |-> TRUE]
          ELSE DecodeWhole(bytes, n)

DecodeNext(bytes) ==
  IF bytes = <<>> THEN Incomplete
  ELSE LET n == SequenceLength(bytes[1])
       IN IF n = 0 THEN Malformed
          ELSE IF n > Len(bytes) THEN Incomplete
          ELSE IF n = 1 THEN [character |-> bytes[1], length |-> 1, complete |-> TRUE]
          ELSE DecodeWhole(bytes, n)

\* encodeUtf8(): what is no scalar becomes U+FFFD.
Encode(character) ==
  LET c == IF IsScalar(character) THEN character ELSE Replacement
      Low(k) == 128 + ((c \div 64 ^ k) % 64)
  IN IF c < 128 THEN <<c>>
     ELSE IF c < 2048 THEN <<192 + c \div 64, Low(0)>>
     ELSE IF c < 65536 THEN <<224 + c \div 4096, Low(1), Low(0)>>
     ELSE <<240 + c \div 262144, Low(2), Low(1), Low(0)>>

\* sanitizeTerminalTitle(): C0 and C1 control characters are dropped, what is
\* malformed or cut off at the end becomes U+FFFD.
PrintableAscii(c) == c >= 32 /\ c # 127
Printable(c) == c >= 32 /\ c \notin 127 .. 159

SanitizeTitle(title) ==
  LET from[i \in 1 .. Len(title) + 1] ==
        IF i > Len(title) THEN <<>>
        ELSE LET d == DecodeNext(SubSeq(title, i, Len(title)))
                 n == IF d.complete THEN d.length ELSE 1
             IN (IF Printable(d.character) THEN Encode(d.character) ELSE <<>>) \o from[i + n]
  IN from[1]
=============================================================================
