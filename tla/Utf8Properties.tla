--------------------------- MODULE Utf8Properties ---------------------------
(***************************************************************************)
(* The UTF-8 decoder on growing series of bytes.                           *)
(***************************************************************************)
EXTENDS Utf8

CONSTANTS
  Bytes,       \* the bytes that may follow
  Characters,  \* the characters whose encodings are compared
  MaxBytes     \* bound: bytes in all

ASSUME Utf8Assumption ==
  /\ Bytes \subseteq 0 .. 255
  /\ Characters \subseteq Nat
  /\ MaxBytes \in Nat

VARIABLE bytes

Init == bytes = <<>>
Next == /\ Len(bytes) < MaxBytes
        /\ \E b \in Bytes : bytes' = Append(bytes, b)

Spec == Init /\ [][Next]_bytes

Begins(prefix) == Len(prefix) <= Len(bytes) /\ SubSeq(bytes, 1, Len(prefix)) = prefix

\* Strict decoding (Unicode.cpp:19-66): what is taken for a character of n bytes
\* is the one encoding of it, neither too long nor a surrogate nor too large, and
\* what is not costs a byte and is U+FFFD; and no encoding is refused.
DecodingExact ==
  LET d == DecodeNext(bytes)
  IN /\ d.complete =>
          \/ /\ IsScalar(d.character) /\ Begins(Encode(d.character))
             /\ d.length = Len(Encode(d.character))
          \/ d.character = Replacement /\ d.length = 1
     /\ \A c \in Characters :
          IsScalar(c) /\ Begins(Encode(c)) =>
            d = [character |-> c, length |-> Len(Encode(c)), complete |-> TRUE]

\* A result, once there, does not change with the bytes that follow, so that a
\* caller may act on it and forget the bytes; and it is there with the fourth
\* byte at the latest: a byte that only seems to begin a character delays what
\* comes after it by three bytes and no more.  It does delay it by as many bytes
\* as it announces, also when the next one refutes it (Unicode.cpp:49).
ResultStable ==
  [][/\ DecodeNext(bytes).complete => DecodeNext(bytes') = DecodeNext(bytes)
     /\ Len(bytes) >= 3 => DecodeNext(bytes').complete]_bytes

\* The characters of a text, and the bytes between them that are none.
Decoded(text) ==
  LET from[i \in 1 .. Len(text) + 1] ==
        IF i > Len(text) THEN <<>>
        ELSE LET d == DecodeNext(SubSeq(text, i, Len(text)))
             IN <<d>> \o from[i + (IF d.complete THEN d.length ELSE 1)]
  IN from[1]

\* No title ends the OSC sequence that it is written into, or begins another
\* one: what is left of any bytes is text in UTF-8 without a control character,
\* however it is looked at, and a title that is such text already is left alone
\* (Unicode.cpp:120-139, PosixTerminal.cpp:75-86).
TitlesClean ==
  LET title == SanitizeTitle(bytes)
      IsText(t) == \A i \in DOMAIN Decoded(t) :
                     /\ Decoded(t)[i].complete
                     /\ Decoded(t)[i].character \notin 0 .. 31 \cup 127 .. 159
      Undamaged(t) == \A i \in DOMAIN Decoded(t) :
                        Decoded(t)[i].character = Replacement => Decoded(t)[i].length = 3
  IN /\ IsText(title) /\ Undamaged(title)
     /\ IsText(bytes) /\ Undamaged(bytes) => title = bytes
=============================================================================
