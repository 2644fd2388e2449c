----------------------------- MODULE Text_proofs -----------------------------
(***************************************************************************)
(* Proofs that the UTF-8 decoder takes every encoding for its character    *)
(* and nothing else, that what it has decoded is final, that no title      *)
(* carries a control character, for bytes of any number, and that the loop *)
(* that wraps a text makes the lines its paragraphs and words demand, for  *)
(* texts of every length that is an int.                                   *)
(***************************************************************************)
EXTENDS Utf8Properties, WrappedTextProperties, Utf8_proofs

LEMMA BytesTyped == Spec => [](bytes \in Seq(Byte))
<1>1. Init => bytes \in Seq(Byte)
  BY DEF Init
<1>2. bytes \in Seq(Byte) /\ [Next]_bytes => (bytes \in Seq(Byte))'
  <2>1. Bytes \subseteq Byte
    BY Utf8Assumption DEF Byte
  <2> QED BY <2>1 DEF Next
<1> QED BY <1>1, <1>2, PTL DEF Spec

\* Strict decoding: whatever the bytes are, what is taken for a character is
\* the encoding of it, and every encoding is taken for its character.
THEOREM Decoding == Spec => []DecodingExact
<1>1. bytes \in Seq(Byte) => DecodingExact
  <2> SUFFICES ASSUME bytes \in Seq(Byte) PROVE DecodingExact
    OBVIOUS
  <2>1. \A prefix : Begins(prefix) <=> Starts(bytes, prefix)
    BY DEF Begins, Starts
  <2>2. ASSUME DecodeNext(bytes).complete
        PROVE  LET d == DecodeNext(bytes)
               IN \/ /\ IsScalar(d.character) /\ Begins(Encode(d.character))
                     /\ d.length = Len(Encode(d.character))
                  \/ d.character = Replacement /\ d.length = 1
    BY <2>1, <2>2, DecodeSound
  <2>3. ASSUME NEW c \in Characters, IsScalar(c), Begins(Encode(c))
        PROVE  DecodeNext(bytes) = [character |-> c, length |-> Len(Encode(c)), complete |-> TRUE]
    <3>1. c \in Nat
      BY Utf8Assumption
    <3> QED BY <2>1, <2>3, <3>1, EncodingDecoded
  <2> QED BY <2>2, <2>3 DEF DecodingExact
<1> QED BY <1>1, BytesTyped, PTL

\* Four bytes decide, whatever the first of them announces.
LEMMA FourDecide ==
  ASSUME NEW s \in Seq(Byte), Len(s) >= 4
  PROVE  DecodeNext(s).complete
<1> DEFINE n == SequenceLength(s[1])
<1>1. Len(s) \in Nat /\ s # << >> /\ s[1] \in Byte
  OBVIOUS
<1>2. n \in {0, 1, 2, 3, 4}
  BY <1>1, FirstBytes, Zenon
<1>3. /\ n = 0 => DecodeNext(s) = Malformed
      /\ n = 1 => DecodeNext(s) = [character |-> s[1], length |-> 1, complete |-> TRUE]
      /\ n \in 2 .. Len(s) => DecodeNext(s) = DecodeWhole(s, n)
  BY <1>1, DecodeCases
<1>4. DecodeWhole(s, n).complete
  BY WholeCases DEF Malformed
<1> HIDE DEF n
<1>5. n = 0 \/ n = 1 \/ n \in 2 .. Len(s)
  BY <1>1, <1>2
<1> QED BY <1>3, <1>4, <1>5 DEF Malformed

\* A result of the decoder does not change with the bytes that follow, and is
\* there with the fourth byte (decodeNextUtf8()).
THEOREM ResultsFinal == Spec => ResultStable
<1> DEFINE Final ==
             /\ DecodeNext(bytes).complete => DecodeNext(bytes') = DecodeNext(bytes)
             /\ Len(bytes) >= 3 => DecodeNext(bytes').complete
<1>1. bytes \in Seq(Byte) /\ [Next]_bytes => [Final]_bytes
  <2> SUFFICES ASSUME bytes \in Seq(Byte), Next PROVE Final
    OBVIOUS
  <2>1. PICK b \in Bytes : bytes' = Append(bytes, b)
    BY DEF Next
  <2>2. b \in Byte
    BY Utf8Assumption DEF Byte
  <2>3. bytes' \in Seq(Byte) /\ Starts(bytes', bytes) /\ Len(bytes') = Len(bytes) + 1
    BY <2>1, <2>2, StartsAppended
  <2>4. DecodeNext(bytes).complete => DecodeNext(bytes') = DecodeNext(bytes)
    BY <2>3, DecodeStable
  <2>5. Len(bytes) >= 3 => DecodeNext(bytes').complete
    <3>1. Len(bytes) >= 3 => Len(bytes') >= 4
      BY <2>3
    <3> QED BY <2>3, <3>1, FourDecide
  <2> QED BY <2>4, <2>5
<1> QED BY <1>1, BytesTyped, PTL DEF Spec, ResultStable
-----------------------------------------------------------------------------
(* Titles.                                                                 *)

\* What one step of sanitizeTerminalTitle() uses, keeps and sees.
Eaten(s) == IF DecodeNext(s).complete THEN DecodeNext(s).length ELSE 1
Eating == [s \in Seq(Byte) |-> Eaten(s)]

Kept(s) == IF Printable(DecodeNext(s).character) THEN Encode(DecodeNext(s).character) ELSE << >>
Keeping == [p \in Seq(Byte) \X Seq(Byte) |-> Kept(p[1]) \o p[2]]

Results == {DecodeNext(s) : s \in Seq(Byte)}
Seeing == [p \in Seq(Byte) \X Seq(Results) |-> <<DecodeNext(p[1])>> \o p[2]]

LEMMA EatenTyped == Eats(Eating, Byte)
<1>1. ASSUME NEW s \in Seq(Byte)
      PROVE  Eaten(s) \in Nat /\ (s # << >> => Eaten(s) >= 1 /\ Eaten(s) <= Len(s))
  <2>1. Len(s) \in Nat /\ (s # << >> => 1 <= Len(s))
    OBVIOUS
  <2>2. DecodeNext(s).complete => DecodeNext(s).length \in 1 .. Len(s)
    BY DecodeLength
  <2> QED BY <2>1, <2>2 DEF Eaten
<1> QED BY <1>1 DEF Eats, Eating

LEMMA KeptTyped == Keeping \in [Seq(Byte) \X Seq(Byte) -> Seq(Byte)]
<1>1. ASSUME NEW s \in Seq(Byte) PROVE Kept(s) \in Seq(Byte)
  BY DecodeScalar, EncodeTyped DEF Kept
<1> QED BY <1>1 DEF Keeping

LEMMA SeenTyped == Seeing \in [Seq(Byte) \X Seq(Results) -> Seq(Results)]
<1>1. ASSUME NEW s \in Seq(Byte) PROVE <<DecodeNext(s)>> \in Seq(Results)
  BY DEF Results
<1> QED BY <1>1 DEF Seeing

LEMMA SanitizeScans ==
  ASSUME NEW t \in Seq(Byte)
  PROVE  \E f : Scans(f, Seq(Byte), t, << >>, Eating, Keeping) /\ SanitizeTitle(t) = f[1]
<1> DEFINE n == Len(t)
           Part(i, from) == Kept(Suffix(t, i)) \o from[i + Eaten(Suffix(t, i))]
           P(from) == from = [i \in 1 .. n + 1 |-> IF i > n THEN << >> ELSE Part(i, from)]
           c == CHOOSE from : P(from)
<1>1. n \in Nat /\ << >> \in Seq(Byte)
  OBVIOUS
<1>2. SanitizeTitle(t) = c[1]
  BY DEF SanitizeTitle, Kept, Eaten, Suffix
<1>3. PICK f : Scans(f, Seq(Byte), t, << >>, Eating, Keeping)
  BY <1>1, EatenTyped, KeptTyped, ScanExists
<1>4. ASSUME NEW i \in 1 .. n
      PROVE  f[i] = Part(i, f) /\ Eating[Suffix(t, i)] = Eaten(Suffix(t, i))
  <2>1. i \in 1 .. Len(t) + 1 /\ ~(i > Len(t))
    BY <1>1
  <2>2. /\ Suffix(t, i) \in Seq(Byte) /\ Suffix(t, i) # << >>
        /\ Len(Suffix(t, i)) = n + 1 - i
    BY <2>1, SuffixFacts
  <2>3. Eating[Suffix(t, i)] = Eaten(Suffix(t, i))
    BY <2>2 DEF Eating
  <2>4. i + Eaten(Suffix(t, i)) \in 1 .. n + 1
    <3>1. Eating[Suffix(t, i)] \in Nat /\ Eating[Suffix(t, i)] >= 1
          /\ Eating[Suffix(t, i)] <= n + 1 - i
      BY <2>2, EatenTyped DEF Eats
    <3> QED BY <1>1, <2>3, <3>1
  <2>5. f[i] = Keeping[<<Suffix(t, i), f[i + Eaten(Suffix(t, i))]>>]
    BY <1>3, <2>1, <2>3 DEF Scans
  <2>6. f[i + Eaten(Suffix(t, i))] \in Seq(Byte)
    BY <1>3, <2>4 DEF Scans
  <2>7. f[i] = Part(i, f)
    BY <2>2, <2>5, <2>6 DEF Keeping
  <2> QED BY <2>3, <2>7
<1>5. P(f)
  <2>1. f = [i \in 1 .. n + 1 |-> f[i]]
    BY <1>3 DEF Scans
  <2>2. \A i \in 1 .. n + 1 : i > n => f[i] = << >>
    BY <1>3 DEF Scans
  <2>3. \A i \in 1 .. n + 1 : ~(i > n) => i \in 1 .. n
    BY <1>1
  <2> HIDE DEF Part
  <2>4. \A i \in 1 .. n + 1 : f[i] = IF i > n THEN << >> ELSE Part(i, f)
    BY <1>4, <2>2, <2>3
  <2> QED BY <2>1, <2>4
<1>6. P(c)
  <2> HIDE DEF P
  <2> QED BY <1>5, Zenon
<1> HIDE DEF c
<1>7. c[n + 1] = << >>
  BY <1>1, <1>6
<1>8. \A i \in 1 .. n :
        LET w == i + Eating[Suffix(t, i)] IN c[w] = f[w] => c[i] = f[i]
  <2> SUFFICES ASSUME NEW i \in 1 .. n, c[i + Eating[Suffix(t, i)]] = f[i + Eating[Suffix(t, i)]]
               PROVE  c[i] = f[i]
    OBVIOUS
  <2>1. c[i] = Part(i, c)
    <3>1. i \in 1 .. n + 1 /\ ~(i > n)
      BY <1>1
    <3> HIDE DEF Part
    <3> QED BY <1>6, <3>1
  <2>2. Part(i, c) = Part(i, f)
    BY <1>4
  <2> QED BY <1>4, <2>1, <2>2
<1>9. \A i \in 1 .. Len(t) + 1 : c[i] = f[i]
  <2>1. SameSteps(f, c, t, << >>, Eating)
    BY <1>7, <1>8 DEF SameSteps
  <2>2. SameValues(f, c, t)
    <3> HIDE DEF n, P
    <3> QED BY <1>1, <1>3, <2>1, EatenTyped, ScanUnique
  <2> QED BY <2>2 DEF SameValues
<1>10. 1 \in 1 .. Len(t) + 1
  BY <1>1
<1> QED BY <1>2, <1>3, <1>9, <1>10

LEMMA DecodedScans ==
  ASSUME NEW t \in Seq(Byte)
  PROVE  \E f : Scans(f, Seq(Results), t, << >>, Eating, Seeing) /\ Decoded(t) = f[1]
<1> DEFINE n == Len(t)
           Part(i, from) == <<DecodeNext(Suffix(t, i))>> \o from[i + Eaten(Suffix(t, i))]
           P(from) == from = [i \in 1 .. n + 1 |-> IF i > n THEN << >> ELSE Part(i, from)]
           c == CHOOSE from : P(from)
<1>1. n \in Nat /\ << >> \in Seq(Results)
  OBVIOUS
<1>2. Decoded(t) = c[1]
  BY DEF Decoded, Eaten, Suffix
<1>3. PICK f : Scans(f, Seq(Results), t, << >>, Eating, Seeing)
  BY <1>1, EatenTyped, SeenTyped, ScanExists
<1>4. ASSUME NEW i \in 1 .. n
      PROVE  f[i] = Part(i, f) /\ Eating[Suffix(t, i)] = Eaten(Suffix(t, i))
  <2>1. i \in 1 .. Len(t) + 1 /\ ~(i > Len(t))
    BY <1>1
  <2>2. /\ Suffix(t, i) \in Seq(Byte) /\ Suffix(t, i) # << >>
        /\ Len(Suffix(t, i)) = n + 1 - i
    BY <2>1, SuffixFacts
  <2>3. Eating[Suffix(t, i)] = Eaten(Suffix(t, i))
    BY <2>2 DEF Eating
  <2>4. i + Eaten(Suffix(t, i)) \in 1 .. n + 1
    <3>1. Eating[Suffix(t, i)] \in Nat /\ Eating[Suffix(t, i)] >= 1
          /\ Eating[Suffix(t, i)] <= n + 1 - i
      BY <2>2, EatenTyped DEF Eats
    <3> QED BY <1>1, <2>3, <3>1
  <2>5. f[i] = Seeing[<<Suffix(t, i), f[i + Eaten(Suffix(t, i))]>>]
    BY <1>3, <2>1, <2>3 DEF Scans
  <2>6. f[i + Eaten(Suffix(t, i))] \in Seq(Results)
    BY <1>3, <2>4 DEF Scans
  <2>7. f[i] = Part(i, f)
    BY <2>2, <2>5, <2>6 DEF Seeing
  <2> QED BY <2>3, <2>7
<1>5. P(f)
  <2>1. f = [i \in 1 .. n + 1 |-> f[i]]
    BY <1>3 DEF Scans
  <2>2. \A i \in 1 .. n + 1 : i > n => f[i] = << >>
    BY <1>3 DEF Scans
  <2>3. \A i \in 1 .. n + 1 : ~(i > n) => i \in 1 .. n
    BY <1>1
  <2> HIDE DEF Part
  <2>4. \A i \in 1 .. n + 1 : f[i] = IF i > n THEN << >> ELSE Part(i, f)
    BY <1>4, <2>2, <2>3
  <2> QED BY <2>1, <2>4
<1>6. P(c)
  <2> HIDE DEF P
  <2> QED BY <1>5, Zenon
<1> HIDE DEF c
<1>7. c[n + 1] = << >>
  BY <1>1, <1>6
<1>8. \A i \in 1 .. n :
        LET w == i + Eating[Suffix(t, i)] IN c[w] = f[w] => c[i] = f[i]
  <2> SUFFICES ASSUME NEW i \in 1 .. n, c[i + Eating[Suffix(t, i)]] = f[i + Eating[Suffix(t, i)]]
               PROVE  c[i] = f[i]
    OBVIOUS
  <2>1. c[i] = Part(i, c)
    <3>1. i \in 1 .. n + 1 /\ ~(i > n)
      BY <1>1
    <3> HIDE DEF Part
    <3> QED BY <1>6, <3>1
  <2>2. Part(i, c) = Part(i, f)
    BY <1>4
  <2> QED BY <1>4, <2>1, <2>2
<1>9. \A i \in 1 .. Len(t) + 1 : c[i] = f[i]
  <2>1. SameSteps(f, c, t, << >>, Eating)
    BY <1>7, <1>8 DEF SameSteps
  <2>2. SameValues(f, c, t)
    <3> HIDE DEF n, P
    <3> QED BY <1>1, <1>3, <2>1, EatenTyped, ScanUnique
  <2> QED BY <2>2 DEF SameValues
<1>10. 1 \in 1 .. Len(t) + 1
  BY <1>1
<1> QED BY <1>2, <1>3, <1>9, <1>10

LEMMA RestOfText ==
  ASSUME NEW t \in Seq(Byte), t # << >>
  PROVE  /\ Eating[t] = Eaten(t) /\ Suffix(t, 1 + Eaten(t)) \in Seq(Byte)
         /\ Len(Suffix(t, 1 + Eaten(t))) < Len(t)
         /\ Len(Suffix(t, 1 + Eaten(t))) = Len(t) - Eaten(t)
         /\ Eaten(t) \in Nat /\ Len(t) \in Nat
<1>1. Eating[t] = Eaten(t)
  BY DEF Eating
<1>2. Eaten(t) \in Nat /\ Eaten(t) >= 1 /\ Eaten(t) <= Len(t)
  BY <1>1, EatenTyped DEF Eats
<1>3. 1 + Eaten(t) \in 1 .. Len(t) + 1 /\ Len(t) \in Nat
  BY <1>2
<1>4. /\ Suffix(t, 1 + Eaten(t)) \in Seq(Byte)
      /\ Len(Suffix(t, 1 + Eaten(t))) = Len(t) + 1 - (1 + Eaten(t))
  BY <1>3, SuffixFacts
<1> QED BY <1>1, <1>2, <1>3, <1>4

LEMMA SanitizeStep ==
  ASSUME NEW t \in Seq(Byte)
  PROVE  /\ SanitizeTitle(t) \in Seq(Byte)
         /\ t = << >> => SanitizeTitle(t) = << >>
         /\ t # << >> => SanitizeTitle(t) = Kept(t) \o SanitizeTitle(Suffix(t, 1 + Eaten(t)))
<1>1. PICK f : Scans(f, Seq(Byte), t, << >>, Eating, Keeping) /\ SanitizeTitle(t) = f[1]
  BY SanitizeScans
<1>2. 1 \in 1 .. Len(t) + 1
  OBVIOUS
<1>3. SanitizeTitle(t) \in Seq(Byte)
  BY <1>1, <1>2 DEF Scans
<1>4. t = << >> => SanitizeTitle(t) = << >>
  BY <1>1, ScanOfNone
<1>5. ASSUME t # << >>
      PROVE SanitizeTitle(t) = Kept(t) \o SanitizeTitle(Suffix(t, 1 + Eaten(t)))
  <2> DEFINE u == Suffix(t, 1 + Eaten(t))
  <2>1. u \in Seq(Byte) /\ u = Suffix(t, 1 + Eating[t])
    BY <1>5, RestOfText
  <2>2. PICK g : Scans(g, Seq(Byte), u, << >>, Eating, Keeping) /\ SanitizeTitle(u) = g[1]
    <3> HIDE DEF u
    <3> QED BY <2>1, SanitizeScans
  <2>3. << >> \in Seq(Byte) /\ Scans(g, Seq(Byte), Suffix(t, 1 + Eating[t]), << >>, Eating, Keeping)
    BY <2>1, <2>2
  <2>4. f[1] = Keeping[<<t, g[1]>>] /\ g[1] \in Seq(Byte)
    BY <1>1, <1>5, <2>3, EatenTyped, ScanStep
  <2>5. Keeping[<<t, g[1]>>] = Kept(t) \o g[1]
    BY <2>4 DEF Keeping
  <2> QED BY <1>1, <2>2, <2>4, <2>5
<1> QED BY <1>3, <1>4, <1>5

LEMMA DecodedStep ==
  ASSUME NEW t \in Seq(Byte)
  PROVE  /\ Decoded(t) \in Seq(Results)
         /\ t = << >> => Decoded(t) = << >>
         /\ t # << >> => Decoded(t) = <<DecodeNext(t)>> \o Decoded(Suffix(t, 1 + Eaten(t)))
<1>1. PICK f : Scans(f, Seq(Results), t, << >>, Eating, Seeing) /\ Decoded(t) = f[1]
  BY DecodedScans
<1>2. 1 \in 1 .. Len(t) + 1
  OBVIOUS
<1>3. Decoded(t) \in Seq(Results)
  BY <1>1, <1>2 DEF Scans
<1>4. t = << >> => Decoded(t) = << >>
  BY <1>1, ScanOfNone
<1>5. ASSUME t # << >>
      PROVE Decoded(t) = <<DecodeNext(t)>> \o Decoded(Suffix(t, 1 + Eaten(t)))
  <2> DEFINE u == Suffix(t, 1 + Eaten(t))
  <2>1. u \in Seq(Byte) /\ u = Suffix(t, 1 + Eating[t])
    BY <1>5, RestOfText
  <2>2. PICK g : Scans(g, Seq(Results), u, << >>, Eating, Seeing) /\ Decoded(u) = g[1]
    <3> HIDE DEF u
    <3> QED BY <2>1, DecodedScans
  <2>3. << >> \in Seq(Results) /\ Scans(g, Seq(Results), Suffix(t, 1 + Eating[t]), << >>, Eating, Seeing)
    BY <2>1, <2>2
  <2>4. f[1] = Seeing[<<t, g[1]>>] /\ g[1] \in Seq(Results)
    BY <1>1, <1>5, <2>3, EatenTyped, ScanStep
  <2>5. Seeing[<<t, g[1]>>] = <<DecodeNext(t)>> \o g[1]
    BY <2>4 DEF Seeing
  <2> QED BY <1>1, <2>2, <2>4, <2>5
<1> QED BY <1>3, <1>4, <1>5

\* Text without a control character, and without a U+FFFD that stands for a
\* byte that is none.
Legible(d) ==
  /\ d.complete
  /\ d.character \notin 0 .. 31 \cup 127 .. 159
  /\ d.character = Replacement => d.length = 3

Clean(t) == \A i \in DOMAIN Decoded(t) : Legible(Decoded(t)[i])

LEMMA CleanStep ==
  ASSUME NEW t \in Seq(Byte)
  PROVE  /\ t = << >> => Clean(t)
         /\ t # << >> =>
              (Clean(t) <=> Legible(DecodeNext(t)) /\ Clean(Suffix(t, 1 + Eaten(t))))
<1>1. t = << >> => Clean(t)
  <2>1. t = << >> => Decoded(t) = << >>
    BY DecodedStep
  <2>2. DOMAIN << >> = {}
    OBVIOUS
  <2> QED BY <2>1, <2>2 DEF Clean
<1>2. ASSUME t # << >>
      PROVE Clean(t) <=> Legible(DecodeNext(t)) /\ Clean(Suffix(t, 1 + Eaten(t)))
  <2> DEFINE u == Suffix(t, 1 + Eaten(t))
             d == DecodeNext(t)
             r == Decoded(u)
             q == Decoded(t)
  <2>1. u \in Seq(Byte) /\ d \in Results
    BY <1>2, RestOfText DEF Results
  <2>2. r \in Seq(Results) /\ q = <<d>> \o r
    <3> HIDE DEF u
    <3>1. r \in Seq(Results)
      BY <2>1, DecodedStep
    <3> QED BY <1>2, <3>1, DecodedStep DEF u
  <2> HIDE DEF u, d, r, q
  <2>3. /\ Len(r) \in Nat /\ DOMAIN r = 1 .. Len(r) /\ DOMAIN q = 1 .. Len(r) + 1
        /\ q[1] = d /\ \A i \in 1 .. Len(r) : q[i + 1] = r[i]
    BY <2>1, <2>2
  <2>4. (\A i \in DOMAIN q : Legible(q[i])) <=> Legible(d) /\ \A i \in DOMAIN r : Legible(r[i])
    <3>1. ASSUME \A i \in DOMAIN q : Legible(q[i])
          PROVE  Legible(d) /\ \A i \in DOMAIN r : Legible(r[i])
      <4>1. 1 \in DOMAIN q /\ \A i \in DOMAIN r : i + 1 \in DOMAIN q /\ q[i + 1] = r[i]
        BY <2>3
      <4> QED BY <2>3, <3>1, <4>1
    <3>2. ASSUME Legible(d), \A i \in DOMAIN r : Legible(r[i]), NEW i \in DOMAIN q
          PROVE  Legible(q[i])
      <4>1. i = 1 \/ (i - 1 \in 1 .. Len(r) /\ (i - 1) + 1 = i)
        BY <2>3
      <4>2. CASE i = 1
        BY <2>3, <3>2, <4>2
      <4>3. CASE i - 1 \in 1 .. Len(r) /\ (i - 1) + 1 = i
        <5>1. q[(i - 1) + 1] = r[i - 1] /\ i - 1 \in DOMAIN r
          BY <2>3, <4>3
        <5>2. q[i] = r[i - 1]
          BY <4>3, <5>1
        <5> QED BY <3>2, <5>1, <5>2
      <4> QED BY <4>1, <4>2, <4>3
    <3> QED BY <3>1, <3>2
  <2>5. Clean(t) <=> \A i \in DOMAIN q : Legible(q[i])
    BY DEF Clean, q
  <2>6. Clean(u) <=> \A i \in DOMAIN r : Legible(r[i])
    BY DEF Clean, r
  <2> QED BY <2>4, <2>5, <2>6 DEF u, d
<1> QED BY <1>1, <1>2

\* A printable character before clean text leaves it clean.
LEMMA CleanEncoding ==
  ASSUME NEW c \in Nat, IsScalar(c), Printable(c), NEW u \in Seq(Byte), Clean(u)
  PROVE  Clean(Encode(c) \o u)
<1> DEFINE e == Encode(c)
           t == e \o u
<1>1. e \in Seq(Byte) /\ Len(e) \in 1 .. 4
  BY EncodeTyped
<1>2. t \in Seq(Byte) /\ Starts(t, e) /\ Suffix(t, 1 + Len(e)) = u
  <2> HIDE DEF e
  <2> QED BY <1>1, Appended
<1>3. t # << >>
  <2> HIDE DEF e
  <2>1. Len(t) = Len(e) + Len(u) /\ Len(u) \in Nat
    BY <1>1
  <2>2. Len(t) # 0
    BY <1>1, <2>1
  <2> QED BY <2>2
<1> HIDE DEF t
<1>4. DecodeNext(t) = [character |-> c, length |-> Len(e), complete |-> TRUE]
  BY <1>2, EncodingDecoded
<1>5. Legible(DecodeNext(t))
  <2>1. c \notin 0 .. 31 \cup 127 .. 159
    BY SMT DEF Printable
  <2>2. c = Replacement => Len(e) = 3
    BY ReplacementFacts
  <2> QED BY <1>4, <2>1, <2>2 DEF Legible
<1>6. Eaten(t) = Len(e)
  BY <1>4 DEF Eaten
<1>7. Clean(t)
  BY <1>2, <1>3, <1>5, <1>6, CleanStep
<1> QED BY <1>7 DEF t

LEMMA SanitizedClean == \A t \in Seq(Byte) : Clean(SanitizeTitle(t))
<1> DEFINE K == {m \in Nat : \A t \in Seq(Byte) : Len(t) <= m => Clean(SanitizeTitle(t))}
<1>0. Clean(<< >>) /\ << >> \in Seq(Byte)
  <2>1. << >> \in Seq(Byte)
    OBVIOUS
  <2> QED BY <2>1, CleanStep
<1>1. 0 \in K
  <2>1. \A t \in Seq(Byte) : Len(t) <= 0 => t = << >>
    OBVIOUS
  <2> QED BY <1>0, <2>1, SanitizeStep
<1>2. ASSUME NEW m \in Nat, m \in K PROVE m + 1 \in K
  <2> SUFFICES ASSUME NEW t \in Seq(Byte), Len(t) <= m + 1 PROVE Clean(SanitizeTitle(t))
    OBVIOUS
  <2>1. CASE t = << >>
    BY <1>0, <2>1, SanitizeStep
  <2>2. CASE t # << >>
    <3> DEFINE u == Suffix(t, 1 + Eaten(t))
               c == DecodeNext(t).character
    <3>1. u \in Seq(Byte) /\ Len(u) <= m
      BY <2>2, RestOfText
    <3>2. SanitizeTitle(u) \in Seq(Byte) /\ Clean(SanitizeTitle(u))
      <4> HIDE DEF u
      <4> QED BY <1>2, <3>1, SanitizeStep
    <3>3. SanitizeTitle(t) = Kept(t) \o SanitizeTitle(u)
      BY <2>2, SanitizeStep
    <3>4. c \in Nat /\ IsScalar(c)
      BY DecodeScalar
    <3> HIDE DEF u
    <3>5. CASE Printable(c)
      <4>1. Kept(t) = Encode(c)
        BY <3>5 DEF Kept
      <4> HIDE DEF c
      <4> QED BY <3>2, <3>3, <3>4, <3>5, <4>1, CleanEncoding
    <3>6. CASE ~Printable(c)
      <4>1. Kept(t) = << >>
        BY <3>6 DEF Kept
      <4>2. << >> \o SanitizeTitle(u) = SanitizeTitle(u)
        BY <3>2
      <4> QED BY <3>2, <3>3, <4>1, <4>2
    <3> QED BY <3>5, <3>6
  <2> QED BY <2>1, <2>2
<1> HIDE DEF K
<1>3. \A m \in Nat : m \in K
  BY <1>1, <1>2, Induction, Zenon
<1>4. \A t \in Seq(Byte) : Len(t) \in Nat /\ Len(t) <= Len(t)
  OBVIOUS
<1> QED BY <1>3, <1>4 DEF K

LEMMA CleanUnchanged == \A t \in Seq(Byte) : Clean(t) => SanitizeTitle(t) = t
<1> DEFINE K == {m \in Nat : \A t \in Seq(Byte) : Len(t) <= m /\ Clean(t) => SanitizeTitle(t) = t}
<1>1. 0 \in K
  <2>1. \A t \in Seq(Byte) : Len(t) <= 0 => t = << >>
    OBVIOUS
  <2> QED BY <2>1, SanitizeStep
<1>2. ASSUME NEW m \in Nat, m \in K PROVE m + 1 \in K
  <2> SUFFICES ASSUME NEW t \in Seq(Byte), Len(t) <= m + 1, Clean(t) PROVE SanitizeTitle(t) = t
    OBVIOUS
  <2>1. CASE t = << >>
    BY <2>1, SanitizeStep
  <2>2. CASE t # << >>
    <3> DEFINE u == Suffix(t, 1 + Eaten(t))
               d == DecodeNext(t)
               c == d.character
    <3>1. u \in Seq(Byte) /\ Len(u) <= m
      BY <2>2, RestOfText
    <3>2. Legible(d) /\ Clean(u)
      BY <2>2, CleanStep
    <3>3. SanitizeTitle(u) = u
      <4> HIDE DEF u
      <4> QED BY <1>2, <3>1, <3>2
    <3>4. SanitizeTitle(t) = Kept(t) \o u
      BY <2>2, <3>3, SanitizeStep
    <3>5. c \in Nat /\ IsScalar(c)
      BY DecodeScalar
    <3>6. d.complete /\ Starts(t, Encode(c)) /\ d.length = Len(Encode(c))
      <4>1. d.complete /\ (c = Replacement => d.length = 3)
        BY <3>2 DEF Legible
      <4>2. \/ Starts(t, Encode(c)) /\ d.length = Len(Encode(c))
            \/ c = Replacement /\ d.length = 1
        BY <4>1, DecodeSound
      <4> HIDE DEF d, c
      <4> QED BY <4>1, <4>2
    <3>7. Printable(c)
      <4>1. c \notin 0 .. 31 \cup 127 .. 159
        BY <3>2 DEF Legible
      <4> HIDE DEF c
      <4> QED BY <3>5, <4>1, SMT DEF Printable
    <3>8. Eaten(t) = Len(Encode(c)) /\ Kept(t) = Encode(c)
      BY <3>6, <3>7 DEF Eaten, Kept
    <3>9. Encode(c) \in Seq(Byte)
      BY <3>5, EncodeTyped
    <3> HIDE DEF c, d
    <3>10. t = Encode(c) \o Suffix(t, 1 + Len(Encode(c)))
      BY <3>6, <3>9, StartAndRest
    <3> QED BY <3>4, <3>8, <3>10
  <2> QED BY <2>1, <2>2
<1> HIDE DEF K
<1>3. \A m \in Nat : m \in K
  BY <1>1, <1>2, Induction, Zenon
<1>4. \A t \in Seq(Byte) : Len(t) \in Nat /\ Len(t) <= Len(t)
  OBVIOUS
<1> QED BY <1>3, <1>4 DEF K

\* What is written for a title is text without a control character, whatever
\* the title was, and a title that is such text is written as it is.
THEOREM Titles == Spec => []TitlesClean
<1>1. bytes \in Seq(Byte) => TitlesClean
  <2> SUFFICES ASSUME bytes \in Seq(Byte) PROVE TitlesClean
    OBVIOUS
  <2>1. \A t : Clean(t) <=>
          /\ \A i \in DOMAIN Decoded(t) :
               /\ Decoded(t)[i].complete
               /\ Decoded(t)[i].character \notin 0 .. 31 \cup 127 .. 159
          /\ \A i \in DOMAIN Decoded(t) :
               Decoded(t)[i].character = Replacement => Decoded(t)[i].length = 3
    BY Zenon DEF Clean, Legible
  <2>2. Clean(SanitizeTitle(bytes)) /\ (Clean(bytes) => SanitizeTitle(bytes) = bytes)
    BY SanitizedClean, CleanUnchanged
  <2> QED BY <2>1, <2>2, Zenon DEF TitlesClean
<1> QED BY <1>1, BytesTyped, PTL
-----------------------------------------------------------------------------
(* Wrapped text: the pieces of a word.                                     *)

Symbols == Letters \cup {Blank, Tab, Newline, Return}
Blanks == {Blank, Tab}

LEMMA Separators ==
  /\ Newline # Return /\ Newline # Blank /\ Newline # Tab
  /\ Return # Blank /\ Return # Tab
<1> DEFINE all == <<Blank, Tab, Newline, Return>>
<1>1. /\ all[1] = Blank /\ all[2] = Tab /\ all[3] = Newline /\ all[4] = Return
      /\ 1 \in DOMAIN all /\ 2 \in DOMAIN all /\ 3 \in DOMAIN all /\ 4 \in DOMAIN all
  OBVIOUS
<1>2. \A c, d \in DOMAIN all : all[c] = all[d] => c = d
  BY WrapAssumption
<1> HIDE DEF all
<1> QED BY <1>1, <1>2

\* Len(word) - 1 divided by the width, and what that makes of the pieces.
Divides(n, width, count) ==
  /\ count \in Nat /\ (n + width - 1) \div width = count + 1
  /\ count * width + 1 \in 1 .. n /\ (count + 1) * width >= n
  /\ \A i \in 1 .. count : /\ (i - 1) * width + 1 \in 1 .. n /\ i * width \in 1 .. n
                           /\ i * width - (i - 1) * width = width

LEMMA PieceBounds ==
  ASSUME NEW n \in Nat \ {0}, NEW width \in Nat \ {0}, NEW count, count = (n - 1) \div width
  PROVE  Divides(n, width, count)
<1> DEFINE more == (n + width - 1) \div width
<1>1. /\ count \in Int /\ count * width \in Int
      /\ count * width <= n - 1 /\ n - 1 < count * width + width
  OBVIOUS
<1>2. /\ more \in Int /\ more * width \in Int
      /\ more * width <= n + width - 1 /\ n + width - 1 < more * width + width
  OBVIOUS
<1> HIDE DEF more
<1>3. count >= 0
  <2>1. count < 0 => count * width + width <= 0
    BY <1>1
  <2> QED BY <1>1, <2>1
<1>4. more = count + 1
  <2>1. more <= count => more * width <= count * width
    BY <1>1, <1>2
  <2>2. more >= count + 2 => more * width >= count * width + width + width
    BY <1>1, <1>2
  <2> QED BY <1>1, <1>2, <2>1, <2>2
<1>5. (count + 1) * width = count * width + width
  BY <1>1
<1>6. ASSUME NEW i \in 1 .. count
      PROVE  /\ i * width \in Int /\ (i - 1) * width \in Int
             /\ i * width = (i - 1) * width + width
             /\ 0 <= (i - 1) * width /\ i * width <= count * width
  BY <1>1
<1>7. ASSUME NEW i \in 1 .. count
      PROVE  /\ (i - 1) * width + 1 \in 1 .. n /\ i * width \in 1 .. n
             /\ i * width - (i - 1) * width = width
  BY <1>1, <1>6
<1>8. count * width >= 0
  BY <1>1, <1>3
<1> QED BY <1>1, <1>3, <1>4, <1>5, <1>7, <1>8 DEF more, Divides

Full(width) == {s \in Seq(Symbols) : Len(s) = width}
\* The chunks of a word whose size is an int, and what is left of it.
Cuts(word, width) ==
  [i \in 1 .. (Len(word) - 1) \div width |-> SubSeq(word, (i - 1) * width + 1, i * width)]
Rest(word, width) == SubSeq(word, Len(Cuts(word, width)) * width + 1, Len(word))

LEMMA LeastOf == ASSUME NEW a \in Int, NEW b \in Int, a <= b PROVE Min({a, b}) = a /\ Min({b, a}) = a
<1> DEFINE P(x) == x \in {a, b} /\ \A y \in {a, b} : x <= y
<1>1. P(a) /\ \A x : P(x) => x = a
  OBVIOUS
<1>2. P(CHOOSE x : P(x))
  BY <1>1, Zenon
<1>3. Min({a, b}) = CHOOSE x : P(x)
  BY DEF Min
<1> HIDE DEF P
<1>4. Min({a, b}) = a
  BY <1>1, <1>2, <1>3
<1>5. {b, a} = {a, b}
  OBVIOUS
<1> QED BY <1>4, <1>5

\* The pieces of a word are its chunks and a rest.
LEMMA WordPieces ==
  ASSUME NEW width \in Nat \ {0}, NEW word \in Seq(Symbols), word # <<>>
  PROVE  /\ Cuts(word, width) \in Seq(Full(width))
         /\ Rest(word, width) \in Seq(Symbols) \ {<<>>}
         /\ Pieces(word, width) = Append(Cuts(word, width), Rest(word, width))
         /\ Cuts(word, width) = <<>> => Rest(word, width) = word
         /\ Len(Rest(word, width)) <= Len(word)
<1> DEFINE n == Len(word)
           count == (n - 1) \div width
           Chunk(i) == SubSeq(word, (i - 1) * width + 1, i * width)
           chunks == Cuts(word, width)
           rest == Rest(word, width)
           pieces == Pieces(word, width)
<1>1. n \in Nat \ {0}
  OBVIOUS
<1>2. /\ count \in Nat /\ (n + width - 1) \div width = count + 1
      /\ count * width + 1 \in 1 .. n /\ (count + 1) * width >= n
      /\ \A i \in 1 .. count : /\ (i - 1) * width + 1 \in 1 .. n /\ i * width \in 1 .. n
                               /\ i * width - (i - 1) * width = width
  <2>1. Divides(n, width, count)
    <3>1. count = (n - 1) \div width
      OBVIOUS
    <3> HIDE DEF n, count
    <3> QED BY <1>1, <3>1, PieceBounds
  <2> QED BY <2>1 DEF Divides
<1>3. chunks = [i \in 1 .. count |-> Chunk(i)]
  BY DEF Cuts
<1>4. pieces = [i \in 1 .. count + 1 |-> SubSeq(word, (i - 1) * width + 1, Min({i * width, n}))]
  BY <1>2 DEF Pieces
<1> HIDE DEF chunks, count, pieces
<1>5. ASSUME NEW i \in 1 .. count PROVE Chunk(i) \in Full(width)
  <2> DEFINE from == (i - 1) * width + 1
             to == i * width
  <2>1. from \in 1 .. n /\ to \in 1 .. n /\ to - from + 1 = width
    <3>1. /\ (i - 1) * width + 1 \in 1 .. n /\ i * width \in 1 .. n
          /\ i * width - (i - 1) * width = width /\ (i - 1) * width \in Int
      BY <1>2
    <3> QED BY <3>1
  <2> HIDE DEF from, to
  <2>2. SubSeq(word, from, to) \in Seq(Symbols) /\ Len(SubSeq(word, from, to)) = width
    BY <1>1, <2>1
  <2> QED BY <2>2 DEF Full, from, to
<1>6. chunks \in Seq(Full(width)) /\ Len(chunks) = count
  <2> HIDE DEF Chunk
  <2>1. chunks \in [1 .. count -> Full(width)]
    BY <1>3, <1>5
  <2>2. chunks \in Seq(Full(width))
    BY <1>2, <2>1, SeqDef
  <2> QED BY <1>2, <2>1, <2>2
<1>7. rest = SubSeq(word, count * width + 1, n)
  BY <1>6 DEF Rest, chunks
<1>8. rest \in Seq(Symbols) /\ Len(rest) > 0 /\ Len(rest) <= n
  <2> DEFINE from == count * width + 1
  <2>1. from \in 1 .. n
    BY <1>2
  <2> HIDE DEF from
  <2>2. SubSeq(word, from, n) \in Seq(Symbols) /\ Len(SubSeq(word, from, n)) = n - from + 1
    BY <1>1, <2>1
  <2> QED BY <1>1, <1>7, <2>1, <2>2 DEF from
<1>9. \A i \in 1 .. count : pieces[i] = chunks[i]
  <2> SUFFICES ASSUME NEW i \in 1 .. count PROVE pieces[i] = chunks[i]
    OBVIOUS
  <2>1. i * width \in 1 .. n /\ i \in 1 .. count + 1 /\ n \in Int
    BY <1>1, <1>2
  <2> DEFINE to == i * width
  <2>2. Min({to, n}) = to
    <3>1. to \in Int /\ to <= n
      BY <2>1
    <3> HIDE DEF to
    <3> QED BY <2>1, <3>1, LeastOf
  <2> QED BY <1>3, <1>4, <2>1, <2>2
<1>10. pieces[count + 1] = rest
  <2> DEFINE to == (count + 1) * width
  <2>1. Min({to, n}) = n
    <3>1. to \in Int /\ n <= to /\ n \in Int
      BY <1>1, <1>2
    <3> HIDE DEF to, n
    <3> QED BY <3>1, LeastOf
  <2>2. count + 1 \in 1 .. count + 1 /\ (count + 1) - 1 = count
    BY <1>2
  <2> QED BY <1>4, <1>7, <2>1, <2>2
<1>11. pieces = Append(chunks, rest)
  <2> DEFINE longer == Append(chunks, rest)
  <2>1. /\ longer \in Seq(Seq(Symbols)) /\ Len(longer) = count + 1 /\ longer[count + 1] = rest
        /\ \A i \in 1 .. count : longer[i] = chunks[i]
    <3>1. chunks \in Seq(Seq(Symbols))
      <4>1. Full(width) \subseteq Seq(Symbols)
        BY DEF Full
      <4> QED BY <1>6, <4>1, SeqMonotonic
    <3> HIDE DEF rest
    <3> QED BY <1>2, <1>6, <1>8, <3>1
  <2>2. DOMAIN pieces = 1 .. count + 1 /\ Len(pieces) = count + 1
    BY <1>2, <1>4
  <2>3. \A i \in 1 .. count + 1 : i \in 1 .. count \/ i = count + 1
    BY <1>2
  <2> HIDE DEF longer, rest
  <2>4. \A i \in 1 .. count + 1 : pieces[i] = longer[i]
    BY <1>9, <1>10, <2>1, <2>3
  <2>5. DOMAIN longer = 1 .. count + 1 /\ longer = [i \in 1 .. count + 1 |-> longer[i]]
    BY <2>1
  <2>6. pieces = [i \in 1 .. count + 1 |-> pieces[i]]
    BY <1>4
  <2>7. pieces = longer
    BY <2>4, <2>5, <2>6
  <2> QED BY <2>7 DEF longer
<1>12. chunks = <<>> => rest = word
  <2> SUFFICES ASSUME chunks = <<>> PROVE rest = word
    OBVIOUS
  <2>1. count = 0 /\ count * width + 1 = 1
    <3>1. count = 0
      BY <1>6
    <3> QED BY <3>1
  <2>2. SubSeq(word, 1, n) = word
    OBVIOUS
  <2> QED BY <1>7, <2>1, <2>2
<1>13. rest # <<>>
  BY <1>8
<1> QED BY <1>6, <1>8, <1>11, <1>12, <1>13 DEF chunks, pieces
-----------------------------------------------------------------------------
(* Wrapped text: its four folds.                                           *)

Iterated(d, V, S, F, base, seq) ==
  /\ DOMAIN d = SUBSET (1 .. Len(seq)) /\ d = [r \in DOMAIN d |-> d[r]]
  /\ \A s \in SUBSET (1 .. Len(seq)) :
       /\ s = {} => d[s] = base
       /\ s # {} => /\ d[s \ {Max(s)}] \in V /\ seq[Max(s)] \in S
                    /\ d[s] = F[<<d[s \ {Max(s)}], seq[Max(s)]>>]

LEMMA FoldIterated ==
  ASSUME NEW V, NEW S, NEW F \in [V \X S -> V], NEW base \in V, NEW seq \in Seq(S)
  PROVE  \E d : Iterated(d, V, S, F, base, seq)
<1> DEFINE n == Len(seq)
<1>0. n \in Nat /\ \A i \in 1 .. n : seq[i] \in S
  OBVIOUS
<1>1. PICK d : Iterates(d, F, base, seq, n)
  BY <1>0, IteratesExist
<1>2. ValuesIn(d, V, n)
  BY <1>1, IteratesTyped
<1>3. ASSUME NEW s \in SUBSET (1 .. n), s # {}
      PROVE  d[s \ {Max(s)}] \in V /\ seq[Max(s)] \in S
  <2>1. Max(s) \in s
    BY <1>0, <1>3, MaxMember
  <2>2. Max(s) \in 1 .. n /\ s \ {Max(s)} \in SUBSET (1 .. n)
    BY <2>1
  <2> QED BY <1>0, <1>2, <2>2 DEF ValuesIn
<1> HIDE DEF n
<1>4. DOMAIN d = SUBSET (1 .. n) /\ d = [r \in DOMAIN d |-> d[r]]
  BY <1>1 DEF Iterates
<1>5. \A s \in SUBSET (1 .. n) : d[s] = IF s = {} THEN base ELSE F[<<d[s \ {Max(s)}], seq[Max(s)]>>]
  BY <1>1 DEF Iterates
<1> QED BY <1>3, <1>4, <1>5 DEF n, Iterated

Reaches(c, V, S, F, base, seq) ==
  /\ c[1 .. 0] = base
  /\ \A k \in 1 .. Len(seq) :
       c[1 .. k - 1] \in V /\ seq[k] \in S => c[1 .. k] = F[<<c[1 .. k - 1], seq[k]>>]

Yields(c, F, base, seq) == c[1 .. Len(seq)] = Fold(F, base, seq)

\* What a fold yields, when it yields it step by step.
LEMMA FoldReached ==
  ASSUME NEW V, NEW S, NEW F \in [V \X S -> V], NEW base \in V, NEW seq \in Seq(S), NEW c,
         Reaches(c, V, S, F, base, seq)
  PROVE  Yields(c, F, base, seq)
<1> DEFINE n == Len(seq)
<1>0. n \in Nat /\ \A i \in 1 .. n : seq[i] \in S
  OBVIOUS
<1>1. PICK d : Iterates(d, F, base, seq, n) /\ Fold(F, base, seq) = d[1 .. n]
  BY <1>0, FoldIterates
<1>2. ValuesIn(d, V, n)
  BY <1>1, IteratesTyped
<1>3. Steps(d, F, base, seq, n)
  BY <1>0, <1>1, IteratesSteps
<1>4. c[1 .. 0] = d[1 .. 0]
  BY <1>3 DEF Steps, Reaches
<1>5. \A k \in 1 .. n : c[1 .. k - 1] = d[1 .. k - 1] => c[1 .. k] = d[1 .. k]
  <2> SUFFICES ASSUME NEW k \in 1 .. n, c[1 .. k - 1] = d[1 .. k - 1] PROVE c[1 .. k] = d[1 .. k]
    OBVIOUS
  <2>1. 1 .. k - 1 \in SUBSET (1 .. n)
    BY <1>0
  <2>2. d[1 .. k - 1] \in V /\ seq[k] \in S
    BY <1>0, <1>2, <2>1 DEF ValuesIn
  <2>3. c[1 .. k] = F[<<c[1 .. k - 1], seq[k]>>]
    BY <2>2 DEF Reaches
  <2> QED BY <1>3, <2>3 DEF Steps
<1> HIDE DEF n
<1>6. c[1 .. n] = d[1 .. n]
  BY <1>0, <1>4, <1>5, Agree, Zenon
<1> QED BY <1>1, <1>6 DEF n, Yields

LEMMA MaxOfPrefix ==
  ASSUME NEW n \in Nat, NEW k \in 1 .. n
  PROVE  /\ 1 .. k \in SUBSET (1 .. n) /\ 1 .. k # {}
         /\ Max(1 .. k) = k /\ (1 .. k) \ {Max(1 .. k)} = 1 .. k - 1
<1>1. k \in Nat /\ k > 0 /\ 1 .. k \in SUBSET (1 .. n)
  OBVIOUS
<1> QED BY <1>1, MaxInterval

\* Without().
KeptUnless(kept, e, element) == IF e = element THEN kept ELSE Append(kept, e)
Leaving(S, element) == [p \in Seq(S) \X S |-> KeptUnless(p[1], p[2], element)]

LEMMA LeavingTyped ==
  ASSUME NEW S, NEW element
  PROVE  /\ Leaving(S, element) \in [Seq(S) \X S -> Seq(S)]
         /\ \A v \in Seq(S), e \in S : Leaving(S, element)[<<v, e>>] = KeptUnless(v, e, element)
<1>1. ASSUME NEW v \in Seq(S), NEW e \in S PROVE KeptUnless(v, e, element) \in Seq(S)
  BY DEF KeptUnless
<1> QED BY <1>1 DEF Leaving

LEMMA WithoutFolds ==
  ASSUME NEW S, NEW element, NEW s \in Seq(S)
  PROVE  Without(s, element) = Fold(Leaving(S, element), <<>>, s)
<1> DEFINE n == Len(s)
           F == Leaving(S, element)
           P(it) == it = [r \in SUBSET (1 .. n) |->
                            IF r = {} THEN <<>> ELSE KeptUnless(it[r \ {Max(r)}], s[Max(r)], element)]
           c == CHOOSE it : P(it)
<1>0. n \in Nat /\ DOMAIN s = 1 .. n /\ <<>> \in Seq(S)
  OBVIOUS
<1>1. Without(s, element) = c[1 .. n]
  BY <1>0 DEF Without, FoldLeft, MapThenFoldSet, KeptUnless
<1>2. /\ F \in [Seq(S) \X S -> Seq(S)]
      /\ \A v \in Seq(S), e \in S : F[<<v, e>>] = KeptUnless(v, e, element)
  BY LeavingTyped
<1> HIDE DEF F
<1>3. PICK d : Iterated(d, Seq(S), S, F, <<>>, s)
  BY <1>0, <1>2, FoldIterated
<1>4. P(d)
  <2>1. DOMAIN d = SUBSET (1 .. n) /\ d = [q \in DOMAIN d |-> d[q]]
    BY <1>3 DEF Iterated
  <2>2. ASSUME NEW r \in SUBSET (1 .. n)
        PROVE  d[r] = IF r = {} THEN <<>> ELSE KeptUnless(d[r \ {Max(r)}], s[Max(r)], element)
    BY <1>2, <1>3 DEF Iterated
  <2> QED BY <2>1, <2>2
<1>5. P(c)
  <2> HIDE DEF P
  <2> QED BY <1>4, Zenon
<1> HIDE DEF c
<1>6. c[1 .. 0] = <<>>
  BY <1>5
<1>7. ASSUME NEW k \in 1 .. n, c[1 .. k - 1] \in Seq(S), s[k] \in S
      PROVE  c[1 .. k] = F[<<c[1 .. k - 1], s[k]>>]
  <2>1. /\ 1 .. k \in SUBSET (1 .. n) /\ 1 .. k # {}
        /\ Max(1 .. k) = k /\ (1 .. k) \ {Max(1 .. k)} = 1 .. k - 1
    BY <1>0, MaxOfPrefix
  <2>2. c[1 .. k] = KeptUnless(c[1 .. k - 1], s[k], element)
    BY <1>5, <2>1
  <2> QED BY <1>2, <1>7, <2>2
<1>8. Reaches(c, Seq(S), S, F, <<>>, s)
  BY <1>6, <1>7 DEF Reaches
<1> HIDE DEF P
<1>9. Yields(c, F, <<>>, s)
  BY <1>0, <1>2, <1>8, FoldReached
<1> QED BY <1>1, <1>9 DEF F, Yields

LEMMA WithoutRules ==
  ASSUME NEW S, NEW element, NEW s \in Seq(S)
  PROVE  /\ Without(<<>>, element) = <<>> /\ Without(s, element) \in Seq(S)
         /\ \A e \in S : Without(Append(s, e), element) = KeptUnless(Without(s, element), e, element)
<1> DEFINE F == Leaving(S, element)
<1>0. <<>> \in Seq(S) /\ <<>> \in Seq(S) /\ \A e \in S : Append(s, e) \in Seq(S)
  OBVIOUS
<1>1. /\ F \in [Seq(S) \X S -> Seq(S)]
      /\ \A v \in Seq(S), e \in S : F[<<v, e>>] = KeptUnless(v, e, element)
  BY LeavingTyped
<1>2. /\ Without(<<>>, element) = Fold(F, <<>>, <<>>) /\ Without(s, element) = Fold(F, <<>>, s)
      /\ \A e \in S : Without(Append(s, e), element) = Fold(F, <<>>, Append(s, e))
  BY <1>0, WithoutFolds
<1> HIDE DEF F
<1>3. Fold(F, <<>>, <<>>) = <<>> /\ Fold(F, <<>>, s) \in Seq(S)
  BY <1>0, <1>1, FoldEmpty, FoldTyped
<1>4. \A e \in S : Fold(F, <<>>, Append(s, e)) = F[<<Fold(F, <<>>, s), e>>]
  BY FoldAppend
<1> QED BY <1>1, <1>2, <1>3, <1>4

\* Split(): the parts are those before the last and the last.
Parts(S) == Seq(Seq(S)) \ {<<>>}
CutAt(parts, c, separators) ==
  IF c \in separators THEN Append(parts, <<>>)
  ELSE [parts EXCEPT ![Len(parts)] = Append(@, c)]
Splitting(S, separators) == [p \in Parts(S) \X S |-> CutAt(p[1], p[2], separators)]

Ends(longer, parts, e, S) ==
  /\ longer \in Seq(S) \ {<<>>} /\ Last(longer) = e /\ longer[Len(longer)] = e
  /\ Front(longer) = parts /\ Len(longer) = Len(parts) + 1 /\ Len(parts) \in Nat
  /\ \A x \in S : [longer EXCEPT ![Len(longer)] = x] = Append(parts, x)

LEMMA LastOf ==
  ASSUME NEW S, NEW parts \in Seq(S), NEW e \in S
  PROVE  Ends(Append(parts, e), parts, e, S)
<1> DEFINE n == Len(parts)
           longer == Append(parts, e)
<1>1. /\ longer \in Seq(S) /\ Len(longer) = n + 1 /\ n \in Nat /\ longer[n + 1] = e
      /\ \A i \in 1 .. n : longer[i] = parts[i] /\ parts[i] \in S
      /\ longer # <<>> /\ DOMAIN longer = 1 .. n + 1 /\ DOMAIN parts = 1 .. n
  OBVIOUS
<1>2. ASSUME NEW x \in S
      PROVE  [longer EXCEPT ![n + 1] = x] = Append(parts, x)
  <2> DEFINE new == [longer EXCEPT ![n + 1] = x]
             other == Append(parts, x)
  <2>1. /\ other \in Seq(S) /\ Len(other) = n + 1 /\ other[n + 1] = x
        /\ \A i \in 1 .. n : other[i] = parts[i]
    OBVIOUS
  <2> HIDE DEF longer, other, n
  <2>2. new \in [1 .. n + 1 -> S] /\ new[n + 1] = x /\ \A i \in 1 .. n : new[i] = longer[i]
    <3>1. \A i \in 1 .. n : i # n + 1 /\ i \in 1 .. n + 1
      BY <1>1
    <3>2. n + 1 \in 1 .. n + 1
      BY <1>1
    <3> QED BY <1>1, <3>1, <3>2
  <2> HIDE DEF new
  <2>3. new \in Seq(S) /\ Len(new) = n + 1
    <3>1. n + 1 \in Nat
      BY <1>1
    <3> QED BY <2>2, <3>1, SeqDef
  <2>4. \A i \in 1 .. Len(new) : new[i] = other[i]
    <3>1. \A i \in 1 .. n + 1 : i \in 1 .. n \/ i = n + 1
      BY <1>1
    <3> QED BY <1>1, <2>1, <2>2, <2>3, <3>1
  <2>5. new = other
    BY <2>1, <2>3, <2>4, SeqEqual
  <2> QED BY <2>5 DEF new, other
<1>3. Front(longer) = parts
  <2>1. Front(longer) = [i \in 1 .. n |-> longer[i]]
    BY <1>1 DEF Front
  <2>2. parts = [i \in 1 .. n |-> parts[i]]
    BY <1>1
  <2> QED BY <1>1, <2>1, <2>2
<1>4. \A x \in S : [longer EXCEPT ![Len(longer)] = x] = Append(parts, x)
  BY <1>1, <1>2
<1> QED BY <1>1, <1>3, <1>4 DEF Last, Ends

LEMMA IsAppend ==
  ASSUME NEW S, NEW parts \in Seq(S), parts # <<>>
  PROVE  \E q \in Seq(S), e \in S : parts = Append(q, e)
<1> DEFINE n == Len(parts)
           q == [i \in 1 .. n - 1 |-> parts[i]]
           longer == Append(q, parts[n])
<1>1. n \in Nat /\ n > 0 /\ parts[n] \in S
  OBVIOUS
<1>2. q \in Seq(S) /\ Len(q) = n - 1 /\ \A i \in 1 .. n - 1 : q[i] = parts[i]
  <2>1. n - 1 \in Nat /\ \A i \in 1 .. n - 1 : parts[i] \in S
    BY <1>1
  <2>2. q \in [1 .. n - 1 -> S]
    BY <2>1
  <2>3. q \in Seq(S)
    BY <2>1, <2>2, SeqDef
  <2> QED BY <2>1, <2>3
<1> HIDE DEF q, n
<1>3. /\ longer \in Seq(S) /\ Len(longer) = (n - 1) + 1 /\ longer[(n - 1) + 1] = parts[n]
      /\ \A i \in 1 .. n - 1 : longer[i] = parts[i]
  BY <1>1, <1>2
<1> HIDE DEF longer
<1>4. Len(parts) = n /\ Len(longer) = n
  BY <1>1, <1>3 DEF n
<1>5. \A i \in 1 .. n : longer[i] = parts[i]
  BY <1>1, <1>3
<1>6. parts = longer
  BY <1>3, <1>4, <1>5, SeqEqual
<1> QED BY <1>1, <1>2, <1>6 DEF longer

LEMMA SplittingTyped ==
  ASSUME NEW S, NEW separators
  PROVE  /\ Splitting(S, separators) \in [Parts(S) \X S -> Parts(S)]
         /\ \A v \in Parts(S), e \in S : Splitting(S, separators)[<<v, e>>] = CutAt(v, e, separators)
<1>1. ASSUME NEW v \in Parts(S), NEW e \in S PROVE CutAt(v, e, separators) \in Parts(S)
  <2>1. PICK q \in Seq(Seq(S)), l \in Seq(S) : v = Append(q, l)
    BY IsAppend DEF Parts
  <2>2. Append(l, e) \in Seq(S) /\ <<>> \in Seq(S)
    OBVIOUS
  <2>0. Ends(v, q, l, Seq(S))
    BY <2>1, LastOf
  <2>3. v[Len(v)] = l /\ v \in Seq(Seq(S))
        /\ [v EXCEPT ![Len(v)] = Append(l, e)] = Append(q, Append(l, e))
    BY <2>0, <2>2 DEF Ends
  <2>4. CutAt(v, e, separators)
          = IF e \in separators THEN Append(v, <<>>) ELSE Append(q, Append(l, e))
    BY <2>3 DEF CutAt
  <2>5. Append(v, <<>>) \in Parts(S) /\ Append(q, Append(l, e)) \in Parts(S)
    BY <2>2, <2>3 DEF Parts
  <2> QED BY <2>4, <2>5
<1> QED BY <1>1 DEF Splitting

LEMMA OnePart ==
  ASSUME NEW S
  PROVE  <<<<>>>> \in Parts(S) /\ <<>> \in Seq(S)
<1>1. <<>> \in Seq(S)
  OBVIOUS
<1> QED BY <1>1 DEF Parts

LEMMA SplitFolds ==
  ASSUME NEW S, NEW separators, NEW s \in Seq(S)
  PROVE  Split(s, separators) = Fold(Splitting(S, separators), <<<<>>>>, s)
<1> DEFINE n == Len(s)
           F == Splitting(S, separators)
           P(it) == it = [r \in SUBSET (1 .. n) |->
                            IF r = {} THEN <<<<>>>> ELSE CutAt(it[r \ {Max(r)}], s[Max(r)], separators)]
           c == CHOOSE it : P(it)
<1>0. n \in Nat /\ DOMAIN s = 1 .. n /\ <<<<>>>> \in Parts(S)
  BY OnePart
<1>1. Split(s, separators) = c[1 .. n]
  BY <1>0 DEF Split, FoldLeft, MapThenFoldSet, CutAt
<1>2. /\ F \in [Parts(S) \X S -> Parts(S)]
      /\ \A v \in Parts(S), e \in S : F[<<v, e>>] = CutAt(v, e, separators)
  BY SplittingTyped
<1> HIDE DEF F
<1>3. PICK d : Iterated(d, Parts(S), S, F, <<<<>>>>, s)
  BY <1>0, <1>2, FoldIterated
<1>4. P(d)
  <2>1. DOMAIN d = SUBSET (1 .. n) /\ d = [q \in DOMAIN d |-> d[q]]
    BY <1>3 DEF Iterated
  <2>2. ASSUME NEW r \in SUBSET (1 .. n)
        PROVE  d[r] = IF r = {} THEN <<<<>>>> ELSE CutAt(d[r \ {Max(r)}], s[Max(r)], separators)
    BY <1>2, <1>3 DEF Iterated
  <2> QED BY <2>1, <2>2
<1>5. P(c)
  <2> HIDE DEF P
  <2> QED BY <1>4, Zenon
<1> HIDE DEF c
<1>6. c[1 .. 0] = <<<<>>>>
  BY <1>5
<1>7. ASSUME NEW k \in 1 .. n, c[1 .. k - 1] \in Parts(S), s[k] \in S
      PROVE  c[1 .. k] = F[<<c[1 .. k - 1], s[k]>>]
  <2>1. /\ 1 .. k \in SUBSET (1 .. n) /\ 1 .. k # {}
        /\ Max(1 .. k) = k /\ (1 .. k) \ {Max(1 .. k)} = 1 .. k - 1
    BY <1>0, MaxOfPrefix
  <2>2. c[1 .. k] = CutAt(c[1 .. k - 1], s[k], separators)
    BY <1>5, <2>1
  <2> QED BY <1>2, <1>7, <2>2
<1>8. Reaches(c, Parts(S), S, F, <<<<>>>>, s)
  BY <1>6, <1>7 DEF Reaches
<1> HIDE DEF P
<1>9. Yields(c, F, <<<<>>>>, s)
  BY <1>0, <1>2, <1>8, FoldReached
<1> QED BY <1>1, <1>9 DEF F, Yields

LEMMA SplitSteps ==
  ASSUME NEW S, NEW separators, NEW s \in Seq(S)
  PROVE  /\ Split(<<>>, separators) = <<<<>>>> /\ Split(s, separators) \in Parts(S)
         /\ \A e \in S : Split(Append(s, e), separators) = CutAt(Split(s, separators), e, separators)
<1> DEFINE F == Splitting(S, separators)
<1>0. <<>> \in Seq(S) /\ <<<<>>>> \in Parts(S) /\ \A e \in S : Append(s, e) \in Seq(S)
  BY OnePart
<1>1. /\ F \in [Parts(S) \X S -> Parts(S)]
      /\ \A v \in Parts(S), e \in S : F[<<v, e>>] = CutAt(v, e, separators)
  BY SplittingTyped
<1>2. /\ Split(<<>>, separators) = Fold(F, <<<<>>>>, <<>>) /\ Split(s, separators) = Fold(F, <<<<>>>>, s)
      /\ \A e \in S : Split(Append(s, e), separators) = Fold(F, <<<<>>>>, Append(s, e))
  BY <1>0, SplitFolds
<1> HIDE DEF F
<1>3. Fold(F, <<<<>>>>, <<>>) = <<<<>>>> /\ Fold(F, <<<<>>>>, s) \in Parts(S)
  BY <1>0, <1>1, FoldEmpty, FoldTyped
<1>4. \A e \in S : Fold(F, <<<<>>>>, Append(s, e)) = F[<<Fold(F, <<<<>>>>, s), e>>]
  BY FoldAppend
<1> QED BY <1>1, <1>2, <1>3, <1>4

\* Filled().
Placed(lines, piece, width) ==
  IF lines # <<>> /\ Len(Last(lines)) + 1 + Len(piece) <= width
  THEN [lines EXCEPT ![Len(lines)] = @ \o <<Blank>> \o piece]
  ELSE Append(lines, piece)
Placing(width) == [p \in Seq(Seq(Symbols)) \X Seq(Symbols) |-> Placed(p[1], p[2], width)]

PlacedOn(placed, lines, line, piece, width) ==
  /\ placed = IF Len(line) + 1 + Len(piece) <= width
              THEN Append(lines, line \o <<Blank>> \o piece)
              ELSE Append(Append(lines, line), piece)
  /\ line \o <<Blank>> \o piece \in Seq(Symbols)

LEMMA PlacedLast ==
  ASSUME NEW lines \in Seq(Seq(Symbols)), NEW line \in Seq(Symbols), NEW piece \in Seq(Symbols),
         NEW width
  PROVE  PlacedOn(Placed(Append(lines, line), piece, width), lines, line, piece, width)
<1> DEFINE longer == Append(lines, line)
           spaced == line \o <<Blank>> \o piece
<1>1. Ends(longer, lines, line, Seq(Symbols))
  BY LastOf
<1>2. spaced \in Seq(Symbols)
  BY DEF Symbols
<1>3. Placed(longer, piece, width)
        = IF Len(line) + 1 + Len(piece) <= width
          THEN [longer EXCEPT ![Len(longer)] = spaced] ELSE Append(longer, piece)
  <2> HIDE DEF longer
  <2> QED BY <1>1 DEF Placed, Ends
<1>4. [longer EXCEPT ![Len(longer)] = spaced] = Append(lines, spaced)
  <2> HIDE DEF longer, spaced
  <2> QED BY <1>1, <1>2 DEF Ends
<1> QED BY <1>2, <1>3, <1>4 DEF PlacedOn

LEMMA PlacingTyped ==
  ASSUME NEW width
  PROVE  /\ Placing(width) \in [Seq(Seq(Symbols)) \X Seq(Symbols) -> Seq(Seq(Symbols))]
         /\ \A v \in Seq(Seq(Symbols)), e \in Seq(Symbols) : Placing(width)[<<v, e>>] = Placed(v, e, width)
<1>1. ASSUME NEW v \in Seq(Seq(Symbols)), NEW e \in Seq(Symbols)
      PROVE Placed(v, e, width) \in Seq(Seq(Symbols))
  <2>1. CASE v = <<>>
    <3>1. Placed(v, e, width) = Append(v, e)
      BY <2>1 DEF Placed
    <3> QED BY <3>1
  <2>2. CASE v # <<>>
    <3>1. PICK q \in Seq(Seq(Symbols)), l \in Seq(Symbols) : v = Append(q, l)
      BY <2>2, IsAppend
    <3> DEFINE spaced == l \o <<Blank>> \o e
    <3>2. /\ Placed(v, e, width) = IF Len(l) + 1 + Len(e) <= width THEN Append(q, spaced) ELSE Append(v, e)
          /\ spaced \in Seq(Symbols)
      <4>1. PlacedOn(Placed(Append(q, l), e, width), q, l, e, width)
        BY PlacedLast
      <4> QED BY <3>1, <4>1 DEF PlacedOn
    <3> HIDE DEF spaced
    <3>3. Append(q, spaced) \in Seq(Seq(Symbols)) /\ Append(v, e) \in Seq(Seq(Symbols))
      BY <3>2
    <3> QED BY <3>2, <3>3
  <2> QED BY <2>1, <2>2
<1> QED BY <1>1 DEF Placing

LEMMA FilledFolds ==
  ASSUME NEW width, NEW s \in Seq(Seq(Symbols))
  PROVE  Filled(s, width) = Fold(Placing(width), <<>>, s)
<1> DEFINE n == Len(s)
           F == Placing(width)
           P(it) == it = [r \in SUBSET (1 .. n) |->
                            IF r = {} THEN <<>> ELSE Placed(it[r \ {Max(r)}], s[Max(r)], width)]
           c == CHOOSE it : P(it)
<1>0. n \in Nat /\ DOMAIN s = 1 .. n /\ <<>> \in Seq(Seq(Symbols))
  OBVIOUS
<1>1. Filled(s, width) = c[1 .. n]
  BY <1>0 DEF Filled, FoldLeft, MapThenFoldSet, Placed
<1>2. /\ F \in [Seq(Seq(Symbols)) \X Seq(Symbols) -> Seq(Seq(Symbols))]
      /\ \A v \in Seq(Seq(Symbols)), e \in Seq(Symbols) : F[<<v, e>>] = Placed(v, e, width)
  BY PlacingTyped
<1> HIDE DEF F
<1>3. PICK d : Iterated(d, Seq(Seq(Symbols)), Seq(Symbols), F, <<>>, s)
  BY <1>0, <1>2, FoldIterated
<1>4. P(d)
  <2>1. DOMAIN d = SUBSET (1 .. n) /\ d = [q \in DOMAIN d |-> d[q]]
    BY <1>3 DEF Iterated
  <2>2. ASSUME NEW r \in SUBSET (1 .. n)
        PROVE  d[r] = IF r = {} THEN <<>> ELSE Placed(d[r \ {Max(r)}], s[Max(r)], width)
    BY <1>2, <1>3 DEF Iterated
  <2> QED BY <2>1, <2>2
<1>5. P(c)
  <2> HIDE DEF P
  <2> QED BY <1>4, Zenon
<1> HIDE DEF c
<1>6. c[1 .. 0] = <<>>
  BY <1>5
<1>7. ASSUME NEW k \in 1 .. n, c[1 .. k - 1] \in Seq(Seq(Symbols)), s[k] \in Seq(Symbols)
      PROVE  c[1 .. k] = F[<<c[1 .. k - 1], s[k]>>]
  <2>1. /\ 1 .. k \in SUBSET (1 .. n) /\ 1 .. k # {}
        /\ Max(1 .. k) = k /\ (1 .. k) \ {Max(1 .. k)} = 1 .. k - 1
    BY <1>0, MaxOfPrefix
  <2>2. c[1 .. k] = Placed(c[1 .. k - 1], s[k], width)
    BY <1>5, <2>1
  <2> QED BY <1>2, <1>7, <2>2
<1>8. Reaches(c, Seq(Seq(Symbols)), Seq(Symbols), F, <<>>, s)
  BY <1>6, <1>7 DEF Reaches
<1> HIDE DEF P
<1>9. Yields(c, F, <<>>, s)
  BY <1>0, <1>2, <1>8, FoldReached
<1> QED BY <1>1, <1>9 DEF F, Yields

LEMMA FilledRules ==
  ASSUME NEW width, NEW s \in Seq(Seq(Symbols))
  PROVE  /\ Filled(<<>>, width) = <<>> /\ Filled(s, width) \in Seq(Seq(Symbols))
         /\ \A e \in Seq(Symbols) : Filled(Append(s, e), width) = Placed(Filled(s, width), e, width)
<1> DEFINE F == Placing(width)
<1>0. <<>> \in Seq(Seq(Symbols)) /\ <<>> \in Seq(Seq(Symbols)) /\ \A e \in Seq(Symbols) : Append(s, e) \in Seq(Seq(Symbols))
  OBVIOUS
<1>1. /\ F \in [Seq(Seq(Symbols)) \X Seq(Symbols) -> Seq(Seq(Symbols))]
      /\ \A v \in Seq(Seq(Symbols)), e \in Seq(Symbols) : F[<<v, e>>] = Placed(v, e, width)
  BY PlacingTyped
<1>2. /\ Filled(<<>>, width) = Fold(F, <<>>, <<>>) /\ Filled(s, width) = Fold(F, <<>>, s)
      /\ \A e \in Seq(Symbols) : Filled(Append(s, e), width) = Fold(F, <<>>, Append(s, e))
  BY <1>0, FilledFolds
<1> HIDE DEF F
<1>3. Fold(F, <<>>, <<>>) = <<>> /\ Fold(F, <<>>, s) \in Seq(Seq(Symbols))
  BY <1>0, <1>1, FoldEmpty, FoldTyped
<1>4. \A e \in Seq(Symbols) : Fold(F, <<>>, Append(s, e)) = F[<<Fold(F, <<>>, s), e>>]
  BY FoldAppend
<1> QED BY <1>1, <1>2, <1>3, <1>4

\* The loop over the characters.
WrapStates ==
  [lines : Seq(Seq(Symbols)), line : Seq(Symbols), word : Seq(Symbols), ended : BOOLEAN]

LEMMA FlushTyped ==
  ASSUME NEW s \in WrapStates, NEW includeEmpty \in BOOLEAN
  PROVE  /\ FlushLine(s, includeEmpty) \in WrapStates
         /\ FlushLine(s, includeEmpty).word = s.word /\ FlushLine(s, includeEmpty).ended = s.ended
         /\ FlushLine(s, includeEmpty).line = <<>>
         /\ FlushLine(s, includeEmpty).lines
              = IF s.line = <<>> /\ ~includeEmpty THEN s.lines ELSE Append(s.lines, s.line)
<1>1. s.lines \in Seq(Seq(Symbols)) /\ s.line \in Seq(Symbols)
  BY DEF WrapStates
<1> DEFINE longer == Append(s.lines, s.line)
<1>2. longer \in Seq(Seq(Symbols)) /\ <<>> \in Seq(Symbols)
  BY <1>1
<1>3. FlushLine(s, includeEmpty)
        = IF s.line = <<>> /\ ~includeEmpty THEN s ELSE [s EXCEPT !.lines = longer, !.line = <<>>]
  BY DEF FlushLine, WrapStates
<1> HIDE DEF longer
<1>4. FlushLine(s, includeEmpty) \in WrapStates
      /\ FlushLine(s, includeEmpty).word = s.word /\ FlushLine(s, includeEmpty).ended = s.ended
      /\ FlushLine(s, includeEmpty).line = <<>>
      /\ FlushLine(s, includeEmpty).lines = IF s.line = <<>> /\ ~includeEmpty THEN s.lines ELSE longer
  BY <1>2, <1>3 DEF WrapStates
<1> QED BY <1>4 DEF longer

-----------------------------------------------------------------------------
(* Wrapped text: sizes as ints.                                            *)

LEMMA AsIntSame == ASSUME NEW size \in Nat, size <= IntMax PROVE AsInt(size) = size
<1> DEFINE range == 2 * (IntMax + 1)
<1>1. IntMax \in Nat /\ range \in Nat \ {0} /\ size < range
  BY WrapAssumption
<1> HIDE DEF range
<1>2. size % range = size
  BY <1>1
<1> QED BY <1>1, <1>2 DEF AsInt, range

LEMMA AsIntBelow == ASSUME NEW size \in Nat PROVE AsInt(size) \in Int /\ AsInt(size) <= size
<1> DEFINE range == 2 * (IntMax + 1)
           low == size % range
<1>1. IntMax \in Nat /\ range \in Nat \ {0}
  BY WrapAssumption
<1>2. low \in 0 .. size
  <2> HIDE DEF range
  <2> QED BY <1>1
<1>3. AsInt(size) = IF low > IntMax THEN low - range ELSE low
  BY DEF AsInt
<1> HIDE DEF range, low
<1> QED BY <1>1, <1>2, <1>3

LEMMA ChunksCut ==
  ASSUME NEW width, NEW word \in Seq(Symbols), Len(word) <= IntMax
  PROVE  Chunks(word, width) = Cuts(word, width)
<1>1. AsInt(Len(word)) = Len(word)
  BY AsIntSame
<1> QED BY <1>1 DEF Chunks, Cuts

\* Whatever an int keeps of the size of a word, only what it has is cut off.
CutsOff(n, width, count) ==
  /\ count \in Int
  /\ count >= 0 => count * width \in 0 .. n
  /\ \A i \in 1 .. count : (i - 1) * width + 1 \in 1 .. n /\ i * width \in 1 .. n

LEMMA CutBounds ==
  ASSUME NEW n \in Nat, NEW size \in Int, size <= n, NEW width \in Nat \ {0},
         NEW count, count = (size - 1) \div width
  PROVE  CutsOff(n, width, count)
<1>1. /\ count \in Int /\ count * width \in Int
      /\ count * width <= size - 1
  OBVIOUS
<1>2. ASSUME count >= 0 PROVE count * width >= 0
  BY <1>1, <1>2
<1>3. ASSUME NEW i \in 1 .. count
      PROVE  /\ i * width \in Int /\ (i - 1) * width \in Int
             /\ i * width = (i - 1) * width + width
             /\ 0 <= (i - 1) * width /\ i * width <= count * width
  BY <1>1
<1>4. ASSUME NEW i \in 1 .. count PROVE (i - 1) * width + 1 \in 1 .. n /\ i * width \in 1 .. n
  BY <1>1, <1>3
<1>5. count >= 0 => count * width \in 0 .. n
  BY <1>1, <1>2, n # 0 \/ n = 0
<1> QED BY <1>1, <1>4, <1>5 DEF CutsOff

\* appendWord() keeps the types of what it works on, whatever the sizes.
LEMMA CutTyped ==
  ASSUME NEW width \in Nat \ {0}, NEW s \in WrapStates
  PROVE  CutWord(s, width) \in WrapStates
<1> DEFINE n == Len(s.word)
           size == AsInt(n)
           count == (size - 1) \div width
           Chunk(i) == SubSeq(s.word, (i - 1) * width + 1, i * width)
           chunks == Chunks(s.word, width)
           flushed == FlushLine(s, FALSE)
           longer == flushed.lines \o chunks
           rest == SubSeq(s.word, Len(chunks) * width + 1, n)
<1>1. s.word \in Seq(Symbols) /\ n \in Nat
  BY DEF WrapStates
<1>2. CutsOff(n, width, count)
  <2>1. size \in Int /\ size <= n
    BY <1>1, AsIntBelow
  <2>2. count = (size - 1) \div width
    OBVIOUS
  <2> HIDE DEF n, size, count
  <2> QED BY <1>1, <2>1, <2>2, CutBounds
<1>3. chunks = [i \in 1 .. count |-> Chunk(i)]
  BY DEF Chunks
<1>4. flushed \in WrapStates
  BY FlushTyped
<1>5. CutWord(s, width)
        = IF chunks = <<>> THEN s ELSE [flushed EXCEPT !.lines = longer, !.word = rest]
  <2>1. flushed.word = s.word
    BY FlushTyped
  <2> HIDE DEF flushed
  <2> QED BY <1>4, <2>1 DEF CutWord, WrapStates, flushed
<1> HIDE DEF count
<1>6. ASSUME NEW i \in 1 .. count PROVE Chunk(i) \in Seq(Symbols)
  <2> DEFINE from == (i - 1) * width + 1
             to == i * width
  <2>1. from \in 1 .. n /\ to \in 1 .. n
    BY <1>2 DEF CutsOff
  <2> HIDE DEF from, to
  <2>2. SubSeq(s.word, from, to) \in Seq(Symbols)
    BY <1>1, <2>1
  <2> QED BY <2>2 DEF from, to
<1>7. CASE count < 1
  <2>1. chunks = <<>>
    BY <1>2, <1>3, <1>7 DEF CutsOff
  <2> QED BY <1>5, <2>1
<1>8. CASE count >= 1
  <2>1. chunks \in Seq(Seq(Symbols)) /\ Len(chunks) = count
    <3> HIDE DEF Chunk, chunks
    <3>1. count \in Nat
      BY <1>2, <1>8 DEF CutsOff
    <3>2. chunks \in [1 .. count -> Seq(Symbols)]
      BY <1>3, <1>6
    <3>3. chunks \in Seq(Seq(Symbols))
      BY <3>1, <3>2, SeqDef
    <3> QED BY <3>1, <3>2, <3>3
  <2>2. rest \in Seq(Symbols)
    <3> DEFINE from == count * width + 1
    <3>1. from \in 1 .. n + 1
      BY <1>1, <1>2, <1>8 DEF CutsOff
    <3> HIDE DEF from
    <3>2. SubSeq(s.word, from, n) \in Seq(Symbols)
      BY <1>1, <3>1
    <3> QED BY <2>1, <3>2 DEF from
  <2>3. longer \in Seq(Seq(Symbols))
    <3>1. flushed.lines \in Seq(Seq(Symbols))
      <4> HIDE DEF flushed
      <4> QED BY <1>4 DEF WrapStates
    <3> HIDE DEF flushed, chunks
    <3> QED BY <2>1, <3>1
  <2> HIDE DEF flushed, longer, rest, chunks
  <2> QED BY <1>4, <1>5, <2>2, <2>3 DEF WrapStates
<1> QED BY <1>2, <1>7, <1>8 DEF CutsOff

\* What appendWord() makes of the line and the lines.
WordAppended(t, s, width) ==
  LET chunks == Cuts(s.word, width)
      rest == Rest(s.word, width)
      before == IF s.line = <<>> THEN s.lines ELSE Append(s.lines, s.line)
  IN /\ t \in WrapStates /\ t.word = <<>> /\ t.ended = s.ended
     /\ s.word = <<>> => t = s
     /\ s.word # <<>> /\ chunks # <<>> => t.lines = before \o chunks /\ t.line = rest
     /\ s.word # <<>> /\ chunks = <<>> =>
          IF s.line = <<>> THEN t.lines = s.lines /\ t.line = s.word
          ELSE IF Len(s.line) + 1 + Len(s.word) <= width
          THEN t.lines = s.lines /\ t.line = s.line \o <<Blank>> \o s.word
          ELSE t.lines = Append(s.lines, s.line) /\ t.line = s.word

LEMMA AddTyped ==
  ASSUME NEW width \in Nat \ {0}, NEW s \in WrapStates
  PROVE  /\ AddWord(s, width) \in WrapStates /\ AddWord(s, width).word = <<>>
         /\ AddWord(s, width).ended = s.ended
         /\ IF s.line = <<>> THEN AddWord(s, width).lines = s.lines /\ AddWord(s, width).line = s.word
            ELSE IF Fits(s.line, s.word, width)
            THEN AddWord(s, width).lines = s.lines
                 /\ AddWord(s, width).line = s.line \o <<Blank>> \o s.word
            ELSE AddWord(s, width).lines = Append(s.lines, s.line) /\ AddWord(s, width).line = s.word
<1> DEFINE flushed == FlushLine(s, FALSE)
           longer == Append(s.lines, s.line)
           spaced == s.line \o <<Blank>> \o s.word
           added == AddWord(s, width)
<1>0. s.line \in Seq(Symbols) /\ s.word \in Seq(Symbols)
  BY DEF WrapStates
<1>1. spaced \in Seq(Symbols) /\ <<>> \in Seq(Symbols)
  BY <1>0 DEF Symbols
<1>2. /\ flushed \in WrapStates /\ flushed.word = s.word /\ flushed.ended = s.ended
      /\ s.line # <<>> => flushed.lines = longer
  BY FlushTyped
<1>3. added = IF s.line = <<>> THEN [s EXCEPT !.line = s.word, !.word = <<>>]
              ELSE IF Fits(s.line, s.word, width)
              THEN [s EXCEPT !.line = spaced, !.word = <<>>]
              ELSE [flushed EXCEPT !.line = s.word, !.word = <<>>]
  BY <1>2 DEF AddWord, WrapStates
<1> HIDE DEF flushed, longer, spaced, added
<1>4. /\ added \in WrapStates /\ added.word = <<>> /\ added.ended = s.ended
      /\ IF s.line = <<>> THEN added.lines = s.lines /\ added.line = s.word
         ELSE IF Fits(s.line, s.word, width)
         THEN added.lines = s.lines /\ added.line = spaced
         ELSE added.lines = longer /\ added.line = s.word
  BY <1>1, <1>2, <1>3 DEF WrapStates
<1> QED BY <1>4 DEF added, longer, spaced

LEMMA AppendAlways ==
  ASSUME NEW width \in Nat \ {0}, NEW s \in WrapStates
  PROVE  AppendWord(s, width) \in WrapStates /\ AppendWord(s, width).word = <<>>
<1>1. CutWord(s, width) \in WrapStates
  BY CutTyped
<1>2. AddWord(CutWord(s, width), width) \in WrapStates /\ AddWord(CutWord(s, width), width).word = <<>>
  BY <1>1, AddTyped
<1> QED BY <1>2 DEF AppendWord

\* What the loop holds of a text of so many characters: with the blank between
\* the two, its line and its word are not longer.
Sized(s, length) ==
  Len(s.word) <= length /\ (s.line # <<>> => Len(s.line) + 1 + Len(s.word) <= length)

LEMMA SizedMore ==
  ASSUME NEW s \in WrapStates, NEW length \in Int, NEW more \in Int, length <= more,
         Sized(s, length)
  PROVE  Sized(s, more)
<1> DEFINE a == Len(s.line)
           b == Len(s.word)
           empty == s.line = <<>>
<1>1. a \in Nat /\ b \in Nat /\ b <= length /\ (~empty => a + 1 + b <= length)
  BY DEF Sized, WrapStates
<1>2. Sized(s, more) <=> b <= more /\ (~empty => a + 1 + b <= more)
  BY DEF Sized
<1> HIDE DEF a, b, empty
<1>3. b <= more /\ (~empty => a + 1 + b <= more)
  BY <1>1
<1> QED BY <1>2, <1>3

LEMMA FitsSized ==
  ASSUME NEW s \in WrapStates, NEW width, Sized(s, IntMax), s.line # <<>>
  PROVE  Fits(s.line, s.word, width) <=> Len(s.line) + 1 + Len(s.word) <= width
<1> DEFINE size == Len(s.line) + 1 + Len(s.word)
<1>1. size \in Nat /\ size <= IntMax
  BY DEF Sized, WrapStates
<1> HIDE DEF size
<1>2. AsInt(size) = size
  BY <1>1, AsIntSame
<1> QED BY <1>2 DEF Fits, size

LEMMA AppendTyped ==
  ASSUME NEW width \in Nat \ {0}, NEW s \in WrapStates, Sized(s, IntMax)
  PROVE  WordAppended(AppendWord(s, width), s, width)
<1> DEFINE chunks == Cuts(s.word, width)
           rest == Rest(s.word, width)
           flushed == FlushLine(s, FALSE)
           cut == CutWord(s, width)
           t == AppendWord(s, width)
           before == IF s.line = <<>> THEN s.lines ELSE Append(s.lines, s.line)
<1>1. CASE s.word = <<>>
  <2>1. t = s
    BY <1>1 DEF AppendWord
  <2> HIDE DEF t
  <2>2. WordAppended(t, s, width)
    BY <1>1, <2>1 DEF WordAppended
  <2> QED BY <2>2 DEF t
<1>2. CASE s.word # <<>>
  <2>1. t = AddWord(cut, width)
    BY <1>2 DEF AppendWord
  <2>0. Chunks(s.word, width) = chunks
    BY ChunksCut DEF WrapStates, Sized
  <2>2. /\ chunks \in Seq(Full(width)) /\ rest \in Seq(Symbols) /\ rest # <<>>
        /\ chunks = <<>> => rest = s.word
    <3>1. s.word \in Seq(Symbols)
      BY DEF WrapStates
    <3> QED BY <1>2, <3>1, WordPieces
  <2>3. chunks \in Seq(Seq(Symbols))
    <3>1. Full(width) \subseteq Seq(Symbols)
      BY DEF Full
    <3> QED BY <2>2, <3>1, SeqMonotonic
  <2>4. /\ flushed \in WrapStates /\ flushed.word = s.word /\ flushed.ended = s.ended
        /\ flushed.line = <<>> /\ flushed.lines = before
    BY FlushTyped
  <2>5. CASE chunks = <<>>
    <3>1. cut = s
      BY <2>0, <2>5 DEF CutWord
    <3>2. t = AddWord(s, width)
      BY <2>1, <3>1
    <3> HIDE DEF t, cut, before
    <3>3. s.line # <<>> => (Fits(s.line, s.word, width) <=> Len(s.line) + 1 + Len(s.word) <= width)
      BY FitsSized
    <3>4. WordAppended(t, s, width)
      BY <1>2, <2>5, <3>2, <3>3, AddTyped DEF WordAppended
    <3> QED BY <3>4 DEF t
  <2>6. CASE chunks # <<>>
    <3> DEFINE longer == flushed.lines \o chunks
    <3>1. longer \in Seq(Seq(Symbols))
      <4>1. flushed.lines \in Seq(Seq(Symbols))
        <5> HIDE DEF flushed
        <5> QED BY <2>4 DEF WrapStates
      <4> HIDE DEF flushed, chunks
      <4> QED BY <2>3, <4>1
    <3>2. cut = [flushed EXCEPT !.lines = longer, !.word = rest]
      BY <2>0, <2>4, <2>6 DEF CutWord, Rest
    <3> HIDE DEF cut, chunks, rest, longer, flushed
    <3>3. /\ cut \in WrapStates /\ cut.line = <<>> /\ cut.word = rest /\ cut.lines = longer
          /\ cut.ended = s.ended
      BY <2>2, <2>4, <3>1, <3>2 DEF WrapStates
    <3> HIDE DEF t, before
    <3>4. t \in WrapStates /\ t.word = <<>> /\ t.ended = s.ended /\ t.lines = longer /\ t.line = rest
      BY <2>1, <3>3, AddTyped
    <3>5. WordAppended(t, s, width)
      <4>1. longer = before \o chunks
        BY <2>4 DEF longer
      <4> QED BY <1>2, <2>6, <3>4, <4>1 DEF WordAppended, before, chunks, rest
    <3> QED BY <3>5 DEF t
  <2> QED BY <2>5, <2>6
<1> QED BY <1>1, <1>2
LEMMA EmptyTyped == Empty \in WrapStates /\ <<>> \in Seq(Symbols)
<1>1. <<>> \in Seq(Symbols) /\ <<>> \in Seq(Seq(Symbols))
  OBVIOUS
<1> QED BY <1>1 DEF Empty, WrapStates

\* What a character makes of the state, where t is what appendWord() would.
Wraps(new, t, s, c) ==
  /\ new \in WrapStates
  /\ c = Return => new = s
  /\ c = Newline => /\ new.lines = Append(t.lines, t.line) /\ new.line = <<>>
                    /\ new.word = <<>> /\ new.ended = TRUE
  /\ c \in Blanks => /\ new.lines = t.lines /\ new.line = t.line
                     /\ new.word = <<>> /\ new.ended = FALSE
  /\ c \notin Blanks \cup {Newline, Return} =>
       /\ new.lines = s.lines /\ new.line = s.line
       /\ new.word = Append(s.word, c) /\ new.ended = FALSE

LEMMA WrappingTyped ==
  ASSUME NEW width \in Nat \ {0}, NEW s \in WrapStates, NEW c \in Symbols
  PROVE  Wraps(Wrapping(s, c, width), AppendWord(s, width), s, c)
<1> DEFINE t == AppendWord(s, width)
           flushed == FlushLine(t, TRUE)
           new == Wrapping(s, c, width)
           longer == Append(s.word, c)
<1>1. t \in WrapStates /\ t.word = <<>>
  BY AppendAlways
<1>2. longer \in Seq(Symbols)
  BY DEF WrapStates
<1>3. new = CASE c = Return -> s
              [] c = Newline -> [flushed EXCEPT !.ended = TRUE]
              [] c \in {Blank, Tab} -> [t EXCEPT !.ended = FALSE]
              [] OTHER -> [s EXCEPT !.word = longer, !.ended = FALSE]
  BY DEF Wrapping
<1>4. /\ flushed \in WrapStates /\ flushed.word = t.word /\ flushed.line = <<>>
      /\ flushed.lines = Append(t.lines, t.line)
  <2> HIDE DEF t
  <2> QED BY <1>1, FlushTyped
<1> HIDE DEF t, flushed, new, longer
<1>5. CASE c = Return
  <2>1. new = s
    <3>1. c # Newline /\ c \notin {Blank, Tab}
      BY <1>5, Separators
    <3> QED BY <1>3, <1>5, <3>1
  <2> QED BY <1>5, <2>1, Separators DEF Wraps, Blanks, t, new
<1>6. CASE c = Newline
  <2>1. new = [flushed EXCEPT !.ended = TRUE]
    BY <1>3, <1>6, Separators
  <2>2. /\ new \in WrapStates /\ new.lines = flushed.lines /\ new.line = flushed.line
        /\ new.word = flushed.word /\ new.ended = TRUE
    BY <1>4, <2>1 DEF WrapStates
  <2>3. Wraps(new, t, s, c)
    BY <1>1, <1>4, <1>6, <2>2, Separators DEF Wraps, Blanks
  <2> QED BY <2>3 DEF new, t
<1>7. CASE c \in Blanks
  <2>1. new = [t EXCEPT !.ended = FALSE]
    <3>1. c # Return /\ c # Newline /\ c \in {Blank, Tab}
      BY <1>7, Separators DEF Blanks
    <3> QED BY <1>3, <3>1
  <2>2. /\ new \in WrapStates /\ new.lines = t.lines /\ new.line = t.line
        /\ new.word = t.word /\ new.ended = FALSE
    BY <1>1, <2>1 DEF WrapStates
  <2>3. Wraps(new, t, s, c)
    BY <1>1, <1>7, <2>2, Separators DEF Wraps, Blanks
  <2> QED BY <2>3 DEF new, t
<1>8. CASE c \notin Blanks \cup {Newline, Return}
  <2>1. new = [s EXCEPT !.word = longer, !.ended = FALSE]
    BY <1>3, <1>8 DEF Blanks
  <2>2. /\ new \in WrapStates /\ new.lines = s.lines /\ new.line = s.line
        /\ new.word = longer /\ new.ended = FALSE
    BY <1>2, <2>1 DEF WrapStates
  <2>3. Wraps(new, t, s, c)
    BY <1>8, <2>2 DEF Wraps, longer
  <2> QED BY <2>3 DEF new, t
<1> QED BY <1>5, <1>6, <1>7, <1>8

LEMMA AppendSized ==
  ASSUME NEW width \in Nat \ {0}, NEW s \in WrapStates, NEW length \in Nat, length <= IntMax,
         Sized(s, length)
  PROVE  Sized(s, IntMax) /\ Len(AppendWord(s, width).line) <= length
<1> DEFINE t == AppendWord(s, width)
           rest == Rest(s.word, width)
<1>0. IntMax \in Nat /\ s.word \in Seq(Symbols) /\ s.line \in Seq(Symbols)
  BY WrapAssumption DEF WrapStates
<1>1. Sized(s, IntMax)
  BY <1>0, SizedMore
<1>2. WordAppended(t, s, width)
  BY <1>1, AppendTyped
<1>3. s.word # <<>> => rest \in Seq(Symbols) /\ Len(rest) <= Len(s.word)
  BY <1>0, WordPieces
<1>4. \/ t.line = s.line
      \/ t.line = s.word
      \/ s.word # <<>> /\ t.line = rest
      \/ s.line # <<>> /\ t.line = s.line \o <<Blank>> \o s.word
  <2> HIDE DEF t, rest
  <2> QED BY <1>2 DEF WordAppended, rest
<1>5. Len(s.line \o <<Blank>> \o s.word) = Len(s.line) + 1 + Len(s.word)
  BY <1>0
<1>6. Len(s.line) \in Nat /\ Len(s.word) \in Nat /\ Len(<<>>) = 0
  BY <1>0
<1>7. Len(s.word) <= length /\ (s.line # <<>> => Len(s.line) + 1 + Len(s.word) <= length)
  BY DEF Sized
<1>8. Len(s.line) <= length
  <2>1. CASE s.line = <<>>
    BY <1>6, <2>1
  <2>2. CASE s.line # <<>>
    <3> DEFINE a == Len(s.line)
               b == Len(s.word)
    <3>1. a \in Nat /\ b \in Nat /\ a + 1 + b <= length
      BY <1>6, <1>7, <2>2
    <3> HIDE DEF a, b
    <3>2. a <= length
      BY <3>1
    <3> QED BY <3>2 DEF a
  <2> QED BY <2>1, <2>2
<1> HIDE DEF t, rest
<1>9. Len(t.line) <= length
  <2>1. CASE t.line = s.line
    BY <1>8, <2>1
  <2>2. CASE t.line = s.word
    BY <1>7, <2>2
  <2>3. CASE s.word # <<>> /\ t.line = rest
    <3>1. Len(rest) \in Nat /\ Len(rest) <= Len(s.word)
      BY <1>3, <2>3
    <3> QED BY <1>6, <1>7, <2>3, <3>1
  <2>4. CASE s.line # <<>> /\ t.line = s.line \o <<Blank>> \o s.word
    BY <1>5, <1>7, <2>4
  <2> QED BY <1>4, <2>1, <2>2, <2>3, <2>4
<1> QED BY <1>1, <1>9 DEF t

LEMMA WrappingSized ==
  ASSUME NEW width \in Nat \ {0}, NEW s \in WrapStates, NEW c \in Symbols,
         NEW length \in Nat, length <= IntMax, Sized(s, length)
  PROVE  Sized(Wrapping(s, c, width), length + 1)
<1> DEFINE t == AppendWord(s, width)
           new == Wrapping(s, c, width)
<1>1. Wraps(new, t, s, c)
  BY WrappingTyped
<1>2. Len(t.line) <= length /\ t.line \in Seq(Symbols)
  BY AppendSized, AppendAlways DEF WrapStates
<1>3. s.word \in Seq(Symbols) /\ s.line \in Seq(Symbols)
  BY DEF WrapStates
<1>4. Len(s.word) <= length /\ (s.line # <<>> => Len(s.line) + 1 + Len(s.word) <= length)
  BY DEF Sized
<1> HIDE DEF t, new
<1>5. Len(Append(s.word, c)) = Len(s.word) + 1 /\ Len(s.word) \in Nat /\ Len(s.line) \in Nat
      /\ Len(t.line) \in Nat /\ Len(<<>>) = 0
  BY <1>2, <1>3
<1>6. CASE c = Return
  <2>1. new = s
    BY <1>1, <1>6 DEF Wraps
  <2>2. Sized(s, length + 1)
    BY SizedMore
  <2> QED BY <2>1, <2>2 DEF new
<1>7. CASE c = Newline
  <2>1. new.line = <<>> /\ new.word = <<>>
    BY <1>1, <1>7 DEF Wraps
  <2>2. Sized(new, length + 1)
    BY <1>5, <2>1 DEF Sized
  <2> QED BY <2>2 DEF new
<1>8. CASE c \in Blanks
  <2>1. new.line = t.line /\ new.word = <<>>
    BY <1>1, <1>8 DEF Wraps
  <2>2. Sized(new, length + 1)
    BY <1>2, <1>5, <2>1 DEF Sized
  <2> QED BY <2>2 DEF new
<1>9. CASE c \notin Blanks \cup {Newline, Return}
  <2>1. new.line = s.line /\ new.word = Append(s.word, c)
    BY <1>1, <1>9 DEF Wraps
  <2> DEFINE a == Len(s.line)
             b == Len(s.word)
             empty == s.line = <<>>
             n == Len(new.word)
  <2>2. a \in Nat /\ b \in Nat /\ n = b + 1 /\ b <= length /\ (~empty => a + 1 + b <= length)
    BY <1>4, <1>5, <2>1
  <2>3. Sized(new, length + 1) <=> n <= length + 1 /\ (~empty => a + 1 + n <= length + 1)
    BY <2>1 DEF Sized
  <2> HIDE DEF a, b, empty, n
  <2>4. Sized(new, length + 1)
    BY <2>2, <2>3
  <2> QED BY <2>4 DEF new
<1> QED BY <1>6, <1>7, <1>8, <1>9

Wrapped(s, width) ==
  LET Step(st, c) == Wrapping(st, c, width) IN Series!FoldLeft(Step, Empty, s)
WrappingOf(width) == [p \in WrapStates \X Symbols |-> Wrapping(p[1], p[2], width)]

LEMMA SameMaximum == \A S : Max(S) = Series!Max(S)
BY DEF Max, Series!Max

LEMMA WrappingOfTyped ==
  ASSUME NEW width \in Nat \ {0}
  PROVE  /\ WrappingOf(width) \in [WrapStates \X Symbols -> WrapStates]
         /\ \A v \in WrapStates, e \in Symbols : WrappingOf(width)[<<v, e>>] = Wrapping(v, e, width)
<1>1. ASSUME NEW v \in WrapStates, NEW e \in Symbols PROVE Wrapping(v, e, width) \in WrapStates
  BY WrappingTyped DEF Wraps
<1> QED BY <1>1 DEF WrappingOf

LEMMA WrappedFolds ==
  ASSUME NEW width \in Nat \ {0}, NEW s \in Seq(Symbols)
  PROVE  Wrapped(s, width) = Fold(WrappingOf(width), Empty, s)
<1> DEFINE n == Len(s)
           F == WrappingOf(width)
           P(it) == it = [r \in SUBSET (1 .. n) |->
                            IF r = {} THEN Empty ELSE Wrapping(it[r \ {Series!Max(r)}], s[Series!Max(r)], width)]
           c == CHOOSE it : P(it)
<1>0. n \in Nat /\ DOMAIN s = 1 .. n /\ Empty \in WrapStates
  BY EmptyTyped
<1>1. Wrapped(s, width) = c[1 .. n]
  BY <1>0 DEF Wrapped, Series!FoldLeft, Series!MapThenFoldSet
<1>2. /\ F \in [WrapStates \X Symbols -> WrapStates]
      /\ \A v \in WrapStates, e \in Symbols : F[<<v, e>>] = Wrapping(v, e, width)
  BY WrappingOfTyped
<1> HIDE DEF F
<1>3. PICK d : Iterated(d, WrapStates, Symbols, F, Empty, s)
  BY <1>0, <1>2, FoldIterated
<1>4. P(d)
  <2>1. DOMAIN d = SUBSET (1 .. n) /\ d = [q \in DOMAIN d |-> d[q]]
    BY <1>3 DEF Iterated
  <2>2. ASSUME NEW r \in SUBSET (1 .. n)
        PROVE  d[r] = IF r = {} THEN Empty ELSE Wrapping(d[r \ {Series!Max(r)}], s[Series!Max(r)], width)
    BY <1>2, <1>3, SameMaximum DEF Iterated
  <2> QED BY <2>1, <2>2
<1>5. P(c)
  <2> HIDE DEF P
  <2> QED BY <1>4, Zenon
<1> HIDE DEF c
<1>6. c[1 .. 0] = Empty
  BY <1>5
<1>7. ASSUME NEW k \in 1 .. n, c[1 .. k - 1] \in WrapStates, s[k] \in Symbols
      PROVE  c[1 .. k] = F[<<c[1 .. k - 1], s[k]>>]
  <2>1. /\ 1 .. k \in SUBSET (1 .. n) /\ 1 .. k # {}
        /\ Series!Max(1 .. k) = k /\ (1 .. k) \ {Series!Max(1 .. k)} = 1 .. k - 1
    BY <1>0, MaxOfPrefix, SameMaximum
  <2>2. c[1 .. k] = Wrapping(c[1 .. k - 1], s[k], width)
    BY <1>5, <2>1
  <2> QED BY <1>2, <1>7, <2>2
<1>8. Reaches(c, WrapStates, Symbols, F, Empty, s)
  BY <1>6, <1>7 DEF Reaches
<1> HIDE DEF P
<1>9. Yields(c, F, Empty, s)
  BY <1>0, <1>2, <1>8, FoldReached
<1> QED BY <1>1, <1>9 DEF F, Yields

LEMMA WrappedRules ==
  ASSUME NEW width \in Nat \ {0}, NEW s \in Seq(Symbols)
  PROVE  /\ Wrapped(<<>>, width) = Empty /\ Wrapped(s, width) \in WrapStates
         /\ \A e \in Symbols : Wrapped(Append(s, e), width) = Wrapping(Wrapped(s, width), e, width)
<1> DEFINE F == WrappingOf(width)
<1>0. <<>> \in Seq(Symbols) /\ Empty \in WrapStates /\ \A e \in Symbols : Append(s, e) \in Seq(Symbols)
  BY EmptyTyped
<1>1. /\ F \in [WrapStates \X Symbols -> WrapStates]
      /\ \A v \in WrapStates, e \in Symbols : F[<<v, e>>] = Wrapping(v, e, width)
  BY WrappingOfTyped
<1>2. /\ Wrapped(<<>>, width) = Fold(F, Empty, <<>>) /\ Wrapped(s, width) = Fold(F, Empty, s)
      /\ \A e \in Symbols : Wrapped(Append(s, e), width) = Fold(F, Empty, Append(s, e))
  BY <1>0, WrappedFolds
<1> HIDE DEF F
<1>3. Fold(F, Empty, <<>>) = Empty /\ Fold(F, Empty, s) \in WrapStates
  BY <1>0, <1>1, FoldEmpty, FoldTyped
<1>4. \A e \in Symbols : Fold(F, Empty, Append(s, e)) = F[<<Fold(F, Empty, s), e>>]
  BY FoldAppend
<1> QED BY <1>1, <1>2, <1>3, <1>4

-----------------------------------------------------------------------------
(* Wrapped text: paragraphs, their words and their lines.                  *)

Lists == Seq(Seq(Symbols))

Reassociates(s, t, u) == (s \o t) \o u = s \o (t \o u)

LEMMA Regrouped ==
  ASSUME NEW S, NEW s \in Seq(S), NEW t \in Seq(S), NEW u \in Seq(S) PROVE Reassociates(s, t, u)
BY ConcatAssociative DEF Reassociates

AppendsLast(s, t, e) == s \o Append(t, e) = Append(s \o t, e)

LEMMA AppendedLast ==
  ASSUME NEW S, NEW s \in Seq(S), NEW t \in Seq(S), NEW e \in S PROVE AppendsLast(s, t, e)
<1> DEFINE a == s \o Append(t, e)
           b == Append(s \o t, e)
           longer == Append(t, e)
           both == s \o t
<1>1. longer \in Seq(S) /\ Len(longer) = Len(t) + 1 /\ Len(t) \in Nat /\ Len(s) \in Nat
      /\ longer[Len(t) + 1] = e /\ \A i \in 1 .. Len(t) : longer[i] = t[i]
  OBVIOUS
<1>2. /\ both \in Seq(S) /\ Len(both) = Len(s) + Len(t)
      /\ \A i \in 1 .. Len(s) : both[i] = s[i]
      /\ \A i \in 1 .. Len(t) : both[Len(s) + i] = t[i]
  OBVIOUS
<1>3. /\ a \in Seq(S) /\ Len(a) = Len(s) + Len(longer)
      /\ \A i \in 1 .. Len(s) : a[i] = s[i]
      /\ \A i \in 1 .. Len(longer) : a[Len(s) + i] = longer[i]
  <2> HIDE DEF longer
  <2> QED BY <1>1, Concatenated
<1>4. /\ b \in Seq(S) /\ Len(b) = Len(both) + 1 /\ b[Len(both) + 1] = e
      /\ \A i \in 1 .. Len(both) : b[i] = both[i]
  <2>1. b = Append(both, e)
    OBVIOUS
  <2>2. both \in Seq(S)
    BY <1>2
  <2> HIDE DEF both, b
  <2> QED BY <2>1, <2>2
<1> HIDE DEF a, b, longer, both
<1>5. Len(a) = Len(b)
  BY <1>1, <1>2, <1>3, <1>4
<1>6. ASSUME NEW i \in 1 .. Len(a) PROVE a[i] = b[i]
  <2>1. CASE i \in 1 .. Len(s)
    BY <1>1, <1>2, <1>3, <1>4, <2>1
  <2>2. CASE i \notin 1 .. Len(s)
    <3> DEFINE j == i - Len(s)
    <3>1. j \in 1 .. Len(longer) /\ i = Len(s) + j
      BY <1>1, <1>3, <2>2
    <3> HIDE DEF j
    <3>2. CASE j = Len(t) + 1
      BY <1>1, <1>2, <1>3, <1>4, <3>1, <3>2
    <3>3. CASE j # Len(t) + 1
      <4>1. j \in 1 .. Len(t) /\ i \in 1 .. Len(both)
        BY <1>1, <1>2, <3>1, <3>3
      <4> QED BY <1>1, <1>2, <1>3, <1>4, <3>1, <4>1
    <3> QED BY <3>2, <3>3
  <2> QED BY <2>1, <2>2
<1>7. a = b
  BY <1>3, <1>4, <1>5, <1>6, SeqEqual
<1> QED BY <1>7 DEF a, b, longer, both, AppendsLast

\* A function of the elements of a sequence that becomes longer.
Mapped(s, f) == [i \in DOMAIN s |-> f[s[i]]]
MapsLonger(s, e, f) == Mapped(Append(s, e), f) = Append(Mapped(s, f), f[e])

LEMMA MappedLonger ==
  ASSUME NEW S, NEW T, NEW f \in [S -> T], NEW s \in Seq(S), NEW e \in S
  PROVE  Mapped(s, f) \in Seq(T) /\ MapsLonger(s, e, f) /\ Mapped(<<>>, f) = <<>>
<1> DEFINE n == Len(s)
           longer == Append(s, e)
           mapped == Mapped(s, f)
           a == Mapped(longer, f)
           b == Append(mapped, f[e])
<1>1. n \in Nat /\ DOMAIN s = 1 .. n /\ \A i \in 1 .. n : s[i] \in S
  OBVIOUS
<1>2. /\ DOMAIN longer = 1 .. n + 1 /\ longer[n + 1] = e
      /\ \A i \in 1 .. n : longer[i] = s[i]
  OBVIOUS
<1>3. mapped = [i \in 1 .. n |-> f[s[i]]]
  BY <1>1 DEF Mapped
<1>4. a = [i \in 1 .. n + 1 |-> f[longer[i]]]
  <2> HIDE DEF longer
  <2> QED BY <1>2 DEF Mapped
<1> HIDE DEF longer, mapped, n
<1>5. mapped \in Seq(T) /\ Len(mapped) = n
  <2>1. mapped \in [1 .. n -> T]
    BY <1>1, <1>3
  <2>2. mapped \in Seq(T)
    BY <1>1, <2>1, SeqDef
  <2> QED BY <1>1, <2>1, <2>2
<1>6. /\ b \in Seq(T) /\ Len(b) = n + 1 /\ b[n + 1] = f[e]
      /\ \A i \in 1 .. n : b[i] = mapped[i]
  BY <1>1, <1>5
<1> HIDE DEF a, b
<1>7. a \in Seq(T) /\ Len(a) = n + 1
  <2>1. \A i \in 1 .. n + 1 : longer[i] \in S
    <3>1. \A i \in 1 .. n + 1 : i \in 1 .. n \/ i = n + 1
      BY <1>1
    <3> QED BY <1>1, <1>2, <3>1
  <2>2. a \in [1 .. n + 1 -> T] /\ n + 1 \in Nat
    BY <1>1, <1>4, <2>1
  <2>3. a \in Seq(T)
    BY <2>2, SeqDef
  <2> QED BY <2>2, <2>3
<1>8. \A i \in 1 .. n + 1 : a[i] = b[i]
  <2>1. \A i \in 1 .. n + 1 : i \in 1 .. n \/ i = n + 1
    BY <1>1
  <2>2. n + 1 \in 1 .. n + 1
    BY <1>1
  <2> QED BY <1>1, <1>2, <1>3, <1>4, <1>6, <2>1, <2>2
<1>9. a = b
  BY <1>6, <1>7, <1>8, SeqEqual
<1>10. Mapped(<<>>, f) = <<>>
  BY DEF Mapped
<1> QED BY <1>5, <1>9, <1>10 DEF MapsLonger, a, b, longer, mapped

PieceOf(width) == [word \in Seq(Symbols) |-> Pieces(word, width)]

LEMMA PiecesTyped ==
  ASSUME NEW width \in Nat \ {0}
  PROVE  /\ PieceOf(width) \in [Seq(Symbols) -> Lists]
         /\ \A word \in Seq(Symbols) : PieceOf(width)[word] = Pieces(word, width)
         /\ Pieces(<<>>, width) = <<>>
<1>1. Pieces(<<>>, width) = <<>>
  <2>1. Len(<<>>) = 0 /\ (0 + width - 1) \div width = 0
    OBVIOUS
  <2>2. 1 .. 0 = {}
    OBVIOUS
  <2> QED BY <2>1, <2>2 DEF Pieces
<1>2. ASSUME NEW word \in Seq(Symbols) PROVE Pieces(word, width) \in Lists
  <2>1. CASE word = <<>>
    <3>1. <<>> \in Lists
      BY DEF Lists
    <3> QED BY <1>1, <2>1, <3>1
  <2>2. CASE word # <<>>
    <3> DEFINE chunks == Cuts(word, width)
               rest == Rest(word, width)
    <3>1. /\ chunks \in Seq(Full(width)) /\ rest \in Seq(Symbols)
          /\ Pieces(word, width) = Append(chunks, rest)
      BY <2>2, WordPieces
    <3> HIDE DEF chunks, rest
    <3>2. Full(width) \subseteq Seq(Symbols)
      BY DEF Full
    <3>3. chunks \in Seq(Seq(Symbols))
      BY <3>1, <3>2, SeqMonotonic
    <3> QED BY <3>1, <3>3 DEF Lists
  <2> QED BY <2>1, <2>2
<1> QED BY <1>1, <1>2 DEF PieceOf

AllPieces(words, width) == FlattenSeq([i \in DOMAIN words |-> Pieces(words[i], width)])
PiecesLonger(words, word, width) ==
  AllPieces(Append(words, word), width) = AllPieces(words, width) \o Pieces(word, width)

LEMMA PiecesMapped ==
  ASSUME NEW width \in Nat \ {0}, NEW words \in Lists
  PROVE  AllPieces(words, width) = FlattenSeq(Mapped(words, PieceOf(width)))
<1>1. \A i \in DOMAIN words : words[i] \in Seq(Symbols)
  BY DEF Lists
<1>2. [i \in DOMAIN words |-> Pieces(words[i], width)] = Mapped(words, PieceOf(width))
  BY <1>1, PiecesTyped DEF Mapped
<1> QED BY <1>2 DEF AllPieces

LEMMA MoreWords ==
  ASSUME NEW width \in Nat \ {0}, NEW words \in Lists, NEW word \in Seq(Symbols)
  PROVE  /\ AllPieces(words, width) \in Lists /\ PiecesLonger(words, word, width)
         /\ AllPieces(<<>>, width) = <<>>
<1> DEFINE f == PieceOf(width)
           longer == Append(words, word)
           mapped == Mapped(words, f)
<1>1. f \in [Seq(Symbols) -> Lists] /\ f[word] = Pieces(word, width) /\ f[word] \in Lists
  BY PiecesTyped
<1>2. longer \in Lists /\ <<>> \in Lists /\ words \in Seq(Seq(Symbols))
  BY DEF Lists
<1>3. /\ AllPieces(words, width) = FlattenSeq(mapped)
      /\ AllPieces(longer, width) = FlattenSeq(Mapped(longer, f))
      /\ AllPieces(<<>>, width) = FlattenSeq(Mapped(<<>>, f))
  <2> HIDE DEF longer
  <2> QED BY <1>2, PiecesMapped
<1> HIDE DEF f
<1>4. mapped \in Seq(Lists) /\ MapsLonger(words, word, f) /\ Mapped(<<>>, f) = <<>>
  BY <1>1, <1>2, MappedLonger
<1>5. Mapped(longer, f) = Append(mapped, f[word])
  BY <1>4 DEF MapsLonger
<1> HIDE DEF mapped, longer
<1>6. /\ FlattenSeq(mapped) \in Lists /\ FlattenSeq(<<>>) = <<>>
      /\ FlattenSeq(Append(mapped, f[word])) = FlattenSeq(mapped) \o f[word]
  <2>1. mapped \in Seq(Seq(Seq(Symbols))) /\ f[word] \in Seq(Seq(Symbols))
    BY <1>1, <1>4 DEF Lists
  <2>2. /\ FlattenSeq(mapped) \in Seq(Seq(Symbols)) /\ FlattenSeq(<<>>) = <<>>
        /\ \A e \in Seq(Seq(Symbols)) : FlattenSeq(Append(mapped, e)) = FlattenSeq(mapped) \o e
    BY <2>1, Flattened
  <2> QED BY <2>1, <2>2 DEF Lists
<1> QED BY <1>1, <1>3, <1>4, <1>5, <1>6 DEF PiecesLonger, longer
-----------------------------------------------------------------------------
(* Wrapped text: pieces fill lines.                                        *)

\* Pieces as wide as the area are lines of their own.
LEMMA FilledChunks ==
  ASSUME NEW width \in Nat \ {0}, NEW pieces \in Lists, NEW chunks \in Seq(Full(width))
  PROVE  Filled(pieces \o chunks, width) = Filled(pieces, width) \o chunks
<1> DEFINE K == {n \in Nat : \A q \in Seq(Full(width)) :
                   Len(q) = n => Filled(pieces \o q, width) = Filled(pieces, width) \o q}
<1>0. Full(width) \subseteq Seq(Symbols) /\ pieces \in Seq(Seq(Symbols))
  BY DEF Full, Lists
<1>1. Filled(pieces, width) \in Seq(Seq(Symbols))
  BY <1>0, FilledRules
<1>2. 0 \in K
  <2>1. ASSUME NEW q \in Seq(Full(width)), Len(q) = 0
        PROVE  Filled(pieces \o q, width) = Filled(pieces, width) \o q
    <3>1. q = <<>>
      BY <2>1
    <3>2. pieces \o <<>> = pieces /\ Filled(pieces, width) \o <<>> = Filled(pieces, width)
      BY <1>0, <1>1, ConcatEmptySeq
    <3> QED BY <3>1, <3>2
  <2> QED BY <2>1
<1>3. ASSUME NEW n \in Nat, n \in K PROVE n + 1 \in K
  <2>1. ASSUME NEW q \in Seq(Full(width)), Len(q) = n + 1
        PROVE  Filled(pieces \o q, width) = Filled(pieces, width) \o q
    <3>1. q # <<>>
      BY <2>1
    <3>2. PICK r \in Seq(Full(width)), x \in Full(width) : q = Append(r, x)
      BY <3>1, IsAppend
    <3>3. Len(r) = n
      BY <2>1, <3>2
    <3> DEFINE filled == Filled(pieces, width) \o r
               before == pieces \o r
    <3>4. Filled(before, width) = filled
      BY <1>3, <3>3
    <3>5. r \in Seq(Seq(Symbols)) /\ x \in Seq(Symbols) /\ Len(x) = width
      <4>1. r \in Seq(Seq(Symbols))
        BY <1>0, SeqMonotonic
      <4> QED BY <4>1 DEF Full
    <3>6. before \in Seq(Seq(Symbols)) /\ filled \in Seq(Seq(Symbols))
      BY <1>0, <1>1, <3>5, ConcatProperties
    <3>7. AppendsLast(pieces, r, x) /\ AppendsLast(Filled(pieces, width), r, x)
      BY <1>0, <1>1, <3>5, AppendedLast
    <3>8. pieces \o q = Append(before, x) /\ Filled(pieces, width) \o q = Append(filled, x)
      BY <3>2, <3>7 DEF AppendsLast
    <3> HIDE DEF before, filled
    <3>9. Filled(Append(before, x), width) = Placed(filled, x, width)
      <4>1. \A e \in Seq(Symbols) :
              Filled(Append(before, e), width) = Placed(Filled(before, width), e, width)
        BY <3>6, FilledRules
      <4> QED BY <3>4, <3>5, <4>1
    <3>10. Placed(filled, x, width) = Append(filled, x)
      <4>1. CASE filled = <<>>
        BY <4>1 DEF Placed
      <4>2. CASE filled # <<>>
        <5>1. PICK f \in Seq(Seq(Symbols)), line \in Seq(Symbols) : filled = Append(f, line)
          BY <3>6, <4>2, IsAppend
        <5>2. PlacedOn(Placed(Append(f, line), x, width), f, line, x, width)
          BY <3>5, PlacedLast
        <5>3. ~(Len(line) + 1 + Len(x) <= width)
          <6>1. Len(line) \in Nat
            OBVIOUS
          <6> QED BY <3>5, <6>1
        <5> QED BY <5>1, <5>2, <5>3 DEF PlacedOn
      <4> QED BY <4>1, <4>2
    <3> QED BY <3>8, <3>9, <3>10
  <2> QED BY <2>1
<1> HIDE DEF K
<1>4. \A n \in Nat : n \in K
  BY <1>2, <1>3, Induction, Zenon
<1>5. Len(chunks) \in Nat
  OBVIOUS
<1>6. Len(chunks) \in K
  BY <1>4, <1>5
<1> QED BY <1>6 DEF K

WordFilled(pieces, word, width) ==
  Filled(pieces \o Pieces(word, width), width)
    = Placed(Filled(pieces, width) \o Cuts(word, width), Rest(word, width), width)

LEMMA FilledWord ==
  ASSUME NEW width \in Nat \ {0}, NEW pieces \in Lists, NEW word \in Seq(Symbols), word # <<>>
  PROVE  WordFilled(pieces, word, width)
<1> DEFINE chunks == Cuts(word, width)
           rest == Rest(word, width)
           before == pieces \o chunks
<1>1. /\ chunks \in Seq(Full(width)) /\ rest \in Seq(Symbols)
      /\ Pieces(word, width) = Append(chunks, rest)
  BY WordPieces
<1> HIDE DEF chunks, rest
<1>2. chunks \in Seq(Seq(Symbols)) /\ pieces \in Seq(Seq(Symbols))
  <2>1. Full(width) \subseteq Seq(Symbols)
    BY DEF Full
  <2> QED BY <1>1, <2>1, SeqMonotonic DEF Lists
<1>3. AppendsLast(pieces, chunks, rest)
  BY <1>1, <1>2, AppendedLast
<1>4. pieces \o Pieces(word, width) = Append(before, rest)
  BY <1>1, <1>3 DEF AppendsLast
<1>5. Filled(before, width) = Filled(pieces, width) \o chunks /\ before \in Seq(Seq(Symbols))
  BY <1>1, <1>2, FilledChunks, ConcatProperties
<1> HIDE DEF before
<1>6. Filled(Append(before, rest), width) = Placed(Filled(before, width), rest, width)
  <2>1. \A e \in Seq(Symbols) :
          Filled(Append(before, e), width) = Placed(Filled(before, width), e, width)
    BY <1>5, FilledRules
  <2> QED BY <1>1, <2>1
<1> QED BY <1>4, <1>5, <1>6 DEF WordFilled, chunks, rest

\* What the loop has of a paragraph: all of its lines but the one it builds.
Shows(lines, line, before, filled) ==
  IF line = <<>> THEN filled = <<>> /\ lines = before
  ELSE \E f \in Lists : filled = Append(f, line) /\ lines = before \o f

LEMMA WordShown ==
  ASSUME NEW width \in Nat \ {0}, NEW s \in WrapStates, NEW t, WordAppended(t, s, width),
         NEW before \in Lists, NEW pieces \in Lists,
         Shows(s.lines, s.line, before, Filled(pieces, width))
  PROVE  /\ Shows(t.lines, t.line, before, Filled(pieces \o Pieces(s.word, width), width))
         /\ t.line = <<>> <=> s.line = <<>> /\ s.word = <<>>
<1> DEFINE filled == Filled(pieces, width)
           new == Filled(pieces \o Pieces(s.word, width), width)
           chunks == Cuts(s.word, width)
           rest == Rest(s.word, width)
           flushed == IF s.line = <<>> THEN s.lines ELSE Append(s.lines, s.line)
<1>1. /\ s.line \in Seq(Symbols) /\ s.word \in Seq(Symbols) /\ s.lines \in Seq(Seq(Symbols))
      /\ before \in Seq(Seq(Symbols)) /\ pieces \in Seq(Seq(Symbols))
  BY DEF WrapStates, Lists
<1>2. filled \in Seq(Seq(Symbols))
  BY <1>1, FilledRules
<1>3. CASE s.word = <<>>
  <2>1. t = s
    BY <1>3 DEF WordAppended
  <2>2. pieces \o Pieces(s.word, width) = pieces
    BY <1>1, <1>3, PiecesTyped, ConcatEmptySeq
  <2> QED BY <1>3, <2>1, <2>2
<1>4. CASE s.word # <<>>
  <2>1. /\ chunks \in Seq(Full(width)) /\ rest \in Seq(Symbols) /\ rest # <<>>
        /\ chunks = <<>> => rest = s.word
    BY <1>1, <1>4, WordPieces
  <2>2. new = Placed(filled \o chunks, rest, width)
    BY <1>1, <1>4, FilledWord DEF WordFilled
  <2>3. chunks \in Seq(Seq(Symbols))
    <3>1. Full(width) \subseteq Seq(Symbols)
      BY DEF Full
    <3> QED BY <2>1, <3>1, SeqMonotonic
  <2>4. /\ chunks # <<>> => t.lines = flushed \o chunks /\ t.line = rest
        /\ chunks = <<>> =>
             IF s.line = <<>> THEN t.lines = s.lines /\ t.line = s.word
             ELSE IF Len(s.line) + 1 + Len(s.word) <= width
             THEN t.lines = s.lines /\ t.line = s.line \o <<Blank>> \o s.word
             ELSE t.lines = Append(s.lines, s.line) /\ t.line = s.word
    BY <1>4 DEF WordAppended
  <2>5. Shows(s.lines, s.line, before, filled)
    OBVIOUS
  <2> HIDE DEF filled, new, chunks, rest
  \* The line that is being built, flushed.
  <2>6. flushed = before \o filled /\ flushed \in Seq(Seq(Symbols))
    <3>1. CASE s.line = <<>>
      BY <1>1, <2>5, <3>1, ConcatEmptySeq DEF Shows
    <3>2. CASE s.line # <<>>
      <4>1. PICK f \in Lists : filled = Append(f, s.line) /\ s.lines = before \o f
        BY <2>5, <3>2 DEF Shows
      <4>2. AppendsLast(before, f, s.line)
        BY <1>1, AppendedLast DEF Lists
      <4>3. Append(s.lines, s.line) \in Seq(Seq(Symbols))
        BY <1>1
      <4> QED BY <3>2, <4>1, <4>2, <4>3 DEF AppendsLast
    <3> QED BY <3>1, <3>2
  <2> HIDE DEF flushed
  <2>7. CASE chunks # <<>>
    <3> DEFINE f == filled \o chunks
    <3>1. PICK q \in Seq(Full(width)), x \in Full(width) : chunks = Append(q, x)
      BY <2>1, <2>7, IsAppend
    <3>2. q \in Seq(Seq(Symbols)) /\ x \in Seq(Symbols) /\ Len(x) = width
      <4>1. Full(width) \subseteq Seq(Symbols)
        BY DEF Full
      <4> QED BY <4>1, SeqMonotonic DEF Full
    <3> DEFINE g == filled \o q
    <3>3. f = Append(g, x) /\ g \in Seq(Seq(Symbols))
      <4>1. AppendsLast(filled, q, x)
        BY <1>2, <3>2, AppendedLast
      <4> QED BY <1>2, <3>1, <3>2, <4>1, ConcatProperties DEF AppendsLast
    <3>4. f \in Seq(Seq(Symbols))
      BY <1>2, <2>3, ConcatProperties
    <3>5. new = Placed(f, rest, width)
      BY <2>2
    <3> HIDE DEF f, g
    <3>6. PlacedOn(Placed(Append(g, x), rest, width), g, x, rest, width)
      BY <2>1, <3>2, <3>3, PlacedLast
    <3>7. ~(Len(x) + 1 + Len(rest) <= width)
      <4>1. Len(rest) \in Nat
        BY <2>1
      <4> QED BY <3>2, <4>1
    <3>8. new = Append(f, rest)
      BY <3>3, <3>5, <3>6, <3>7 DEF PlacedOn
    <3>9. t.lines = before \o f
      <4>1. Reassociates(before, filled, chunks)
        BY <1>1, <1>2, <2>3, Regrouped
      <4> QED BY <2>4, <2>6, <2>7, <4>1 DEF Reassociates, f
    <3>10. t.line = rest
      BY <2>4, <2>7
    <3> QED BY <1>4, <2>1, <3>4, <3>8, <3>9, <3>10 DEF Shows, Lists, new
  <2>8. CASE chunks = <<>>
    <3>1. rest = s.word /\ filled \o chunks = filled
      BY <1>2, <2>1, <2>8, ConcatEmptySeq
    <3>2. new = Placed(filled, s.word, width)
      BY <2>2, <3>1
    <3>3. CASE s.line = <<>>
      <4>1. filled = <<>> /\ s.lines = before
        BY <2>5, <3>3 DEF Shows
      <4>2. new = Append(<<>>, s.word)
        BY <3>2, <4>1 DEF Placed
      <4>3. before \o <<>> = before /\ <<>> \in Lists
        BY <1>1, ConcatEmptySeq DEF Lists
      <4>4. t.lines = before /\ t.line = s.word
        BY <2>4, <2>8, <3>3, <4>1
      <4>5. Shows(t.lines, t.line, before, new)
        BY <1>4, <4>2, <4>3, <4>4 DEF Shows
      <4> QED BY <1>4, <4>4, <4>5 DEF new
    <3>4. CASE s.line # <<>>
      <4>1. PICK f \in Lists : filled = Append(f, s.line) /\ s.lines = before \o f
        BY <2>5, <3>4 DEF Shows
      <4>2. f \in Seq(Seq(Symbols))
        BY DEF Lists
      <4>3. PlacedOn(Placed(Append(f, s.line), s.word, width), f, s.line, s.word, width)
        BY <1>1, <4>2, PlacedLast
      <4>4. CASE Len(s.line) + 1 + Len(s.word) <= width
        <5> DEFINE spaced == s.line \o <<Blank>> \o s.word
        <5>1. new = Append(f, spaced) /\ spaced \in Seq(Symbols)
          BY <3>2, <4>1, <4>3, <4>4 DEF PlacedOn
        <5>2. t.lines = s.lines /\ t.line = spaced
          BY <2>4, <2>8, <3>4, <4>4
        <5>3. spaced # <<>>
          <6> DEFINE a == Len(s.line)
                     b == Len(s.word)
          <6>1. a \in Nat /\ b \in Nat /\ Len(spaced) = a + 1 + b
            BY <1>1
          <6> HIDE DEF spaced, a, b
          <6>2. Len(spaced) # 0
            BY <6>1
          <6>3. Len(<<>>) = 0
            OBVIOUS
          <6> QED BY <6>2, <6>3
        <5> HIDE DEF spaced
        <5>4. Shows(t.lines, t.line, before, new)
          BY <4>1, <5>1, <5>2, <5>3 DEF Shows
        <5> QED BY <1>4, <5>2, <5>3, <5>4 DEF new
      <4>5. CASE ~(Len(s.line) + 1 + Len(s.word) <= width)
        <5>1. new = Append(filled, s.word)
          BY <3>2, <4>1, <4>3, <4>5 DEF PlacedOn
        <5>2. t.lines = Append(s.lines, s.line) /\ t.line = s.word
          BY <2>4, <2>8, <3>4, <4>5
        <5>3. t.lines = before \o filled
          BY <2>6, <3>4, <5>2 DEF flushed
        <5>4. Shows(t.lines, t.line, before, new)
          BY <1>2, <1>4, <5>1, <5>2, <5>3 DEF Shows, Lists
        <5> QED BY <1>4, <5>2, <5>4 DEF new
      <4> QED BY <4>4, <4>5
    <3> QED BY <3>3, <3>4
  <2> QED BY <2>7, <2>8
<1> QED BY <1>3, <1>4
-----------------------------------------------------------------------------
(* Wrapped text: the loop follows the paragraphs.                          *)

CutsLast(parts, before, last, c, separators) ==
  CutAt(parts, c, separators)
    = IF c \in separators THEN Append(parts, <<>>) ELSE Append(before, Append(last, c))

LEMMA CutLast ==
  ASSUME NEW parts, NEW before \in Lists, NEW last \in Seq(Symbols), NEW c \in Symbols, NEW separators,
         parts = Append(before, last)
  PROVE  CutsLast(parts, before, last, c, separators)
<1>1. Ends(parts, before, last, Seq(Symbols))
  BY LastOf DEF Lists
<1>2. Append(last, c) \in Seq(Symbols)
  OBVIOUS
<1>3. [parts EXCEPT ![Len(parts)] = Append(@, c)] = Append(before, Append(last, c))
  BY <1>1, <1>2 DEF Ends
<1> QED BY <1>3 DEF CutsLast, CutAt

\* One more element for Split().
SplitsFrom(s, separators, c) ==
  Split(Append(s, c), separators) = CutAt(Split(s, separators), c, separators)

LEMMA SplitStep ==
  ASSUME NEW s \in Seq(Symbols), NEW separators, NEW c \in Symbols
  PROVE  SplitsFrom(s, separators, c)
BY SplitSteps DEF SplitsFrom

LEMMA SplitTyped ==
  ASSUME NEW s \in Seq(Symbols), NEW separators
  PROVE  /\ Split(s, separators) \in Lists /\ Split(s, separators) # <<>>
         /\ Split(<<>>, separators) = Append(<<>>, <<>>)
<1>1. Split(s, separators) \in Parts(Symbols) /\ Split(<<>>, separators) = <<<<>>>>
  BY SplitSteps
<1>2. <<<<>>>> = Append(<<>>, <<>>)
  OBVIOUS
<1> QED BY <1>1, <1>2 DEF Parts, Lists

AllBlank(s) == \A i \in DOMAIN s : s[i] \in Blanks
StaysBlank(s, c) == AllBlank(Append(s, c)) <=> AllBlank(s) /\ c \in Blanks

LEMMA BlankStep == ASSUME NEW s \in Seq(Symbols), NEW c \in Symbols PROVE StaysBlank(s, c)
<1> DEFINE longer == Append(s, c)
           n == Len(s)
<1>1. /\ n \in Nat /\ DOMAIN s = 1 .. n /\ DOMAIN longer = 1 .. n + 1 /\ longer[n + 1] = c
      /\ \A i \in 1 .. n : longer[i] = s[i]
  OBVIOUS
<1> HIDE DEF longer, n
<1>2. n + 1 \in 1 .. n + 1 /\ \A i \in 1 .. n + 1 : i \in 1 .. n \/ i = n + 1
  BY <1>1
<1>3. \A i \in 1 .. n : i \in 1 .. n + 1
  BY <1>1
<1>4. (\A i \in DOMAIN longer : longer[i] \in Blanks) <=> (\A i \in DOMAIN s : s[i] \in Blanks) /\ c \in Blanks
  BY <1>1, <1>2, <1>3
<1> QED BY <1>4 DEF StaysBlank, AllBlank, longer

\* The lines of paragraphs.
LinesOf(paragraph, width) == Filled(AllPieces(Split(paragraph, Blanks), width), width)
OneLine(lines) == IF lines = <<>> THEN <<<<>>>> ELSE lines

LEMMA ParagraphFilled ==
  ASSUME NEW width \in Nat \ {0}, NEW paragraph \in Seq(Symbols)
  PROVE  /\ ParagraphLines(paragraph, width) = OneLine(LinesOf(paragraph, width))
         /\ ParagraphLines(paragraph, width) \in Lists /\ ParagraphLines(paragraph, width) # <<>>
<1>1. ParagraphLines(paragraph, width) = OneLine(LinesOf(paragraph, width))
  BY DEF ParagraphLines, OneLine, LinesOf, AllPieces, Blanks
<1>2. Split(paragraph, Blanks) \in Lists
  BY SplitTyped
<1>3. AllPieces(Split(paragraph, Blanks), width) \in Lists
  BY <1>2, MoreWords, EmptyTyped
<1>4. LinesOf(paragraph, width) \in Lists
  BY <1>3, FilledRules DEF LinesOf, Lists
<1>5. <<<<>>>> \in Lists
  BY EmptyTyped DEF Lists
<1> HIDE DEF Lists
<1> QED BY <1>1, <1>4, <1>5 DEF OneLine

LineOf(width) == [paragraph \in Seq(Symbols) |-> ParagraphLines(paragraph, width)]
AllLines(paragraphs, width) ==
  FlattenSeq([i \in DOMAIN paragraphs |-> ParagraphLines(paragraphs[i], width)])
LinesLonger(paragraphs, paragraph, width) ==
  AllLines(Append(paragraphs, paragraph), width)
    = AllLines(paragraphs, width) \o ParagraphLines(paragraph, width)

LEMMA LinesMapped ==
  ASSUME NEW width \in Nat \ {0}, NEW paragraphs \in Lists
  PROVE  AllLines(paragraphs, width) = FlattenSeq(Mapped(paragraphs, LineOf(width)))
<1>1. \A i \in DOMAIN paragraphs : paragraphs[i] \in Seq(Symbols)
  BY DEF Lists
<1>2. [i \in DOMAIN paragraphs |-> ParagraphLines(paragraphs[i], width)]
        = Mapped(paragraphs, LineOf(width))
  BY <1>1 DEF Mapped, LineOf
<1> QED BY <1>2 DEF AllLines

LEMMA MoreParagraphs ==
  ASSUME NEW width \in Nat \ {0}, NEW paragraphs \in Lists, NEW paragraph \in Seq(Symbols)
  PROVE  /\ AllLines(paragraphs, width) \in Lists /\ LinesLonger(paragraphs, paragraph, width)
         /\ AllLines(<<>>, width) = <<>>
<1> DEFINE f == LineOf(width)
           longer == Append(paragraphs, paragraph)
           mapped == Mapped(paragraphs, f)
<1>1. /\ f \in [Seq(Symbols) -> Lists] /\ f[paragraph] = ParagraphLines(paragraph, width)
      /\ f[paragraph] \in Lists
  BY ParagraphFilled DEF LineOf
<1>2. longer \in Lists /\ <<>> \in Lists /\ paragraphs \in Seq(Seq(Symbols))
  BY DEF Lists
<1>3. /\ AllLines(paragraphs, width) = FlattenSeq(mapped)
      /\ AllLines(longer, width) = FlattenSeq(Mapped(longer, f))
      /\ AllLines(<<>>, width) = FlattenSeq(Mapped(<<>>, f))
  <2> HIDE DEF longer
  <2> QED BY <1>2, LinesMapped
<1> HIDE DEF f
<1>4. mapped \in Seq(Lists) /\ MapsLonger(paragraphs, paragraph, f) /\ Mapped(<<>>, f) = <<>>
  BY <1>1, <1>2, MappedLonger
<1>5. Mapped(longer, f) = Append(mapped, f[paragraph])
  BY <1>4 DEF MapsLonger
<1> HIDE DEF mapped, longer
<1>6. /\ FlattenSeq(mapped) \in Lists /\ FlattenSeq(<<>>) = <<>>
      /\ FlattenSeq(Append(mapped, f[paragraph])) = FlattenSeq(mapped) \o f[paragraph]
  <2>1. mapped \in Seq(Seq(Seq(Symbols))) /\ f[paragraph] \in Seq(Seq(Symbols))
    BY <1>1, <1>4 DEF Lists
  <2>2. /\ FlattenSeq(mapped) \in Seq(Seq(Symbols)) /\ FlattenSeq(<<>>) = <<>>
        /\ \A e \in Seq(Seq(Symbols)) : FlattenSeq(Append(mapped, e)) = FlattenSeq(mapped) \o e
    BY <2>1, Flattened
  <2> QED BY <2>1, <2>2 DEF Lists
<1> QED BY <1>1, <1>3, <1>4, <1>5, <1>6 DEF LinesLonger, longer

\* With the line it builds, the loop has all the lines of the paragraph.
LEMMA LineFlushed ==
  ASSUME NEW lines, NEW line \in Seq(Symbols), NEW before \in Lists, NEW filled \in Lists,
         Shows(lines, line, before, filled)
  PROVE  Append(lines, line) = before \o OneLine(filled)
<1>0. before \in Seq(Seq(Symbols)) /\ <<>> \in Seq(Seq(Symbols)) /\ <<>> \in Seq(Symbols)
  BY EmptyTyped DEF Lists
<1>1. CASE line = <<>>
  <2>1. filled = <<>> /\ lines = before
    BY <1>1 DEF Shows
  <2>2. AppendsLast(before, <<>>, <<>>) /\ before \o <<>> = before
    BY <1>0, AppendedLast, ConcatEmptySeq
  <2>3. <<<<>>>> = Append(<<>>, <<>>)
    OBVIOUS
  <2> QED BY <1>1, <2>1, <2>2, <2>3 DEF AppendsLast, OneLine
<1>2. CASE line # <<>>
  <2>1. PICK f \in Lists : filled = Append(f, line) /\ lines = before \o f
    BY <1>2 DEF Shows
  <2>2. f \in Seq(Seq(Symbols))
    BY DEF Lists
  <2>3. AppendsLast(before, f, line) /\ Ends(Append(f, line), f, line, Seq(Symbols))
    BY <1>0, <2>2, AppendedLast, LastOf
  <2>4. filled # <<>>
    BY <2>1, <2>3 DEF Ends
  <2> QED BY <2>1, <2>3, <2>4 DEF AppendsLast, OneLine
<1> QED BY <1>1, <1>2
-----------------------------------------------------------------------------
(* Wrapped text: what the loop knows, whatever it has read.                *)

Follows(st, s, done, last, words, width) ==
  /\ Split(Without(s, Return), {Newline}) = Append(done, last)
  /\ Split(last, Blanks) = Append(words, st.word)
  /\ st.ended <=> done # <<>> /\ last = <<>>
  /\ st.line = <<>> /\ st.word = <<>> <=> AllBlank(last)
  /\ Shows(st.lines, st.line, AllLines(done, width), Filled(AllPieces(words, width), width))

WrapInv(st, s, width) ==
  \E done \in Lists, last \in Seq(Symbols), words \in Lists : Follows(st, s, done, last, words, width)

LEMMA EmptyFollows == ASSUME NEW width \in Nat \ {0} PROVE WrapInv(Empty, <<>>, width)
<1>1. <<>> \in Lists /\ <<>> \in Seq(Symbols)
  BY EmptyTyped DEF Lists
<1>2. /\ Without(<<>>, Return) = <<>> /\ Split(<<>>, {Newline}) = Append(<<>>, <<>>)
      /\ Split(<<>>, Blanks) = Append(<<>>, <<>>)
  BY <1>1, WithoutRules, SplitTyped
<1>3. AllLines(<<>>, width) = <<>> /\ AllPieces(<<>>, width) = <<>>
  BY <1>1, MoreParagraphs, MoreWords
<1>4. Filled(<<>>, width) = <<>>
  BY <1>1, FilledRules DEF Lists
<1>5. AllBlank(<<>>)
  BY DEF AllBlank
<1>6. Follows(Empty, <<>>, <<>>, <<>>, <<>>, width)
  <2>1. Shows(<<>>, <<>>, <<>>, <<>>)
    BY DEF Shows
  <2>2. Empty.lines = <<>> /\ Empty.line = <<>> /\ Empty.word = <<>> /\ Empty.ended = FALSE
    BY DEF Empty
  <2> QED BY <1>2, <1>3, <1>4, <1>5, <2>1, <2>2 DEF Follows
<1> QED BY <1>1, <1>6 DEF WrapInv

\* appendWord() completes the words that the loop has.
WordEnds(t, done, last, words, word, width) ==
  /\ Shows(t.lines, t.line, AllLines(done, width),
           Filled(AllPieces(Append(words, word), width), width))
  /\ t.line = <<>> <=> AllBlank(last)

LEMMA WordEnded ==
  ASSUME NEW width \in Nat \ {0}, NEW st \in WrapStates, NEW s,
         NEW done \in Lists, NEW last \in Seq(Symbols), NEW words \in Lists,
         Follows(st, s, done, last, words, width), Sized(st, IntMax)
  PROVE  WordEnds(AppendWord(st, width), done, last, words, st.word, width)
<1> DEFINE t == AppendWord(st, width)
           before == AllLines(done, width)
           pieces == AllPieces(words, width)
           word == st.word
<1>1. word \in Seq(Symbols)
  BY DEF WrapStates
<1>2. WordAppended(t, st, width)
  BY AppendTyped
<1>3. pieces \in Lists /\ PiecesLonger(words, word, width)
  <2> HIDE DEF word
  <2> QED BY <1>1, MoreWords
<1>4. before \in Lists
  BY MoreParagraphs, EmptyTyped
<1>5. Shows(st.lines, st.line, before, Filled(pieces, width))
  BY DEF Follows
<1>6. st.line = <<>> /\ st.word = <<>> <=> AllBlank(last)
  BY DEF Follows
<1>7. AllPieces(Append(words, word), width) = pieces \o Pieces(word, width)
  BY <1>3 DEF PiecesLonger
<1> HIDE DEF t, before, pieces
<1>8. /\ Shows(t.lines, t.line, before, Filled(pieces \o Pieces(st.word, width), width))
      /\ t.line = <<>> <=> st.line = <<>> /\ st.word = <<>>
  BY <1>2, <1>3, <1>4, <1>5, WordShown
<1>9. WordEnds(t, done, last, words, word, width)
  BY <1>6, <1>7, <1>8 DEF WordEnds, before
<1> QED BY <1>9 DEF t

LEMMA WrappingFollows ==
  ASSUME NEW width \in Nat \ {0}, NEW st \in WrapStates, NEW s \in Seq(Symbols), NEW c \in Symbols,
         WrapInv(st, s, width), Sized(st, IntMax)
  PROVE  WrapInv(Wrapping(st, c, width), Append(s, c), width)
<1>1. PICK done \in Lists, last \in Seq(Symbols), words \in Lists :
        Follows(st, s, done, last, words, width)
  BY DEF WrapInv
<1> DEFINE new == Wrapping(st, c, width)
           t == AppendWord(st, width)
           longer == Append(s, c)
           word == st.word
           kept == Without(s, Return)
<1>2. Wraps(new, t, st, c)
  BY WrappingTyped
<1>3. WordEnds(t, done, last, words, word, width) /\ t \in WrapStates
  <2>1. WordAppended(t, st, width)
    BY AppendTyped
  <2> QED BY <1>1, <2>1, WordEnded DEF WordAppended
<1>4. word \in Seq(Symbols) /\ <<>> \in Seq(Symbols) /\ <<>> \in Lists
  BY EmptyTyped DEF WrapStates, Lists
<1>5. kept \in Seq(Symbols) /\ Without(longer, Return) = KeptUnless(kept, c, Return)
  <2>1. /\ Without(s, Return) \in Seq(Symbols)
        /\ \A e \in Symbols : Without(Append(s, e), Return) = KeptUnless(Without(s, Return), e, Return)
    BY WithoutRules
  <2> QED BY <2>1
<1>6. /\ Split(kept, {Newline}) = Append(done, last) /\ Split(last, Blanks) = Append(words, word)
      /\ st.ended <=> done # <<>> /\ last = <<>>
      /\ st.line = <<>> /\ st.word = <<>> <=> AllBlank(last)
      /\ Shows(st.lines, st.line, AllLines(done, width), Filled(AllPieces(words, width), width))
  BY <1>1 DEF Follows
<1> HIDE DEF new, t, longer, word, kept
<1>7. CASE c = Return
  <2>1. new = st /\ Without(longer, Return) = kept
    BY <1>2, <1>5, <1>7 DEF Wraps, KeptUnless
  <2>2. Follows(new, longer, done, last, words, width)
    BY <1>6, <2>1 DEF Follows, word
  <2> QED BY <2>2 DEF WrapInv, new, longer
<1>8. c # Return => Without(longer, Return) = Append(kept, c)
  BY <1>5 DEF KeptUnless
\* The text without what is left out, one character later.
<1>9. c # Return =>
        Split(Without(longer, Return), {Newline})
          = IF c = Newline THEN Append(Append(done, last), <<>>) ELSE Append(done, Append(last, c))
  <2>1. SplitsFrom(kept, {Newline}, c)
    BY <1>5, SplitStep
  <2>2. CutsLast(Append(done, last), done, last, c, {Newline})
    BY CutLast
  <2> QED BY <1>6, <1>8, <2>1, <2>2 DEF SplitsFrom, CutsLast
\* The words of its last paragraph.
<1>10. Split(Append(last, c), Blanks)
         = IF c \in Blanks THEN Append(Append(words, word), <<>>) ELSE Append(words, Append(word, c))
  <2>1. SplitsFrom(last, Blanks, c)
    BY SplitStep
  <2>2. CutsLast(Append(words, word), words, word, c, Blanks)
    BY <1>4, CutLast
  <2> QED BY <1>6, <2>1, <2>2 DEF SplitsFrom, CutsLast
<1>11. StaysBlank(last, c) /\ Append(last, c) \in Seq(Symbols) /\ Append(last, c) # <<>>
  BY BlankStep
<1>12. /\ Shows(t.lines, t.line, AllLines(done, width),
                Filled(AllPieces(Append(words, word), width), width))
       /\ t.line = <<>> <=> AllBlank(last)
  BY <1>3 DEF WordEnds
<1>13. Append(words, word) \in Lists /\ Append(done, last) \in Lists /\ Append(done, last) # <<>>
  <2>1. Ends(Append(words, word), words, word, Seq(Symbols))
        /\ Ends(Append(done, last), done, last, Seq(Symbols))
    BY <1>4, LastOf DEF Lists
  <2> QED BY <2>1 DEF Ends, Lists
<1>14. CASE c = Newline
  <2> DEFINE finished == Append(done, last)
  <2>1. /\ new.lines = Append(t.lines, t.line) /\ new.line = <<>>
        /\ new.word = <<>> /\ new.ended = TRUE
    BY <1>2, <1>14 DEF Wraps
  <2>2. Split(Without(longer, Return), {Newline}) = Append(finished, <<>>)
    BY <1>9, <1>14, Separators
  <2>3. AllLines(finished, width) = new.lines
    <3> DEFINE before == AllLines(done, width)
               filled == Filled(AllPieces(Append(words, word), width), width)
    <3>1. before \in Lists /\ LinesLonger(done, last, width)
      BY MoreParagraphs
    <3>2. filled \in Lists
      <4>1. AllPieces(Append(words, word), width) \in Lists
        BY <1>4, <1>13, MoreWords
      <4> QED BY <4>1, FilledRules DEF Lists
    <3>3. LinesOf(last, width) = filled
      BY <1>6 DEF LinesOf
    <3>4. ParagraphLines(last, width) = OneLine(filled)
      BY <3>3, ParagraphFilled
    <3>5. Shows(t.lines, t.line, before, filled) /\ t.line \in Seq(Symbols)
      BY <1>3, <1>12 DEF WrapStates
    <3> HIDE DEF before, filled
    <3>6. Append(t.lines, t.line) = before \o OneLine(filled)
      BY <3>1, <3>2, <3>5, LineFlushed
    <3> QED BY <2>1, <3>1, <3>4, <3>6 DEF LinesLonger, before
  <2>4. Filled(AllPieces(<<>>, width), width) = <<>>
    <3>1. AllPieces(<<>>, width) = <<>>
      BY <1>4, MoreWords
    <3>2. Filled(<<>>, width) = <<>>
      BY <1>4, FilledRules DEF Lists
    <3> QED BY <3>1, <3>2
  <2>5. Split(<<>>, Blanks) = Append(<<>>, <<>>) /\ AllBlank(<<>>)
    BY <1>4, SplitTyped DEF AllBlank
  <2>6. finished # <<>> /\ finished \in Lists
    BY <1>13
  <2> HIDE DEF finished
  <2>7. Follows(new, longer, finished, <<>>, <<>>, width)
    BY <2>1, <2>2, <2>3, <2>4, <2>5, <2>6 DEF Follows, Shows
  <2> QED BY <1>4, <2>6, <2>7 DEF WrapInv, new, longer
<1>15. CASE c \in Blanks
  <2> DEFINE more == Append(words, word)
             later == Append(last, c)
  <2>1. /\ new.lines = t.lines /\ new.line = t.line
        /\ new.word = <<>> /\ new.ended = FALSE
    BY <1>2, <1>15 DEF Wraps
  <2>2. c # Return /\ c # Newline
    BY <1>15, Separators DEF Blanks
  <2>3. Split(Without(longer, Return), {Newline}) = Append(done, later)
    BY <1>9, <2>2
  <2>4. Split(later, Blanks) = Append(more, <<>>)
    BY <1>10, <1>15
  <2>5. AllBlank(later) <=> AllBlank(last)
    BY <1>11, <1>15 DEF StaysBlank
  <2>6. later # <<>> /\ later \in Seq(Symbols) /\ more \in Lists
    BY <1>11, <1>13
  <2>7. Shows(t.lines, t.line, AllLines(done, width), Filled(AllPieces(more, width), width))
    BY <1>12
  <2> HIDE DEF more, later
  <2>8. Follows(new, longer, done, later, more, width)
    BY <1>12, <2>1, <2>3, <2>4, <2>5, <2>6, <2>7 DEF Follows
  <2> QED BY <2>6, <2>8 DEF WrapInv, new, longer
<1>16. CASE c \notin Blanks \cup {Newline, Return}
  <2> DEFINE later == Append(last, c)
             ending == Append(word, c)
  <2>1. /\ new.lines = st.lines /\ new.line = st.line
        /\ new.word = ending /\ new.ended = FALSE
    BY <1>2, <1>16 DEF Wraps, word
  <2>2. Split(Without(longer, Return), {Newline}) = Append(done, later)
    BY <1>9, <1>16
  <2>3. Split(later, Blanks) = Append(words, ending)
    BY <1>10, <1>16
  <2>4. ~AllBlank(later)
    BY <1>11, <1>16 DEF StaysBlank
  <2>5. later # <<>> /\ later \in Seq(Symbols)
    BY <1>11
  <2>6. ending # <<>>
    BY <1>4
  <2> HIDE DEF later, ending
  <2>7. Follows(new, longer, done, later, words, width)
    BY <1>6, <2>1, <2>2, <2>3, <2>4, <2>5, <2>6 DEF Follows
  <2> QED BY <2>5, <2>7 DEF WrapInv, new, longer
<1> QED BY <1>7, <1>14, <1>15, <1>16

LEMMA LoopFollows ==
  ASSUME NEW width \in Nat \ {0}, NEW s \in Seq(Symbols), Len(s) <= IntMax
  PROVE  /\ Wrapped(s, width) \in WrapStates /\ WrapInv(Wrapped(s, width), s, width)
         /\ Sized(Wrapped(s, width), IntMax)
<1> DEFINE K == {n \in Nat : n <= IntMax =>
                   \A q \in Seq(Symbols) : Len(q) = n =>
                     WrapInv(Wrapped(q, width), q, width) /\ Sized(Wrapped(q, width), n)}
<1>0. IntMax \in Nat
  BY WrapAssumption
<1>1. 0 \in K
  <2>1. Wrapped(<<>>, width) = Empty
    BY EmptyTyped, WrappedRules
  <2>2. \A q \in Seq(Symbols) : Len(q) = 0 => q = <<>>
    OBVIOUS
  <2>3. Sized(Empty, 0)
    BY DEF Sized, Empty
  <2> QED BY <2>1, <2>2, <2>3, EmptyFollows
<1>2. ASSUME NEW n \in Nat, n \in K PROVE n + 1 \in K
  <2>1. ASSUME NEW q \in Seq(Symbols), Len(q) = n + 1, n + 1 <= IntMax
        PROVE  WrapInv(Wrapped(q, width), q, width) /\ Sized(Wrapped(q, width), n + 1)
    <3>1. q # <<>>
      BY <2>1
    <3>2. PICK r \in Seq(Symbols), c \in Symbols : q = Append(r, c)
      BY <3>1, IsAppend
    <3>3. Len(r) = n
      BY <2>1, <3>2
    <3>4. WrapInv(Wrapped(r, width), r, width) /\ Sized(Wrapped(r, width), n) /\ n <= IntMax
      BY <1>0, <1>2, <2>1, <3>3
    <3>5. /\ Wrapped(r, width) \in WrapStates
          /\ \A e \in Symbols : Wrapped(Append(r, e), width) = Wrapping(Wrapped(r, width), e, width)
      BY WrappedRules
    <3>6. Sized(Wrapped(r, width), IntMax)
      BY <3>4, <3>5, AppendSized
    <3>7. WrapInv(Wrapping(Wrapped(r, width), c, width), Append(r, c), width)
      BY <3>4, <3>5, <3>6, WrappingFollows
    <3>8. Sized(Wrapping(Wrapped(r, width), c, width), n + 1)
      BY <3>4, <3>5, WrappingSized
    <3> QED BY <3>2, <3>5, <3>7, <3>8
  <2> QED BY <2>1
<1> HIDE DEF K
<1>3. \A n \in Nat : n \in K
  BY <1>1, <1>2, Induction, Zenon
<1>4. Len(s) \in Nat
  OBVIOUS
<1>5. Len(s) \in K
  BY <1>3, <1>4
<1>6. Wrapped(s, width) \in WrapStates
  BY WrappedRules
<1>7. WrapInv(Wrapped(s, width), s, width) /\ Sized(Wrapped(s, width), Len(s))
  BY <1>5 DEF K
<1>8. Sized(Wrapped(s, width), IntMax)
  BY <1>4, <1>6, <1>7, AppendSized
<1> QED BY <1>6, <1>7, <1>8

\* The end of the text: the last paragraph has no line of its own when only
\* blanks follow a newline.
LEMMA LinesOfText ==
  ASSUME NEW width \in Nat \ {0}, text \in Seq(Symbols), Len(text) <= IntMax
  PROVE  WrappedLines(text, width) = AllLines(Paragraphs, width)
<1> DEFINE st == Wrapped(text, width)
           t == AppendWord(st, width)
           parts == Split(Without(text, Return), {Newline})
           withEmpty == t.lines = <<>> \/ t.ended
<1>1. WrappedLines(text, width) = FlushLine(t, withEmpty).lines
  BY DEF WrappedLines, Wrapped
<1>2. st \in WrapStates /\ WrapInv(st, text, width) /\ Sized(st, IntMax)
  BY LoopFollows
<1> HIDE DEF st
<1>3. PICK done \in Lists, last \in Seq(Symbols), words \in Lists :
        Follows(st, text, done, last, words, width)
  BY <1>2 DEF WrapInv
<1>4. WordEnds(t, done, last, words, st.word, width)
  BY <1>2, <1>3, WordEnded
<1>5. t \in WrapStates /\ t.ended = st.ended
  <2>1. WordAppended(t, st, width)
    BY <1>2, AppendTyped
  <2> HIDE DEF t
  <2> QED BY <2>1 DEF WordAppended
<1> HIDE DEF t
<1> DEFINE before == AllLines(done, width)
           filled == Filled(AllPieces(Append(words, st.word), width), width)
<1>6. parts = Append(done, last) /\ (t.ended <=> done # <<>> /\ last = <<>>)
      /\ Split(last, Blanks) = Append(words, st.word)
  BY <1>3, <1>5 DEF Follows
<1>7. Shows(t.lines, t.line, before, filled) /\ (t.line = <<>> <=> AllBlank(last))
  BY <1>4 DEF WordEnds
<1>8. before \in Lists /\ LinesLonger(done, last, width)
  BY MoreParagraphs
<1>9. filled = LinesOf(last, width) /\ ParagraphLines(last, width) = OneLine(filled)
  BY <1>6, ParagraphFilled DEF LinesOf
<1>10. filled \in Lists
  <2>1. Split(last, Blanks) \in Lists
    BY SplitTyped
  <2>2. AllPieces(Append(words, st.word), width) \in Lists
    BY <1>6, <2>1, MoreWords, EmptyTyped
  <2> QED BY <2>2, FilledRules DEF Lists
<1>11. FlushLine(t, withEmpty).lines
         = IF t.line = <<>> /\ ~withEmpty THEN t.lines ELSE Append(t.lines, t.line)
  <2>1. withEmpty \in BOOLEAN
    OBVIOUS
  <2> HIDE DEF withEmpty
  <2> QED BY <1>5, <2>1, FlushTyped
<1>12. t.line \in Seq(Symbols)
  BY <1>5 DEF WrapStates
<1> HIDE DEF before, filled
<1>13. Append(t.lines, t.line) = before \o OneLine(filled)
  <2>1. Shows(t.lines, t.line, before, filled)
    BY <1>7
  <2>2. before \in Lists
    BY <1>8
  <2> QED BY <1>10, <1>12, <2>1, <2>2, LineFlushed
<1>14. AllLines(parts, width) = before \o OneLine(filled)
  BY <1>6, <1>8, <1>9 DEF LinesLonger, before
<1>15. Ends(parts, done, last, Seq(Symbols))
  BY <1>6, LastOf DEF Lists
<1>16. /\ parts[Len(parts)] = last /\ Front(parts) = done
       /\ Len(parts) > 1 <=> done # <<>>
  <2>1. parts[Len(parts)] = last /\ Front(parts) = done /\ Len(parts) = Len(done) + 1 /\ Len(done) \in Nat
    BY <1>15 DEF Ends
  <2>2. Len(done) > 0 <=> done # <<>>
    BY DEF Lists
  <2> HIDE DEF parts
  <2> QED BY <2>1, <2>2
<1>17. Paragraphs = IF done # <<>> /\ last # <<>> /\ AllBlank(last) THEN done ELSE parts
  BY <1>16 DEF Paragraphs, AllBlank, Blanks
\* Lines are missing only before the first paragraph is complete.
<1>18. before = <<>> <=> done = <<>>
  <2>1. CASE done = <<>>
    <3>1. <<>> \in Lists
      BY DEF Lists
    <3> QED BY <2>1, <3>1, MoreParagraphs DEF before
  <2>2. CASE done # <<>>
    <3>1. PICK q \in Lists, p \in Seq(Symbols) : done = Append(q, p)
      BY <2>2, IsAppend DEF Lists
    <3>2. /\ AllLines(q, width) \in Lists /\ LinesLonger(q, p, width)
          /\ ParagraphLines(p, width) \in Lists /\ ParagraphLines(p, width) # <<>>
      BY MoreParagraphs, ParagraphFilled
    <3>3. before = AllLines(q, width) \o ParagraphLines(p, width)
      BY <3>1, <3>2 DEF LinesLonger, before
    <3> QED BY <2>2, <3>2, <3>3, ConcatEqualIffEmpty DEF Lists
  <2> QED BY <2>1, <2>2
<1> HIDE DEF parts
<1>19. CASE t.line = <<>> /\ ~withEmpty
  <2>1. t.lines = before /\ AllBlank(last) /\ done # <<>> /\ last # <<>>
    BY <1>6, <1>7, <1>18, <1>19 DEF Shows
  <2> QED BY <1>1, <1>11, <1>17, <1>19, <2>1 DEF before
<1>20. CASE ~(t.line = <<>> /\ ~withEmpty)
  <2>1. ~(done # <<>> /\ last # <<>> /\ AllBlank(last))
    BY <1>6, <1>7, <1>18, <1>20 DEF Shows
  <2> QED BY <1>1, <1>11, <1>13, <1>14, <1>17, <1>20, <2>1
<1> QED BY <1>19, <1>20

\* drawWrappedText() breaks a text into lines as its paragraphs and words
\* demand, for texts of any number of characters that an int can count, and
\* areas of any width.  Sizes are cast to int; the text's bounds those of its
\* words and lines, so that no cast changes one.
THEOREM LinesAreExact == WrapInit /\ [][WrapNext]_text => []LinesExact
<1>1. WrapInit => text \in Seq(Letters)
  BY DEF WrapInit
<1>2. text \in Seq(Letters) /\ [WrapNext]_text => (text \in Seq(Letters))'
  BY DEF WrapNext
<1>3. text \in Seq(Letters) => LinesExact
  <2> SUFFICES ASSUME text \in Seq(Letters), Len(text) <= IntMax, NEW width \in Widths
               PROVE  WrappedLines(text, width)
                        = FlattenSeq([i \in DOMAIN Paragraphs |-> ParagraphLines(Paragraphs[i], width)])
    BY DEF LinesExact
  <2>1. width \in Nat \ {0}
    BY WrapAssumption
  <2>2. text \in Seq(Symbols)
    <3>1. Letters \subseteq Symbols
      BY DEF Symbols
    <3> QED BY <3>1, SeqMonotonic
  <2> QED BY <2>1, <2>2, LinesOfText DEF AllLines
<1> QED BY <1>1, <1>2, <1>3, PTL
=============================================================================
