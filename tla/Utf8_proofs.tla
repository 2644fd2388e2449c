------------------------------ MODULE Utf8_proofs ------------------------------
(***************************************************************************)
(* What the proofs about texts rest on.  In general: induction over the    *)
(* numbers, with the set of those a fact is true of; folds over sequences; *)
(* recursive functions that scan a sequence from the left; sequences put   *)
(* together.  Of this code: what the UTF-8 decoder and encoder compute.    *)
(***************************************************************************)
EXTENDS Utf8, WellFoundedInduction, SequenceTheorems, TLAPS

-----------------------------------------------------------------------------
(* Induction, with the set of the numbers a fact is true of.               *)

LEMMA Induction ==
  ASSUME NEW S, 0 \in S, \A n \in Nat : n \in S => n + 1 \in S
  PROVE  \A n \in Nat : n \in S
<1> DEFINE T == {n \in Nat : n \notin S}
<1> SUFFICES ASSUME T # {} PROVE FALSE
  OBVIOUS
<1>1. T \subseteq Nat
  OBVIOUS
<1> HIDE DEF T
<1>2. PICK m \in T : \A y \in T : <<y, m>> \notin OpToRel(<, Nat)
  BY NatLessThanWellFounded, WFMin, <1>1, Zenon
<1>3. m \in Nat /\ m \notin S /\ m # 0
  BY DEF T
<1>4. m - 1 \in Nat /\ m - 1 < m /\ (m - 1) + 1 = m
  BY <1>3
<1>5. m - 1 \in T
  BY <1>3, <1>4 DEF T
<1> DEFINE k == m - 1
<1>6. k \in T /\ k \in Nat /\ k < m /\ m \in Nat
  BY <1>3, <1>4, <1>5
<1> HIDE DEF k
<1>7. <<k, m>> \in OpToRel(<, Nat)
  BY <1>6, Zenon DEF OpToRel
<1> QED BY <1>2, <1>6, <1>7

LEMMA MaxInterval ==
  ASSUME NEW k \in Nat, k > 0
  PROVE  Max(1 .. k) = k /\ (1 .. k) \ {Max(1 .. k)} = 1 .. k - 1 /\ 1 .. k # {}
<1> DEFINE P(x) == x \in 1 .. k /\ \A y \in 1 .. k : x >= y
<1>1. P(k)
  OBVIOUS
<1>2. \A x : P(x) => x = k
  OBVIOUS
<1>3. Max(1 .. k) = CHOOSE x : P(x)
  BY DEF Max
<1>4. P(CHOOSE x : P(x))
  BY <1>1, Zenon
<1>5. Max(1 .. k) = k
  <2> HIDE DEF P
  <2> QED BY <1>2, <1>3, <1>4
<1> QED BY <1>5

LEMMA MaxAdded ==
  ASSUME NEW k \in Nat, NEW s \in SUBSET (1 .. k + 1), k + 1 \in s
  PROVE  Max(s) = k + 1 
<1> DEFINE P(x) == x \in s /\ \A y \in s : x >= y
<1>1. P(k + 1)
  OBVIOUS
<1>2. \A x : P(x) => x = k + 1
  OBVIOUS
<1>3. Max(s) = CHOOSE x : P(x)
  BY DEF Max
<1>4. P(CHOOSE x : P(x))
  BY <1>1, Zenon
<1> QED 
  <2> HIDE DEF P
  <2> QED BY <1>2, <1>3, <1>4

LEMMA MaxMember ==
  ASSUME NEW n \in Nat, NEW s \in SUBSET (1 .. n), s # {}
  PROVE  Max(s) \in s
<1> DEFINE T == {k \in Nat : \A r \in SUBSET (1 .. k) : r # {} => \E x \in r : \A y \in r : x >= y}
<1>1. 0 \in T
  <2>1. \A r \in SUBSET (1 .. 0) : r = {}
    OBVIOUS
  <2> QED BY <2>1
<1>2. ASSUME NEW k \in Nat, k \in T PROVE k + 1 \in T
  <2> SUFFICES ASSUME NEW r \in SUBSET (1 .. k + 1), r # {}
               PROVE  \E x \in r : \A y \in r : x >= y
    OBVIOUS
  <2>1. CASE k + 1 \in r
    BY <2>1
  <2>2. CASE k + 1 \notin r
    <3>1. r \in SUBSET (1 .. k)
      BY <2>2
    <3> QED BY <1>2, <3>1
  <2> QED BY <2>1, <2>2
<1> HIDE DEF T
<1>3. \A k \in Nat : k \in T
  BY <1>1, <1>2, Induction, Zenon
<1>4. \E x \in s : \A y \in s : x >= y
  BY <1>3 DEF T
<1> QED BY <1>4 DEF Max

\* generic existence
Iterates(it, F, base, seq, n) ==
  it = [s \in SUBSET (1 .. n) |->
          IF s = {} THEN base ELSE F[<<it[s \ {Max(s)}], seq[Max(s)]>>]]

LEMMA IteratesExist ==
  ASSUME NEW F, NEW base, NEW seq
  PROVE  \A n \in Nat : \E it : Iterates(it, F, base, seq, n)
<1> DEFINE S == {n \in Nat : \E it : Iterates(it, F, base, seq, n)}
<1>1. 0 \in S
  <2> DEFINE it == [s \in SUBSET (1 .. 0) |-> base]
  <2>1. SUBSET (1 .. 0) = {{}}
    OBVIOUS
  <2>2. Iterates(it, F, base, seq, 0)
    BY <2>1 DEF Iterates
  <2> QED BY <2>2
<1>2. ASSUME NEW n \in Nat, n \in S PROVE n + 1 \in S
  <2>1. PICK it : Iterates(it, F, base, seq, n)
    BY <1>2
  <2> DEFINE next == [s \in SUBSET (1 .. n + 1) |->
                 IF n + 1 \in s THEN F[<<it[s \ {n + 1}], seq[n + 1]>>] ELSE it[s]]
             Body(s) == IF s = {} THEN base ELSE F[<<next[s \ {Max(s)}], seq[Max(s)]>>]
  <2>2. ASSUME NEW s \in SUBSET (1 .. n + 1) PROVE next[s] = Body(s)
    <3>1. CASE n + 1 \in s
      <4>1. Max(s) = n + 1
        BY <3>1, MaxAdded
      <4>2. s \ {n + 1} \in SUBSET (1 .. n + 1) /\ n + 1 \notin s \ {n + 1}
        OBVIOUS
      <4>3. next[s \ {n + 1}] = it[s \ {n + 1}] /\ next[s] = F[<<it[s \ {n + 1}], seq[n + 1]>>]
        BY <3>1, <4>2
      <4> HIDE DEF next
      <4> QED BY <3>1, <4>1, <4>3
    <3>2. CASE n + 1 \notin s
      <4>1. s \in SUBSET (1 .. n) /\ next[s] = it[s]
        BY <3>2
      <4>2. it[s] = IF s = {} THEN base ELSE F[<<it[s \ {Max(s)}], seq[Max(s)]>>]
        BY <2>1, <4>1 DEF Iterates
      <4>3. s \ {Max(s)} \in SUBSET (1 .. n + 1) /\ n + 1 \notin s \ {Max(s)}
        BY <3>2
      <4>4. next[s \ {Max(s)}] = it[s \ {Max(s)}] 
        BY <4>3
      <4> HIDE DEF next
      <4> QED BY <4>1, <4>2, <4>4
    <3> QED BY <3>1, <3>2
  <2>3. next = [s \in SUBSET (1 .. n + 1) |-> next[s]]
    OBVIOUS
  <2> HIDE DEF next
  <2>4. Iterates(next, F, base, seq, n + 1)
    BY <2>2, <2>3 DEF Iterates
  <2> QED BY <2>4
<1> HIDE DEF S
<1>3. \A n \in Nat : n \in S
  BY <1>1, <1>2, Induction, Zenon
<1> QED BY <1>3 DEF S

LEMMA Agree ==
  ASSUME NEW n \in Nat, NEW c, NEW d, c[1 .. 0] = d[1 .. 0],
         \A k \in 1 .. n : c[1 .. k - 1] = d[1 .. k - 1] => c[1 .. k] = d[1 .. k]
  PROVE  c[1 .. n] = d[1 .. n]
<1> DEFINE S == {k \in Nat : k <= n => c[1 .. k] = d[1 .. k]}
<1>1. 0 \in S
  OBVIOUS
<1>2. ASSUME NEW k \in Nat, k \in S PROVE k + 1 \in S
  <2>1. CASE k + 1 <= n
    <3>1. k + 1 \in 1 .. n /\ (k + 1) - 1 = k /\ k <= n
      BY <2>1
    <3>2. c[1 .. k] = d[1 .. k]
      BY <1>2, <3>1
    <3>3. c[1 .. (k + 1) - 1] = d[1 .. (k + 1) - 1]
      BY <3>1, <3>2
    <3>4. c[1 .. k + 1] = d[1 .. k + 1]
      BY <3>1, <3>3
    <3> QED BY <3>4
  <2> QED BY <2>1
<1> HIDE DEF S
<1>3. \A k \in Nat : k \in S
  BY <1>1, <1>2, Induction, Zenon
<1> QED BY <1>3 DEF S

\* The values that matter: one prefix after the other.
Steps(it, F, base, seq, n) ==
  /\ it[1 .. 0] = base
  /\ \A k \in 1 .. n : it[1 .. k] = F[<<it[1 .. k - 1], seq[k]>>]

ValuesIn(it, V, n) == \A s \in SUBSET (1 .. n) : it[s] \in V

LEMMA IteratesSteps ==
  ASSUME NEW F, NEW base, NEW seq, NEW n \in Nat, NEW it, Iterates(it, F, base, seq, n)
  PROVE  Steps(it, F, base, seq, n)
<1>1. 1 .. 0 = {} /\ {} \in SUBSET (1 .. n)
  OBVIOUS
<1>2. ASSUME NEW k \in 1 .. n PROVE it[1 .. k] = F[<<it[1 .. k - 1], seq[k]>>]
  <2>1. k \in Nat /\ k > 0 /\ 1 .. k \in SUBSET (1 .. n)
    OBVIOUS
  <2>2. it[1 .. k] = F[<<it[(1 .. k) \ {Max(1 .. k)}], seq[Max(1 .. k)]>>]
    BY <2>1, MaxInterval DEF Iterates
  <2>3. Max(1 .. k) = k /\ (1 .. k) \ {Max(1 .. k)} = 1 .. k - 1
    BY <2>1, MaxInterval
  <2> QED BY <2>2, <2>3
<1> QED BY <1>1, <1>2 DEF Iterates, Steps

LEMMA IteratesTyped ==
  ASSUME NEW V, NEW S, NEW F \in [V \X S -> V], NEW base \in V, NEW seq \in Seq(S),
         NEW it, Iterates(it, F, base, seq, Len(seq))
  PROVE  ValuesIn(it, V, Len(seq))
<1> DEFINE T == {k \in Nat : k <= Len(seq) => \A s \in SUBSET (1 .. k) : it[s] \in V}
<1>0. Len(seq) \in Nat
  OBVIOUS
<1>1. 0 \in T
  <2>1. \A s \in SUBSET (1 .. 0) : s = {} /\ s \in SUBSET (1 .. Len(seq))
    BY <1>0
  <2> QED BY <2>1 DEF Iterates
<1>2. ASSUME NEW k \in Nat, k \in T PROVE k + 1 \in T
  <2> SUFFICES ASSUME k + 1 <= Len(seq), NEW s \in SUBSET (1 .. k + 1) PROVE it[s] \in V
    OBVIOUS
  <2>0. \A r \in SUBSET (1 .. k) : it[r] \in V
    BY <1>0, <1>2
  <2>1. CASE k + 1 \in s
    <3>1. Max(s) = k + 1 /\ s # {} /\ s \in SUBSET (1 .. Len(seq))
      BY <1>0, <2>1, MaxAdded
    <3>2. it[s] = F[<<it[s \ {k + 1}], seq[k + 1]>>]
      BY <3>1 DEF Iterates
    <3>3. s \ {k + 1} \in SUBSET (1 .. k)
      OBVIOUS
    <3>4. it[s \ {k + 1}] \in V /\ seq[k + 1] \in S
      BY <1>0, <2>0, <3>3
    <3> QED BY <3>2, <3>4
  <2>2. CASE k + 1 \notin s
    <3>1. s \in SUBSET (1 .. k)
      BY <2>2
    <3> QED BY <2>0, <3>1
  <2> QED BY <2>1, <2>2
<1> HIDE DEF T
<1>3. \A k \in Nat : k \in T
  BY <1>1, <1>2, Induction, Zenon
<1>4. Len(seq) \in T /\ Len(seq) <= Len(seq)
  BY <1>0, <1>3
<1> QED BY <1>4 DEF T, ValuesIn

Fold(F, base, seq) == (CHOOSE it : Iterates(it, F, base, seq, Len(seq)))[1 .. Len(seq)]

LEMMA FoldIterates ==
  ASSUME NEW F, NEW base, NEW seq, Len(seq) \in Nat
  PROVE  \E it : Iterates(it, F, base, seq, Len(seq)) /\ Fold(F, base, seq) = it[1 .. Len(seq)]
<1>1. \E it : Iterates(it, F, base, seq, Len(seq))
  BY IteratesExist
<1> DEFINE P(it) == Iterates(it, F, base, seq, Len(seq))
<1>2. P(CHOOSE it : P(it))
  BY <1>1, Zenon
<1> QED BY <1>2, Zenon DEF Fold

LEMMA FoldEmpty == ASSUME NEW F, NEW base PROVE Fold(F, base, << >>) = base
<1>1. Len(<< >>) = 0 /\ 0 \in Nat
  OBVIOUS
<1>2. PICK it : Iterates(it, F, base, << >>, 0) /\ Fold(F, base, << >>) = it[1 .. 0]
  BY <1>1, FoldIterates
<1>3. Steps(it, F, base, << >>, 0)
  BY <1>1, <1>2, IteratesSteps
<1> QED BY <1>2, <1>3 DEF Steps

LEMMA FoldAppend ==
  ASSUME NEW F, NEW base, NEW S, NEW seq \in Seq(S), NEW e \in S
  PROVE  Fold(F, base, Append(seq, e)) = F[<<Fold(F, base, seq), e>>]
<1> DEFINE n == Len(seq)
           longer == Append(seq, e)
<1>1. /\ n \in Nat /\ Len(longer) = n + 1 /\ n + 1 \in Nat
      /\ longer[n + 1] = e /\ \A k \in 1 .. n : longer[k] = seq[k]
  OBVIOUS
<1>2. PICK c : Iterates(c, F, base, seq, n) /\ Fold(F, base, seq) = c[1 .. n]
  BY <1>1, FoldIterates
<1>3. PICK d : Iterates(d, F, base, longer, n + 1) /\ Fold(F, base, longer) = d[1 .. n + 1]
  <2> HIDE DEF longer
  <2> QED BY <1>1, FoldIterates
<1> HIDE DEF longer, n
<1>4. Steps(c, F, base, seq, n) /\ Steps(d, F, base, longer, n + 1)
  BY <1>1, <1>2, <1>3, IteratesSteps
<1>5. /\ c[1 .. 0] = base /\ d[1 .. 0] = base
      /\ \A k \in 1 .. n : c[1 .. k] = F[<<c[1 .. k - 1], seq[k]>>]
      /\ \A k \in 1 .. n + 1 : d[1 .. k] = F[<<d[1 .. k - 1], longer[k]>>]
  BY <1>4 DEF Steps
<1>6. ASSUME NEW k \in 1 .. n, c[1 .. k - 1] = d[1 .. k - 1] PROVE c[1 .. k] = d[1 .. k]
  <2>1. k \in 1 .. n + 1
    BY <1>1
  <2>2. c[1 .. k] = F[<<c[1 .. k - 1], seq[k]>>] /\ d[1 .. k] = F[<<d[1 .. k - 1], longer[k]>>]
    BY <1>5, <2>1
  <2>3. longer[k] = seq[k]
    BY <1>1
  <2> QED BY <1>6, <2>2, <2>3
<1>7. c[1 .. n] = d[1 .. n]
  <2>1. c[1 .. 0] = d[1 .. 0]
    BY <1>5
  <2> QED BY <1>1, <1>6, <2>1, Agree, Zenon
<1>8. d[1 .. n + 1] = F[<<d[1 .. (n + 1) - 1], longer[n + 1]>>]
  <2>1. n + 1 \in 1 .. n + 1
    BY <1>1
  <2> QED BY <1>5, <2>1
<1>9. (n + 1) - 1 = n
  BY <1>1
<1> QED BY <1>1, <1>2, <1>3, <1>7, <1>8, <1>9 DEF longer

LEMMA FoldTyped ==
  ASSUME NEW V, NEW S, NEW F \in [V \X S -> V], NEW base \in V, NEW seq \in Seq(S)
  PROVE  Fold(F, base, seq) \in V
<1>1. PICK it : Iterates(it, F, base, seq, Len(seq)) /\ Fold(F, base, seq) = it[1 .. Len(seq)]
  BY FoldIterates
<1>2. ValuesIn(it, V, Len(seq))
  BY <1>1, IteratesTyped
<1> QED BY <1>1, <1>2 DEF ValuesIn

Adding == [p \in Nat \X Nat |-> AddBits(p[1], p[2])]

Bits(p, part) == FoldLeft(AddBits, p, part)

LEMMA AddBitsFolds ==
  ASSUME NEW base \in Nat, NEW seq \in Seq(Nat)
  PROVE  Bits(base, seq) = Fold(Adding, base, seq)
<1> DEFINE n == Len(seq)
           Body(it) == [s \in SUBSET (1 .. n) |->
                          IF s = {} THEN base ELSE AddBits(it[s \ {Max(s)}], seq[Max(s)])]
           P(it) == it = Body(it)
           c == CHOOSE it : P(it)
<1>0. n \in Nat /\ DOMAIN seq = 1 .. n
  OBVIOUS
<1>1. Bits(base, seq) = c[1 .. n]
  BY <1>0 DEF Bits, FoldLeft, MapThenFoldSet
<1>2. Adding \in [Nat \X Nat -> Nat] /\ \A v \in Nat, e \in Nat : Adding[<<v, e>>] = AddBits(v, e)
  <2>1. \A v \in Nat, e \in Nat : AddBits(v, e) \in Nat
    BY DEF AddBits
  <2> QED BY <2>1 DEF Adding
<1>3. PICK d : Iterates(d, Adding, base, seq, n) /\ Fold(Adding, base, seq) = d[1 .. n]
  BY FoldIterates
<1>4. ValuesIn(d, Nat, n)
  BY <1>2, <1>3, IteratesTyped
<1>5. P(d)
  <2>1. ASSUME NEW s \in SUBSET (1 .. n), s # {} PROVE Max(s) \in s
    BY <1>0, <2>1, MaxMember
  <2>2. ASSUME NEW s \in SUBSET (1 .. n), s # {}
        PROVE  Adding[<<d[s \ {Max(s)}], seq[Max(s)]>>] = AddBits(d[s \ {Max(s)}], seq[Max(s)])
    <3>1. Max(s) \in 1 .. n /\ s \ {Max(s)} \in SUBSET (1 .. n)
      BY <2>1, <2>2
    <3>2. d[s \ {Max(s)}] \in Nat /\ seq[Max(s)] \in Nat
      BY <1>0, <1>4, <3>1 DEF ValuesIn
    <3> QED BY <1>2, <3>2
  <2> QED BY <1>3, <2>2 DEF Iterates
<1>6. P(c)
  <2> HIDE DEF P
  <2> QED BY <1>5, Zenon
<1> HIDE DEF c
<1>7. c[1 .. 0] = base
  BY <1>6
<1>8. \A k \in 1 .. n : c[1 .. k] = AddBits(c[1 .. k - 1], seq[k])
  <2> SUFFICES ASSUME NEW k \in 1 .. n PROVE c[1 .. k] = AddBits(c[1 .. k - 1], seq[k])
    OBVIOUS
  <2>1. k \in Nat /\ k > 0 /\ 1 .. k \in SUBSET (1 .. n)
    BY <1>0
  <2>2. Max(1 .. k) = k /\ (1 .. k) \ {Max(1 .. k)} = 1 .. k - 1 /\ 1 .. k # {}
    BY <2>1, MaxInterval
  <2>3. c[1 .. k] = AddBits(c[(1 .. k) \ {Max(1 .. k)}], seq[Max(1 .. k)])
    BY <1>6, <2>1, <2>2
  <2> QED BY <2>2, <2>3
<1>9. Steps(d, Adding, base, seq, n)
  BY <1>0, <1>3, IteratesSteps
<1>10. \A k \in 1 .. n : c[1 .. k - 1] = d[1 .. k - 1] => c[1 .. k] = d[1 .. k]
  <2> SUFFICES ASSUME NEW k \in 1 .. n, c[1 .. k - 1] = d[1 .. k - 1] PROVE c[1 .. k] = d[1 .. k]
    OBVIOUS
  <2>1. d[1 .. k - 1] \in Nat /\ seq[k] \in Nat
    BY <1>0, <1>4 DEF ValuesIn
  <2>2. c[1 .. k] = AddBits(d[1 .. k - 1], seq[k])
    BY <1>8
  <2>3. d[1 .. k] = Adding[<<d[1 .. k - 1], seq[k]>>]
    BY <1>9 DEF Steps
  <2> QED BY <1>2, <2>1, <2>2, <2>3
<1> QED BY <1>0, <1>1, <1>3, <1>7, <1>9, <1>10, Agree DEF Steps
-----------------------------------------------------------------------------
(* The decoder.                                                            *)

Byte == 0 .. 255

LEMMA OneMore ==
  ASSUME NEW S, NEW s \in Seq(S), NEW m \in 1 .. Len(s), NEW n \in m - 1 .. Len(s) - 1
  PROVE  /\ SubSeq(s, m, n + 1) = Append(SubSeq(s, m, n), s[n + 1])
         /\ SubSeq(s, m, n) \in Seq(S) /\ s[n + 1] \in S
<1>1. n + 1 \in m .. Len(s) /\ (n + 1) - 1 = n /\ n + 1 \in 1 .. Len(s)
  OBVIOUS
<1>2. SubSeq(s, m, n + 1) = SubSeq(s, m, n) \o <<s[n + 1]>>
  BY <1>1, SubSeqRecursiveSecond
<1>3. SubSeq(s, m, n) \in Seq(S) /\ s[n + 1] \in S
  BY <1>1
<1> QED BY <1>2, <1>3, AppendIsConcat

LEMMA BitsOfNone == ASSUME NEW p \in Nat PROVE Bits(p, << >>) = p
<1>1. << >> \in Seq(Nat)
  OBVIOUS
<1> QED BY <1>1, AddBitsFolds, FoldEmpty

LEMMA BitsOfOneMore ==
  ASSUME NEW p \in Nat, NEW seq \in Seq(Nat), NEW b \in Nat
  PROVE  /\ Bits(p, Append(seq, b)) = Bits(p, seq) * 64 + (b % 64)
         /\ Bits(p, seq) \in Nat
<1>1. Append(seq, b) \in Seq(Nat)
  OBVIOUS
<1>2. Adding \in [Nat \X Nat -> Nat] /\ \A v \in Nat, e \in Nat : Adding[<<v, e>>] = v * 64 + (e % 64)
  <2>1. \A v \in Nat, e \in Nat : AddBits(v, e) \in Nat /\ AddBits(v, e) = v * 64 + (e % 64)
    BY DEF AddBits
  <2> QED BY <2>1 DEF Adding
<1>3. Fold(Adding, p, Append(seq, b)) = Adding[<<Fold(Adding, p, seq), b>>]
  BY FoldAppend
<1>4. Fold(Adding, p, seq) \in Nat
  BY <1>2, FoldTyped
<1>5. Bits(p, Append(seq, b)) = Fold(Adding, p, Append(seq, b)) /\ Bits(p, seq) = Fold(Adding, p, seq)
  BY <1>1, AddBitsFolds
<1> HIDE DEF Adding
<1>6. Adding[<<Bits(p, seq), b>>] = Bits(p, seq) * 64 + (b % 64)
  BY <1>2, <1>4, <1>5
<1> QED BY <1>3, <1>4, <1>5, <1>6

\* The payload of two, three and four bytes.
LEMMA Values ==
  ASSUME NEW s \in Seq(Byte)
  PROVE  /\ Len(s) >= 2 => Value(s, 2) = (s[1] % 32) * 64 + (s[2] % 64)
         /\ Len(s) >= 3 => Value(s, 3) = ((s[1] % 16) * 64 + (s[2] % 64)) * 64 + (s[3] % 64)
         /\ Len(s) >= 4 =>
              Value(s, 4) = (((s[1] % 8) * 64 + (s[2] % 64)) * 64 + (s[3] % 64)) * 64 + (s[4] % 64)
<1> DEFINE one == SubSeq(s, 2, 1)
           two == SubSeq(s, 2, 2)
           three == SubSeq(s, 2, 3)
           four == SubSeq(s, 2, 4)
<1>0. s \in Seq(Nat) /\ Len(s) \in Nat
  <2>1. Byte \subseteq Nat
    BY DEF Byte
  <2> QED BY <2>1, SeqMonotonic, LenProperties
<1>1. one = << >>
  OBVIOUS
<1>2. Len(s) >= 2 => two = Append(one, s[2]) /\ s[2] \in Nat /\ one \in Seq(Nat)
  <2>1. Len(s) >= 2 => 2 \in 1 .. Len(s) /\ 1 \in 2 - 1 .. Len(s) - 1
    BY <1>0
  <2>2. 1 + 1 = 2
    OBVIOUS
  <2> QED BY <1>0, <2>1, <2>2, OneMore
<1>3. Len(s) >= 3 => three = Append(two, s[3]) /\ s[3] \in Nat /\ two \in Seq(Nat)
  <2>1. Len(s) >= 3 => 2 \in 1 .. Len(s) /\ 2 \in 2 - 1 .. Len(s) - 1
    BY <1>0
  <2> QED BY <1>0, <2>1, OneMore
<1>4. Len(s) >= 4 => four = Append(three, s[4]) /\ s[4] \in Nat /\ three \in Seq(Nat)
  <2>1. Len(s) >= 4 => 2 \in 1 .. Len(s) /\ 3 \in 2 - 1 .. Len(s) - 1
    BY <1>0
  <2> QED BY <1>0, <2>1, OneMore
<1>5. /\ Payload(s[1], 2) = s[1] % 32
      /\ Payload(s[1], 3) = s[1] % 16
      /\ Payload(s[1], 4) = s[1] % 8
  <2>1. 7 - 2 = 5 /\ 7 - 3 = 4 /\ 7 - 4 = 3 /\ 2 ^ 5 = 32 /\ 2 ^ 4 = 16 /\ 2 ^ 3 = 8
    OBVIOUS
  <2> QED BY <2>1 DEF Payload
<1>6. Len(s) >= 2 => s[1] % 32 \in Nat /\ s[1] % 16 \in Nat /\ s[1] % 8 \in Nat
  BY <1>0
<1>7. /\ Value(s, 2) = Bits(s[1] % 32, two)
      /\ Value(s, 3) = Bits(s[1] % 16, three)
      /\ Value(s, 4) = Bits(s[1] % 8, four)
  BY <1>5 DEF Value, Bits
<1> HIDE DEF one, two, three, four
<1>8. ASSUME NEW p \in Nat, Len(s) >= 2
      PROVE  Bits(p, two) = p * 64 + (s[2] % 64)
  <2>1. Bits(p, one) = p
    BY <1>1, BitsOfNone
  <2>2. Bits(p, Append(one, s[2])) = Bits(p, one) * 64 + (s[2] % 64)
    BY <1>2, <1>8, BitsOfOneMore
  <2> QED BY <1>2, <1>8, <2>1, <2>2
<1>9. ASSUME NEW p \in Nat, Len(s) >= 3
      PROVE  Bits(p, three) = (p * 64 + (s[2] % 64)) * 64 + (s[3] % 64)
  <2>1. Bits(p, two) = p * 64 + (s[2] % 64)
    BY <1>0, <1>8, <1>9
  <2>2. Bits(p, Append(two, s[3])) = Bits(p, two) * 64 + (s[3] % 64)
    BY <1>3, <1>9, BitsOfOneMore
  <2> QED BY <1>3, <1>9, <2>1, <2>2
<1>10. ASSUME NEW p \in Nat, Len(s) >= 4
       PROVE  Bits(p, four) = ((p * 64 + (s[2] % 64)) * 64 + (s[3] % 64)) * 64 + (s[4] % 64)
  <2>1. Bits(p, three) = (p * 64 + (s[2] % 64)) * 64 + (s[3] % 64)
    BY <1>0, <1>9, <1>10
  <2>2. Bits(p, Append(three, s[4])) = Bits(p, three) * 64 + (s[4] % 64)
    BY <1>4, <1>10, BitsOfOneMore
  <2> QED BY <1>4, <1>10, <2>1, <2>2
<1>11. Len(s) >= 2 => Value(s, 2) = (s[1] % 32) * 64 + (s[2] % 64)
  BY <1>6, <1>7, <1>8
<1>12. ASSUME Len(s) >= 3
       PROVE  Value(s, 3) = ((s[1] % 16) * 64 + (s[2] % 64)) * 64 + (s[3] % 64)
  <2> DEFINE p == s[1] % 16
  <2>1. p \in Nat /\ Value(s, 3) = Bits(p, three)
    BY <1>0, <1>6, <1>7, <1>12
  <2> HIDE DEF p
  <2>2. Value(s, 3) = (p * 64 + (s[2] % 64)) * 64 + (s[3] % 64)
    BY <1>9, <1>12, <2>1
  <2> QED BY <2>2 DEF p
<1>13. ASSUME Len(s) >= 4
       PROVE  Value(s, 4) = (((s[1] % 8) * 64 + (s[2] % 64)) * 64 + (s[3] % 64)) * 64 + (s[4] % 64)
  <2> DEFINE p == s[1] % 8
  <2>1. p \in Nat /\ Value(s, 4) = Bits(p, four)
    BY <1>0, <1>6, <1>7, <1>13
  <2> HIDE DEF p
  <2>2. Value(s, 4) = ((p * 64 + (s[2] % 64)) * 64 + (s[3] % 64)) * 64 + (s[4] % 64)
    BY <1>10, <1>13, <2>1
  <2> QED BY <2>2 DEF p
<1> QED BY <1>11, <1>12, <1>13

\* What n bytes may be a character of, and when they are.
Starts(s, prefix) == Len(prefix) <= Len(s) /\ SubSeq(s, 1, Len(prefix)) = prefix

LEMMA StartsWith ==
  ASSUME NEW s \in Seq(Byte), NEW p \in Seq(Byte)
  PROVE  Starts(s, p) <=> Len(p) <= Len(s) /\ \A i \in 1 .. Len(p) : s[i] = p[i]
<1>1. Len(p) \in Nat /\ Len(s) \in Nat
  OBVIOUS
<1>2. ASSUME Len(p) <= Len(s)
      PROVE  SubSeq(s, 1, Len(p)) = p <=> \A i \in 1 .. Len(p) : s[i] = p[i]
  <2> DEFINE q == SubSeq(s, 1, Len(p))
  <2>1. q \in Seq(Byte) /\ Len(q) = Len(p) /\ \A i \in 1 .. Len(p) : q[i] = s[i]
    BY <1>1, <1>2
  <2> HIDE DEF q
  <2>2. (\A i \in 1 .. Len(p) : q[i] = p[i]) => q = p
    BY <2>1, SeqEqual
  <2>3. q = p <=> \A i \in 1 .. Len(p) : q[i] = p[i]
    BY <2>2
  <2> QED BY <2>1, <2>3 DEF q
<1> QED BY <1>2 DEF Starts

\* Six bits at a time.
LEMMA SixBits ==
  ASSUME NEW v \in Nat
  PROVE  /\ v = (v \div 64) * 64 + (v % 64) /\ v \div 64 \in Nat /\ v % 64 \in 0 .. 63
         /\ v \div 4096 = (v \div 64) \div 64
         /\ v \div 262144 = ((v \div 64) \div 64) \div 64
  BY SMT

\* The characters that need two, three and four bytes, the bytes that begin
\* them, and the way from one to the other and back.
NeedsTwo(v) == v >= 128 /\ v < 2048
NeedsThree(v) == v >= 2048 /\ v < 65536
NeedsFour(v) == v >= 65536 /\ v <= 1114111

LeadsTwo(b) == b >= 194 /\ b < 224
LeadsThree(b) == b >= 224 /\ b < 240
LeadsFour(b) == b >= 240 /\ b < 245

Two(v) == <<192 + v \div 64, 128 + (v % 64)>>
Three(v) == <<224 + v \div 4096, 128 + ((v \div 64) % 64), 128 + (v % 64)>>
Four(v) ==
  <<240 + v \div 262144, 128 + ((v \div 4096) % 64), 128 + ((v \div 64) % 64), 128 + (v % 64)>>

OfTwo(a, b) == (a % 32) * 64 + (b % 64)
OfThree(a, b, c) == ((a % 16) * 64 + (b % 64)) * 64 + (c % 64)
OfFour(a, b, c, d) == (((a % 8) * 64 + (b % 64)) * 64 + (c % 64)) * 64 + (d % 64)

LEMMA Encodings ==
  ASSUME NEW c \in Nat, IsScalar(c)
  PROVE  /\ c < 128 \/ NeedsTwo(c) \/ NeedsThree(c) \/ NeedsFour(c)
         /\ c < 128 => Encode(c) = <<c>>
         /\ NeedsTwo(c) => Encode(c) = Two(c)
         /\ NeedsThree(c) => Encode(c) = Three(c)
         /\ NeedsFour(c) => Encode(c) = Four(c)
<1>1. 64 ^ 0 = 1 /\ 64 ^ 1 = 64 /\ 64 ^ 2 = 4096 /\ c \div 1 = c
  BY SMT
<1>2. c < 128 \/ NeedsTwo(c) \/ NeedsThree(c) \/ NeedsFour(c)
  BY SMT DEF IsScalar, NeedsTwo, NeedsThree, NeedsFour
<1> QED BY <1>1, <1>2, SMT DEF Encode, NeedsTwo, NeedsThree, NeedsFour, Two, Three, Four

LEMMA Continues ==
  ASSUME NEW b \in Nat
  PROVE  IsContinuation(b) <=> b >= 128 /\ b < 192
  BY SMT DEF IsContinuation

LEMMA IsByte == ASSUME NEW b \in Nat PROVE b < 256 <=> b \in Byte
  BY SMT DEF Byte

LEMMA ByteIsNat == Byte \subseteq Nat
  BY DEF Byte

LEMMA Tuples ==
  ASSUME NEW S, NEW a \in S, NEW b \in S, NEW c \in S, NEW d \in S
  PROVE  /\ <<a>> \in Seq(S) /\ Len(<<a>>) = 1
         /\ <<a, b>> \in Seq(S) /\ Len(<<a, b>>) = 2
         /\ <<a, b, c>> \in Seq(S) /\ Len(<<a, b, c>>) = 3
         /\ <<a, b, c, d>> \in Seq(S) /\ Len(<<a, b, c, d>>) = 4
  OBVIOUS

\* The character of well-formed bytes is encoded by these bytes.
LEMMA TwoBytes ==
  ASSUME NEW a \in Nat, NEW b \in Nat, LeadsTwo(a), IsContinuation(b)
  PROVE  OfTwo(a, b) \in Nat /\ NeedsTwo(OfTwo(a, b)) /\ Two(OfTwo(a, b)) = <<a, b>>
<1> DEFINE v == (a % 32) * 64 + (b % 64)
<1>1. b >= 128 /\ b < 192
  BY Continues
<1>2. v \in Nat /\ v >= 128 /\ v < 2048
  BY <1>1, SMT DEF LeadsTwo
<1>3. 192 + v \div 64 = a /\ 128 + (v % 64) = b
  BY <1>1, SMT DEF LeadsTwo
<1>4. v = OfTwo(a, b)
  BY DEF OfTwo
<1> HIDE DEF v
<1>5. Two(v) = <<a, b>>
  BY <1>3, SMT DEF Two
<1> QED BY <1>2, <1>4, <1>5 DEF NeedsTwo

LEMMA ThreeBytes ==
  ASSUME NEW a \in Nat, NEW b \in Nat, NEW c \in Nat,
         LeadsThree(a), IsContinuation(b), IsContinuation(c)
  PROVE  /\ OfThree(a, b, c) \in Nat
         /\ OfThree(a, b, c) >= 2048 => NeedsThree(OfThree(a, b, c))
         /\ Three(OfThree(a, b, c)) = <<a, b, c>>
<1> DEFINE v == ((a % 16) * 64 + (b % 64)) * 64 + (c % 64)
<1>1. b >= 128 /\ b < 192 /\ c >= 128 /\ c < 192
  BY Continues
<1>2. v \in Nat /\ v < 65536
  BY <1>1, SMT DEF LeadsThree
<1>3. 224 + v \div 4096 = a /\ 128 + ((v \div 64) % 64) = b /\ 128 + (v % 64) = c
  BY <1>1, SMT DEF LeadsThree
<1>4. v = OfThree(a, b, c)
  BY DEF OfThree
<1> HIDE DEF v
<1>5. Three(v) = <<a, b, c>>
  BY <1>3, SMT DEF Three
<1>6. v >= 2048 => NeedsThree(v)
  BY <1>2, SMT DEF NeedsThree
<1> QED BY <1>2, <1>4, <1>5, <1>6

LEMMA FourBytes ==
  ASSUME NEW a \in Nat, NEW b \in Nat, NEW c \in Nat, NEW d \in Nat,
         LeadsFour(a), IsContinuation(b), IsContinuation(c), IsContinuation(d)
  PROVE  /\ OfFour(a, b, c, d) \in Nat
         /\ Four(OfFour(a, b, c, d)) = <<a, b, c, d>>
<1> DEFINE v == (((a % 8) * 64 + (b % 64)) * 64 + (c % 64)) * 64 + (d % 64)
<1>1. b >= 128 /\ b < 192 /\ c >= 128 /\ c < 192 /\ d >= 128 /\ d < 192
  BY Continues
<1>2. v \in Nat
  BY <1>1, SMT DEF LeadsFour
<1>3. /\ 240 + v \div 262144 = a /\ 128 + ((v \div 4096) % 64) = b
      /\ 128 + ((v \div 64) % 64) = c /\ 128 + (v % 64) = d
  BY <1>1, SMT DEF LeadsFour
<1>4. v = OfFour(a, b, c, d)
  BY DEF OfFour
<1> HIDE DEF v
<1>5. Four(v) = <<a, b, c, d>>
  BY <1>3, SMT DEF Four
<1> QED BY <1>2, <1>4, <1>5

\* The encoding of a character is well-formed, and of that character only.
LEMMA BytesOfTwo ==
  ASSUME NEW v \in Nat, NeedsTwo(v)
  PROVE  /\ Two(v) \in Seq(Byte) /\ Len(Two(v)) = 2
         /\ LeadsTwo(Two(v)[1]) /\ IsContinuation(Two(v)[2])
         /\ OfTwo(Two(v)[1], Two(v)[2]) = v
<1> DEFINE a == 192 + v \div 64
           b == 128 + (v % 64)
<1>1. /\ a \in Nat /\ b \in Nat /\ LeadsTwo(a) /\ b >= 128 /\ b < 192 /\ a < 256
  BY SMT DEF NeedsTwo, LeadsTwo
<1>2. OfTwo(a, b) = v
  BY SMT DEF NeedsTwo, OfTwo
<1>3. Two(v) = <<a, b>>
  BY DEF Two
<1> HIDE DEF a, b
<1>4. a \in Byte /\ b \in Byte /\ IsContinuation(b)
  BY <1>1, IsByte, Continues, SMT
<1>5. <<a, b>> \in Seq(Byte) /\ Len(<<a, b>>) = 2
  BY <1>4, Tuples, Zenon
<1> QED BY <1>1, <1>2, <1>3, <1>4, <1>5

LEMMA BytesOfThree ==
  ASSUME NEW v \in Nat, NeedsThree(v)
  PROVE  /\ Three(v) \in Seq(Byte) /\ Len(Three(v)) = 3
         /\ LeadsThree(Three(v)[1])
         /\ IsContinuation(Three(v)[2]) /\ IsContinuation(Three(v)[3])
         /\ OfThree(Three(v)[1], Three(v)[2], Three(v)[3]) = v
<1> DEFINE a == 224 + v \div 4096
           b == 128 + ((v \div 64) % 64)
           c == 128 + (v % 64)
<1>1. /\ a \in Nat /\ b \in Nat /\ c \in Nat /\ LeadsThree(a) /\ a < 256
      /\ b >= 128 /\ b < 192 /\ c >= 128 /\ c < 192
  BY SMT DEF NeedsThree, LeadsThree
<1>2. OfThree(a, b, c) = v
  BY SMT DEF NeedsThree, OfThree
<1>3. Three(v) = <<a, b, c>>
  BY DEF Three
<1> HIDE DEF a, b, c
<1>4. a \in Byte /\ b \in Byte /\ c \in Byte /\ IsContinuation(b) /\ IsContinuation(c)
  BY <1>1, IsByte, Continues, SMT
<1>5. <<a, b, c>> \in Seq(Byte) /\ Len(<<a, b, c>>) = 3
  BY <1>4, Tuples, Zenon
<1> QED BY <1>1, <1>2, <1>3, <1>4, <1>5

LEMMA BytesOfFour ==
  ASSUME NEW v \in Nat, NeedsFour(v)
  PROVE  /\ Four(v) \in Seq(Byte) /\ Len(Four(v)) = 4
         /\ LeadsFour(Four(v)[1])
         /\ IsContinuation(Four(v)[2]) /\ IsContinuation(Four(v)[3]) /\ IsContinuation(Four(v)[4])
         /\ OfFour(Four(v)[1], Four(v)[2], Four(v)[3], Four(v)[4]) = v
<1> DEFINE a == 240 + v \div 262144
           b == 128 + ((v \div 4096) % 64)
           c == 128 + ((v \div 64) % 64)
           d == 128 + (v % 64)
<1>1. /\ a \in Nat /\ b \in Nat /\ c \in Nat /\ d \in Nat /\ LeadsFour(a) /\ a < 256
      /\ b >= 128 /\ b < 192 /\ c >= 128 /\ c < 192 /\ d >= 128 /\ d < 192
  BY SMT DEF NeedsFour, LeadsFour
<1>2. OfFour(a, b, c, d) = v
  BY SMT DEF NeedsFour, OfFour
<1>3. Four(v) = <<a, b, c, d>>
  BY DEF Four
<1> HIDE DEF a, b, c, d
<1>4. /\ a \in Byte /\ b \in Byte /\ c \in Byte /\ d \in Byte
      /\ IsContinuation(b) /\ IsContinuation(c) /\ IsContinuation(d)
  BY <1>1, IsByte, Continues, SMT
<1>5. <<a, b, c, d>> \in Seq(Byte) /\ Len(<<a, b, c, d>>) = 4
  BY <1>4, Tuples, Zenon
<1> QED BY <1>1, <1>2, <1>3, <1>4, <1>5

LEMMA EncodeTyped ==
  ASSUME NEW c \in Nat, IsScalar(c)
  PROVE  Encode(c) \in Seq(Byte) /\ Len(Encode(c)) \in 1 .. 4
<1>1. CASE c < 128
  <2>1. c \in Byte
    BY <1>1, IsByte, SMT
  <2>2. <<c>> \in Seq(Byte) /\ Len(<<c>>) = 1
    BY <2>1
  <2>3. Encode(c) = <<c>>
    BY <1>1, Encodings
  <2> QED BY <2>2, <2>3
<1>2. CASE NeedsTwo(c)
  BY <1>2, Encodings, BytesOfTwo
<1>3. CASE NeedsThree(c)
  BY <1>3, Encodings, BytesOfThree
<1>4. CASE NeedsFour(c)
  BY <1>4, Encodings, BytesOfFour
<1> QED BY <1>1, <1>2, <1>3, <1>4, Encodings

LEMMA FirstBytes ==
  ASSUME NEW b \in Byte
  PROVE  /\ SequenceLength(b) \in {0, 1, 2, 3, 4}
         /\ SequenceLength(b) = 1 <=> b < 128
         /\ SequenceLength(b) = 2 <=> LeadsTwo(b)
         /\ SequenceLength(b) = 3 <=> LeadsThree(b)
         /\ SequenceLength(b) = 4 <=> LeadsFour(b)
  BY SMT DEF SequenceLength, Byte, LeadsTwo, LeadsThree, LeadsFour

\* The outcomes of decodeNextUtf8().
LEMMA DecodeCases ==
  ASSUME NEW s \in Seq(Byte), s # << >>
  PROVE  LET n == SequenceLength(s[1])
         IN /\ n = 0 => DecodeNext(s) = Malformed
            /\ n > Len(s) => DecodeNext(s) = Incomplete
            /\ n = 1 => DecodeNext(s) = [character |-> s[1], length |-> 1, complete |-> TRUE]
            /\ n \in 2 .. Len(s) => DecodeNext(s) = DecodeWhole(s, n)
<1> DEFINE n == SequenceLength(s[1])
<1>1. s[1] \in Byte /\ Len(s) \in Nat /\ Len(s) >= 1
  OBVIOUS
<1>2. n \in 0 .. 4
  BY <1>1, FirstBytes
<1> HIDE DEF n
<1>3. /\ n = 0 => DecodeNext(s) = Malformed
      /\ n > Len(s) => DecodeNext(s) = Incomplete
      /\ n = 1 => DecodeNext(s) = [character |-> s[1], length |-> 1, complete |-> TRUE]
      /\ n \in 2 .. Len(s) => DecodeNext(s) = DecodeWhole(s, n)
  BY <1>1, <1>2 DEF DecodeNext, n
<1> QED BY <1>3 DEF n

LEMMA Leasts == Least(2) = 128 /\ Least(3) = 2048 /\ Least(4) = 65536
  BY SMT DEF Least

LEMMA PrefixBytes ==
  ASSUME NEW s \in Seq(Byte)
  PROVE  /\ Len(s) >= 1 => Starts(s, <<s[1]>>)
         /\ Len(s) >= 2 => Starts(s, <<s[1], s[2]>>)
         /\ Len(s) >= 3 => Starts(s, <<s[1], s[2], s[3]>>)
         /\ Len(s) >= 4 => Starts(s, <<s[1], s[2], s[3], s[4]>>)
<1>0. Len(s) \in Nat
  OBVIOUS
<1> HIDE DEF Byte
<1>1. ASSUME Len(s) >= 1 PROVE Starts(s, <<s[1]>>)
  <2> DEFINE p == <<s[1]>>
  <2>1. p \in Seq(Byte) /\ Len(p) = 1 /\ p[1] = s[1]
    BY <1>0, <1>1
  <2> HIDE DEF p
  <2>2. Starts(s, p)
    BY <1>0, <1>1, <2>1, StartsWith
  <2> QED BY <2>2 DEF p
<1>2. ASSUME Len(s) >= 2 PROVE Starts(s, <<s[1], s[2]>>)
  <2> DEFINE p == <<s[1], s[2]>>
  <2>1. p \in Seq(Byte) /\ Len(p) = 2 /\ p[1] = s[1] /\ p[2] = s[2]
    BY <1>0, <1>2
  <2> HIDE DEF p
  <2>2. Starts(s, p)
    BY <1>0, <1>2, <2>1, StartsWith
  <2> QED BY <2>2 DEF p
<1>3. ASSUME Len(s) >= 3 PROVE Starts(s, <<s[1], s[2], s[3]>>)
  <2> DEFINE p == <<s[1], s[2], s[3]>>
  <2>1. p \in Seq(Byte) /\ Len(p) = 3 /\ p[1] = s[1] /\ p[2] = s[2] /\ p[3] = s[3]
    BY <1>0, <1>3
  <2> HIDE DEF p
  <2>2. Starts(s, p)
    BY <1>0, <1>3, <2>1, StartsWith
  <2> QED BY <2>2 DEF p
<1>4. ASSUME Len(s) >= 4 PROVE Starts(s, <<s[1], s[2], s[3], s[4]>>)
  <2> DEFINE p == <<s[1], s[2], s[3], s[4]>>
  <2>1. /\ p \in Seq(Byte) /\ Len(p) = 4
        /\ p[1] = s[1] /\ p[2] = s[2] /\ p[3] = s[3] /\ p[4] = s[4]
    BY <1>0, <1>4
  <2> HIDE DEF p
  <2>2. Starts(s, p)
    BY <1>0, <1>4, <2>1, StartsWith
  <2> QED BY <2>2 DEF p
<1> QED BY <1>1, <1>2, <1>3, <1>4

\* The bytes that DecodeWhole() takes for a character are the encoding of it.
WellFormed(s, n) ==
  /\ \A i \in 2 .. n : IsContinuation(s[i])
  /\ Value(s, n) >= Least(n)
  /\ IsScalar(Value(s, n))

LEMMA WellFormedBytes ==
  ASSUME NEW s \in Seq(Byte), NEW n \in {2, 3, 4}, n <= Len(s), n = SequenceLength(s[1]),
         WellFormed(s, n)
  PROVE  LET v == Value(s, n)
         IN v \in Nat /\ Starts(s, Encode(v)) /\ Len(Encode(v)) = n
<1>0. /\ Len(s) \in Nat /\ s[1] \in Byte /\ s[2] \in Byte
      /\ n >= 3 => s[3] \in Byte
      /\ n >= 4 => s[4] \in Byte
  OBVIOUS
<1>1. /\ Len(s) \in Nat /\ s[1] \in Nat /\ s[2] \in Nat
      /\ n >= 3 => s[3] \in Nat
      /\ n >= 4 => s[4] \in Nat
  BY <1>0, ByteIsNat
<1> DEFINE v == Value(s, n)
<1>2. IsScalar(v) /\ v >= Least(n) /\ \A i \in 2 .. n : IsContinuation(s[i])
  BY DEF WellFormed
<1>3. CASE n = 2
  <2>1. v = OfTwo(s[1], s[2])
    BY <1>1, <1>3, Values DEF OfTwo
  <2>2. LeadsTwo(s[1]) /\ IsContinuation(s[2])
    <3>1. SequenceLength(s[1]) = 2
      BY <1>3
    <3>2. LeadsTwo(s[1])
      BY <1>0, <3>1, FirstBytes, Zenon
    <3>3. 2 \in 2 .. n
      BY <1>3
    <3> QED BY <1>2, <3>2, <3>3
  <2>3. v \in Nat /\ NeedsTwo(v) /\ Two(v) = <<s[1], s[2]>>
    BY <1>1, <2>1, <2>2, TwoBytes
  <2> HIDE DEF v
  <2>4. Encode(v) = <<s[1], s[2]>>
    BY <1>2, <2>3, Encodings
  <2>5. Starts(s, Encode(v)) /\ Len(Encode(v)) = 2
    BY <1>1, <1>3, <2>4, PrefixBytes
  <2> QED BY <1>3, <2>3, <2>5 DEF v
<1>4. CASE n = 3
  <2>1. v = OfThree(s[1], s[2], s[3])
    BY <1>1, <1>4, Values DEF OfThree
  <2>2. LeadsThree(s[1]) /\ IsContinuation(s[2]) /\ IsContinuation(s[3])
    <3>1. SequenceLength(s[1]) = 3
      BY <1>4
    <3>2. LeadsThree(s[1])
      BY <1>0, <3>1, FirstBytes, Zenon
    <3>3. 2 \in 2 .. n /\ 3 \in 2 .. n
      BY <1>4
    <3> QED BY <1>2, <3>2, <3>3
  <2>3. v \in Nat /\ NeedsThree(v) /\ Three(v) = <<s[1], s[2], s[3]>>
    BY <1>1, <1>2, <1>4, <2>1, <2>2, ThreeBytes, Leasts
  <2> HIDE DEF v
  <2>4. Encode(v) = <<s[1], s[2], s[3]>>
    BY <1>2, <2>3, Encodings
  <2>5. Starts(s, Encode(v)) /\ Len(Encode(v)) = 3
    BY <1>1, <1>4, <2>4, PrefixBytes
  <2> QED BY <1>4, <2>3, <2>5 DEF v
<1>5. CASE n = 4
  <2>1. v = OfFour(s[1], s[2], s[3], s[4])
    BY <1>1, <1>5, Values DEF OfFour
  <2>2. /\ LeadsFour(s[1])
        /\ IsContinuation(s[2]) /\ IsContinuation(s[3]) /\ IsContinuation(s[4])
    <3>1. SequenceLength(s[1]) = 4
      BY <1>5
    <3>2. LeadsFour(s[1])
      BY <1>0, <3>1, FirstBytes, Zenon
    <3>3. 2 \in 2 .. n /\ 3 \in 2 .. n /\ 4 \in 2 .. n
      BY <1>5
    <3> QED BY <1>2, <3>2, <3>3
  <2>3. v \in Nat /\ Four(v) = <<s[1], s[2], s[3], s[4]>>
    BY <1>1, <1>5, <2>1, <2>2, FourBytes
  <2> HIDE DEF v
  <2>4. NeedsFour(v)
    BY <1>2, <1>5, <2>3, Leasts, SMT DEF NeedsFour, IsScalar
  <2>5. Encode(v) = <<s[1], s[2], s[3], s[4]>>
    BY <1>2, <2>3, <2>4, Encodings
  <2>6. Starts(s, Encode(v)) /\ Len(Encode(v)) = 4
    BY <1>1, <1>5, <2>5, PrefixBytes
  <2> QED BY <1>5, <2>3, <2>6 DEF v
<1> QED BY <1>3, <1>4, <1>5

LEMMA WholeCases ==
  ASSUME NEW s, NEW n
  PROVE  /\ WellFormed(s, n) =>
              DecodeWhole(s, n) = [character |-> Value(s, n), length |-> n, complete |-> TRUE]
         /\ ~WellFormed(s, n) => DecodeWhole(s, n) = Malformed
  BY DEF DecodeWhole, WellFormed

\* decodeNextUtf8() yields the character whose encoding comes next, or U+FFFD
\* for one byte.
LEMMA DecodeSound ==
  ASSUME NEW s \in Seq(Byte), DecodeNext(s).complete
  PROVE  LET d == DecodeNext(s)
         IN \/ /\ d.character \in Nat /\ IsScalar(d.character)
               /\ Starts(s, Encode(d.character)) /\ d.length = Len(Encode(d.character))
            \/ d.character = Replacement /\ d.length = 1
<1>1. s # << >>
  BY DEF DecodeNext, Incomplete
<1> DEFINE n == SequenceLength(s[1])
<1>2. s[1] \in Byte /\ Len(s) \in Nat /\ Len(s) >= 1
  BY <1>1
<1>3. n \in {0, 1, 2, 3, 4}
  BY <1>2, FirstBytes, Zenon
<1>4. /\ n = 0 => DecodeNext(s) = Malformed
      /\ n > Len(s) => DecodeNext(s) = Incomplete
      /\ n = 1 => DecodeNext(s) = [character |-> s[1], length |-> 1, complete |-> TRUE]
      /\ n \in 2 .. Len(s) => DecodeNext(s) = DecodeWhole(s, n)
  BY <1>1, DecodeCases
<1>5. n = 1 => s[1] < 128
  BY <1>2, FirstBytes, Zenon
<1>6. ASSUME n \in 2 .. Len(s), WellFormed(s, n)
      PROVE  LET v == Value(s, n)
             IN v \in Nat /\ Starts(s, Encode(v)) /\ Len(Encode(v)) = n /\ IsScalar(v)
  <2>1. n \in {2, 3, 4} /\ n <= Len(s)
    BY <1>2, <1>3, <1>6
  <2>2. IsScalar(Value(s, n))
    BY <1>6 DEF WellFormed
  <2> HIDE DEF n
  <2> QED BY <1>6, <2>1, <2>2, WellFormedBytes DEF n
<1> HIDE DEF n
<1>7. CASE n = 0
  BY <1>4, <1>7 DEF Malformed
<1>8. CASE n = 1
  <2>1. s[1] \in Nat /\ s[1] < 128
    BY <1>2, <1>5, <1>8, ByteIsNat
  <2>2. IsScalar(s[1])
    BY <2>1, SMT DEF IsScalar
  <2>3. Encode(s[1]) = <<s[1]>>
    BY <2>1, <2>2, Encodings
  <2>4. Starts(s, <<s[1]>>) /\ Len(<<s[1]>>) = 1
    BY <1>2, PrefixBytes
  <2>5. DecodeNext(s) = [character |-> s[1], length |-> 1, complete |-> TRUE]
    BY <1>4, <1>8
  <2>6. DecodeNext(s).character = s[1] /\ DecodeNext(s).length = 1
    BY <2>5
  <2> QED BY <2>1, <2>2, <2>3, <2>4, <2>6
<1>9. CASE n > Len(s)
  BY <1>4, <1>9 DEF Incomplete
<1>10. CASE n \in 2 .. Len(s)
  <2>1. CASE WellFormed(s, n)
    BY <1>4, <1>6, <1>10, <2>1, WholeCases
  <2>2. CASE ~WellFormed(s, n)
    BY <1>4, <1>10, <2>2, WholeCases DEF Malformed
  <2> QED BY <2>1, <2>2
<1> QED BY <1>2, <1>3, <1>7, <1>8, <1>9, <1>10

\* And it refuses no encoding.
LEMMA EncodingDecoded ==
  ASSUME NEW s \in Seq(Byte), NEW c \in Nat, IsScalar(c), Starts(s, Encode(c))
  PROVE  DecodeNext(s) = [character |-> c, length |-> Len(Encode(c)), complete |-> TRUE]
<1> DEFINE e == Encode(c)
<1>1. e \in Seq(Byte) /\ Len(e) \in 1 .. 4
  BY EncodeTyped
<1>2. Len(s) \in Nat /\ Len(e) <= Len(s) /\ \A i \in 1 .. Len(e) : s[i] = e[i]
  <2> HIDE DEF e
  <2>1. Starts(s, e)
    BY DEF e
  <2> QED BY <1>1, <2>1, StartsWith
<1>3. s # << >> /\ s[1] \in Byte /\ s[1] = e[1]
  <2> HIDE DEF e
  <2> QED BY <1>1, <1>2
<1> DEFINE n == SequenceLength(s[1])
<1>4. /\ n = 1 => DecodeNext(s) = [character |-> s[1], length |-> 1, complete |-> TRUE]
      /\ n \in 2 .. Len(s) => DecodeNext(s) = DecodeWhole(s, n)
  BY <1>3, DecodeCases
<1>5. ASSUME n = Len(e), n \in {2, 3, 4}, Value(s, n) = c, c >= Least(n),
             \A i \in 2 .. n : IsContinuation(e[i])
      PROVE  DecodeNext(s) = [character |-> c, length |-> Len(e), complete |-> TRUE]
  <2> HIDE DEF e, n
  <2>1. \A i \in 2 .. n : IsContinuation(s[i])
    BY <1>1, <1>2, <1>5
  <2>2. WellFormed(s, n)
    BY <1>5, <2>1 DEF WellFormed
  <2>3. n \in 2 .. Len(s)
    BY <1>2, <1>5
  <2> QED BY <1>4, <1>5, <2>2, <2>3, WholeCases
<1>6. CASE c < 128
  <2>1. e = <<c>>
    BY <1>6, Encodings
  <2>2. s[1] = c /\ Len(e) = 1
    BY <1>3, <2>1
  <2>3. n = 1
    BY <1>3, <1>6, <2>2, FirstBytes, Zenon
  <2> QED BY <1>4, <2>2, <2>3
<1>7. CASE NeedsTwo(c)
  <2>1. e = Two(c)
    BY <1>7, Encodings
  <2> HIDE DEF e, n
  <2>2. /\ Len(e) = 2 /\ LeadsTwo(e[1]) /\ IsContinuation(e[2]) /\ OfTwo(e[1], e[2]) = c
    BY <1>7, <2>1, BytesOfTwo
  <2>3. s[1] = e[1] /\ s[2] = e[2] /\ Len(s) >= 2
    BY <1>2, <2>2
  <2>4. n = 2
    BY <1>3, <2>2, <2>3, FirstBytes, Zenon DEF n
  <2>5. Value(s, 2) = c
    BY <2>2, <2>3, Values DEF OfTwo
  <2>6. c >= Least(2)
    BY <1>7, Leasts DEF NeedsTwo
  <2>7. \A i \in 2 .. 2 : IsContinuation(e[i])
    BY <2>2
  <2>8. n = Len(e) /\ n \in {2, 3, 4} /\ Value(s, n) = c /\ c >= Least(n)
    BY <2>2, <2>4, <2>5, <2>6
  <2> QED BY <1>5, <2>4, <2>7, <2>8 DEF e
<1>8. CASE NeedsThree(c)
  <2>1. e = Three(c)
    BY <1>8, Encodings
  <2> HIDE DEF e, n
  <2>2. /\ Len(e) = 3 /\ LeadsThree(e[1]) /\ IsContinuation(e[2]) /\ IsContinuation(e[3])
        /\ OfThree(e[1], e[2], e[3]) = c
    BY <1>8, <2>1, BytesOfThree
  <2>3. s[1] = e[1] /\ s[2] = e[2] /\ s[3] = e[3] /\ Len(s) >= 3
    BY <1>2, <2>2
  <2>4. n = 3
    BY <1>3, <2>2, <2>3, FirstBytes, Zenon DEF n
  <2>5. Value(s, 3) = c
    BY <2>2, <2>3, Values DEF OfThree
  <2>6. c >= Least(3)
    BY <1>8, Leasts DEF NeedsThree
  <2>7. \A i \in 2 .. 3 : IsContinuation(e[i])
    BY <2>2
  <2>8. n = Len(e) /\ n \in {2, 3, 4} /\ Value(s, n) = c /\ c >= Least(n)
    BY <2>2, <2>4, <2>5, <2>6
  <2> QED BY <1>5, <2>4, <2>7, <2>8 DEF e
<1>9. CASE NeedsFour(c)
  <2>1. e = Four(c)
    BY <1>9, Encodings
  <2> HIDE DEF e, n
  <2>2. /\ Len(e) = 4 /\ LeadsFour(e[1])
        /\ IsContinuation(e[2]) /\ IsContinuation(e[3]) /\ IsContinuation(e[4])
        /\ OfFour(e[1], e[2], e[3], e[4]) = c
    BY <1>9, <2>1, BytesOfFour
  <2>3. s[1] = e[1] /\ s[2] = e[2] /\ s[3] = e[3] /\ s[4] = e[4] /\ Len(s) >= 4
    BY <1>2, <2>2
  <2>4. n = 4
    BY <1>3, <2>2, <2>3, FirstBytes, Zenon DEF n
  <2>5. Value(s, 4) = c
    BY <2>2, <2>3, Values DEF OfFour
  <2>6. c >= Least(4)
    BY <1>9, Leasts, SMT DEF NeedsFour
  <2>7. \A i \in 2 .. 4 : IsContinuation(e[i])
    BY <2>2
  <2>8. n = Len(e) /\ n \in {2, 3, 4} /\ Value(s, n) = c /\ c >= Least(n)
    BY <2>2, <2>4, <2>5, <2>6
  <2> QED BY <1>5, <2>4, <2>7, <2>8 DEF e
<1> QED BY <1>6, <1>7, <1>8, <1>9, Encodings

\* It uses bytes that are there, and waits for at most four.
LEMMA DecodeLength ==
  ASSUME NEW s \in Seq(Byte)
  PROVE  LET d == DecodeNext(s)
         IN /\ d.complete => d.length \in 1 .. Len(s)
            /\ ~d.complete => Len(s) < 4
            /\ d.complete \in BOOLEAN
<1>1. CASE s = << >>
  BY <1>1 DEF DecodeNext, Incomplete
<1>2. CASE s # << >>
  <2> DEFINE n == SequenceLength(s[1])
  <2>1. Len(s) \in Nat /\ Len(s) >= 1 /\ s[1] \in Byte
    BY <1>2
  <2>2. n \in {0, 1, 2, 3, 4}
    BY <2>1, FirstBytes, Zenon
  <2>3. /\ n = 0 => DecodeNext(s) = Malformed
        /\ n > Len(s) => DecodeNext(s) = Incomplete
        /\ n = 1 => DecodeNext(s) = [character |-> s[1], length |-> 1, complete |-> TRUE]
        /\ n \in 2 .. Len(s) => DecodeNext(s) = DecodeWhole(s, n)
    BY <1>2, DecodeCases
  <2>4. \/ DecodeWhole(s, n) = [character |-> Value(s, n), length |-> n, complete |-> TRUE]
        \/ DecodeWhole(s, n) = Malformed
    BY WholeCases
  <2> HIDE DEF n
  <2>5. CASE n > Len(s)
    <3>1. Len(s) < 4
      BY <2>1, <2>2, <2>5
    <3>2. DecodeNext(s) = Incomplete
      BY <2>3, <2>5
    <3> QED BY <3>1, <3>2 DEF Incomplete
  <2>6. CASE n \in 2 .. Len(s)
    <3>1. 1 \in 1 .. Len(s) /\ n \in 1 .. Len(s)
      BY <2>1, <2>6
    <3>2. DecodeNext(s) = DecodeWhole(s, n)
      BY <2>3, <2>6
    <3>3. CASE DecodeWhole(s, n) = Malformed
      BY <3>1, <3>2, <3>3 DEF Malformed
    <3>4. CASE DecodeWhole(s, n) = [character |-> Value(s, n), length |-> n, complete |-> TRUE]
      BY <3>1, <3>2, <3>4
    <3> QED BY <2>4, <3>3, <3>4
  <2>7. CASE n \in {0, 1}
    <3>1. 1 \in 1 .. Len(s)
      BY <2>1
    <3>2. \/ DecodeNext(s) = Malformed
          \/ DecodeNext(s) = [character |-> s[1], length |-> 1, complete |-> TRUE]
      BY <2>3, <2>7
    <3>3. DecodeNext(s).complete = TRUE /\ DecodeNext(s).length = 1
      <4>1. CASE DecodeNext(s) = Malformed
        BY <4>1 DEF Malformed
      <4>2. CASE DecodeNext(s) = [character |-> s[1], length |-> 1, complete |-> TRUE]
        BY <4>2
      <4> QED BY <3>2, <4>1, <4>2
    <3> QED BY <3>1, <3>3
  <2> QED BY <2>1, <2>2, <2>5, <2>6, <2>7
<1> QED BY <1>1, <1>2

\* What it waits for is not said by the bytes there are.
LEMMA DecodeWaiting ==
  ASSUME NEW s \in Seq(Byte), ~DecodeNext(s).complete
  PROVE  DecodeNext(s) = Incomplete
<1>1. CASE s = << >>
  BY <1>1 DEF DecodeNext
<1>2. CASE s # << >>
  <2> DEFINE n == SequenceLength(s[1])
  <2>1. Len(s) \in Nat /\ Len(s) >= 1 /\ s[1] \in Byte
    BY <1>2
  <2>2. n \in {0, 1, 2, 3, 4}
    BY <2>1, FirstBytes, Zenon
  <2>3. /\ n = 0 => DecodeNext(s) = Malformed
        /\ n > Len(s) => DecodeNext(s) = Incomplete
        /\ n = 1 => DecodeNext(s) = [character |-> s[1], length |-> 1, complete |-> TRUE]
        /\ n \in 2 .. Len(s) => DecodeNext(s) = DecodeWhole(s, n)
    BY <1>2, DecodeCases
  <2>4. DecodeWhole(s, n).complete
    BY WholeCases DEF Malformed
  <2> HIDE DEF n
  <2>5. n # 0 /\ n # 1
    BY <2>3 DEF Malformed
  <2>6. ~(n \in 2 .. Len(s))
    BY <2>3, <2>4
  <2>7. n > Len(s)
    BY <2>1, <2>2, <2>5, <2>6
  <2> QED BY <2>3, <2>7
<1> QED BY <1>1, <1>2

LEMMA ReplacementFacts ==
  /\ Replacement \in Nat /\ IsScalar(Replacement) /\ Printable(Replacement)
  /\ Len(Encode(Replacement)) = 3
<1>1. Replacement \in Nat /\ IsScalar(Replacement) /\ NeedsThree(Replacement)
  BY SMT DEF Replacement, IsScalar, NeedsThree
<1>2. Printable(Replacement)
  BY SMT DEF Replacement, Printable
<1>3. Encode(Replacement) = Three(Replacement)
  BY <1>1, Encodings
<1> QED BY <1>1, <1>2, <1>3, BytesOfThree

LEMMA DecodeScalar ==
  ASSUME NEW s \in Seq(Byte)
  PROVE  DecodeNext(s).character \in Nat /\ IsScalar(DecodeNext(s).character)
<1>1. CASE DecodeNext(s).complete
  BY <1>1, DecodeSound, ReplacementFacts
<1>2. CASE ~DecodeNext(s).complete
  BY <1>2, DecodeWaiting, ReplacementFacts DEF Incomplete
<1> QED BY <1>1, <1>2

\* What it has yielded does not change with the bytes that follow.
LEMMA DecodeStable ==
  ASSUME NEW s \in Seq(Byte), NEW t \in Seq(Byte), Starts(t, s), DecodeNext(s).complete
  PROVE  DecodeNext(t) = DecodeNext(s)
<1> DEFINE n == SequenceLength(s[1])
<1>1. Len(s) \in Nat /\ Len(t) \in Nat /\ Len(s) <= Len(t) /\ \A i \in 1 .. Len(s) : t[i] = s[i]
  BY StartsWith
<1>2. s # << >> /\ t # << >> /\ Len(s) >= 1 /\ s[1] \in Byte /\ t[1] = s[1]
  <2>1. s # << >>
    BY DEF DecodeNext, Incomplete
  <2> QED BY <1>1, <2>1
<1>3. n \in {0, 1, 2, 3, 4}
  BY <1>2, FirstBytes, Zenon
<1>4. /\ n = 0 => DecodeNext(s) = Malformed
      /\ n > Len(s) => DecodeNext(s) = Incomplete
      /\ n = 1 => DecodeNext(s) = [character |-> s[1], length |-> 1, complete |-> TRUE]
      /\ n \in 2 .. Len(s) => DecodeNext(s) = DecodeWhole(s, n)
  BY <1>2, DecodeCases
<1>5. /\ n = 0 => DecodeNext(t) = Malformed
      /\ n = 1 => DecodeNext(t) = [character |-> s[1], length |-> 1, complete |-> TRUE]
      /\ n \in 2 .. Len(t) => DecodeNext(t) = DecodeWhole(t, n)
  BY <1>2, DecodeCases
<1> HIDE DEF n
<1>6. n <= Len(s)
  BY <1>1, <1>3, <1>4 DEF Incomplete
<1>7. CASE n \in {0, 1}
  BY <1>4, <1>5, <1>7
<1>8. CASE n \in {2, 3, 4}
  <2>1. n \in 2 .. Len(s) /\ n \in 2 .. Len(t)
    BY <1>1, <1>6, <1>8
  <2>2. Value(t, n) = Value(s, n)
    <3>1. /\ t[1] = s[1] /\ t[2] = s[2]
          /\ n >= 3 => t[3] = s[3]
          /\ n >= 4 => t[4] = s[4]
      BY <1>1, <1>6, <1>8
    <3>2. CASE n = 2
      BY <1>1, <2>1, <3>1, <3>2, Values
    <3>3. CASE n = 3
      BY <1>1, <2>1, <3>1, <3>3, Values
    <3>4. CASE n = 4
      BY <1>1, <2>1, <3>1, <3>4, Values
    <3> QED BY <1>8, <3>2, <3>3, <3>4
  <2>3. WellFormed(t, n) <=> WellFormed(s, n)
    <3>1. \A i \in 2 .. n : t[i] = s[i]
      BY <1>1, <1>6, <1>8
    <3> QED BY <2>2, <3>1 DEF WellFormed
  <2>4. DecodeWhole(t, n) = DecodeWhole(s, n)
    BY <2>2, <2>3, WholeCases
  <2> QED BY <1>4, <1>5, <2>1, <2>4
<1> QED BY <1>3, <1>7, <1>8
-----------------------------------------------------------------------------
(* Scanning a sequence from the left.                                      *)

Suffix(t, i) == SubSeq(t, i, Len(t))

\* What a series yields, when each of its beginnings uses some of it.
Eats(eats, S) ==
  /\ eats \in [Seq(S) -> Nat]
  /\ \A s \in Seq(S) : s # << >> => eats[s] >= 1 /\ eats[s] <= Len(s)

Scans(f, V, t, base, eats, Y) ==
  /\ f \in [1 .. Len(t) + 1 -> V]
  /\ \A i \in 1 .. Len(t) + 1 :
       f[i] = IF i > Len(t) THEN base
              ELSE Y[<<Suffix(t, i), f[i + eats[Suffix(t, i)]]>>]

LEMMA SuffixFacts ==
  ASSUME NEW S, NEW t \in Seq(S), NEW i \in 1 .. Len(t) + 1
  PROVE  /\ Suffix(t, i) \in Seq(S) /\ Len(Suffix(t, i)) = Len(t) + 1 - i
         /\ \A j \in 1 .. Len(t) + 1 - i : Suffix(t, i)[j] = t[i + j - 1]
         /\ Suffix(t, i) = << >> <=> i > Len(t)
<1>1. Len(t) \in Nat
  OBVIOUS
<1>2. Suffix(t, i) \in Seq(S) /\ Len(Suffix(t, i)) = Len(t) + 1 - i
  BY <1>1 DEF Suffix
<1>3. \A j \in 1 .. Len(t) + 1 - i : Suffix(t, i)[j] = t[i + j - 1]
  BY <1>1 DEF Suffix
<1>4. Suffix(t, i) = << >> <=> i > Len(t)
  <2> DEFINE r == Suffix(t, i)
  <2>1. r \in Seq(S) /\ Len(r) = Len(t) + 1 - i
    BY <1>2
  <2> HIDE DEF r
  <2>2. r = << >> <=> Len(r) = 0
    BY <2>1
  <2>3. r = << >> <=> i > Len(t)
    BY <1>1, <2>1, <2>2
  <2> QED BY <2>3 DEF r
<1> QED BY <1>2, <1>3, <1>4

LEMMA SuffixOfSuffix ==
  ASSUME NEW S, NEW t \in Seq(S), NEW k \in 1 .. Len(t) + 1, NEW j \in 1 .. Len(t) + 2 - k
  PROVE  Suffix(Suffix(t, k), j) = Suffix(t, k + j - 1)
<1> DEFINE s == Suffix(t, k)
           a == Suffix(s, j)
           b == Suffix(t, k + j - 1)
<1>1. Len(t) \in Nat /\ k + j - 1 \in 1 .. Len(t) + 1
  OBVIOUS
<1>2. s \in Seq(S) /\ Len(s) = Len(t) + 1 - k /\ \A i \in 1 .. Len(t) + 1 - k : s[i] = t[k + i - 1]
  BY SuffixFacts
<1> HIDE DEF s
<1>3. /\ b \in Seq(S) /\ Len(b) = Len(t) + 1 - (k + j - 1)
      /\ \A i \in 1 .. Len(t) + 1 - (k + j - 1) : b[i] = t[(k + j - 1) + i - 1]
  BY <1>1, SuffixFacts
<1>4. j \in 1 .. Len(s) + 1
  BY <1>1, <1>2
<1>5. /\ a \in Seq(S) /\ Len(a) = Len(s) + 1 - j
      /\ \A i \in 1 .. Len(s) + 1 - j : a[i] = s[j + i - 1]
  BY <1>2, <1>4, SuffixFacts
<1> HIDE DEF a, b
<1>6. Len(a) = Len(b)
  BY <1>1, <1>2, <1>3, <1>5
<1>7. ASSUME NEW i \in 1 .. Len(a) PROVE a[i] = b[i]
  <2>1. j + i - 1 \in 1 .. Len(t) + 1 - k /\ i \in 1 .. Len(s) + 1 - j
    BY <1>1, <1>2, <1>5
  <2>2. i \in 1 .. Len(t) + 1 - (k + j - 1)
    BY <1>1, <1>2, <1>5
  <2>3. a[i] = s[j + i - 1] /\ b[i] = t[(k + j - 1) + i - 1]
    BY <1>3, <1>5, <2>1, <2>2
  <2>4. s[j + i - 1] = t[k + (j + i - 1) - 1]
    BY <1>2, <2>1
  <2>5. k + (j + i - 1) - 1 = (k + j - 1) + i - 1
    BY <1>1, <2>1
  <2> QED BY <2>3, <2>4, <2>5
<1>8. a = b
  BY <1>3, <1>5, <1>6, <1>7, SeqEqual
<1> QED BY <1>8 DEF a, b, s

LEMMA ScanExists ==
  ASSUME NEW S, NEW V, NEW t \in Seq(S), NEW base \in V, NEW eats, Eats(eats, S),
         NEW Y \in [Seq(S) \X V -> V]
  PROVE  \E f : Scans(f, V, t, base, eats, Y)
<1> DEFINE n == Len(t)
           Good(f, m) ==
             /\ f \in [m .. n + 1 -> V]
             /\ \A i \in m .. n + 1 :
                  f[i] = IF i > n THEN base ELSE Y[<<Suffix(t, i), f[i + eats[Suffix(t, i)]]>>]
           K == {k \in Nat : k <= n => \E f : Good(f, n + 1 - k)}
<1>1. n \in Nat
  OBVIOUS
<1>2. 0 \in K
  <2> DEFINE f == [i \in n + 1 .. n + 1 |-> base]
  <2>1. Good(f, n + 1 - 0)
    BY <1>1
  <2> QED BY <2>1
<1>3. ASSUME NEW k \in Nat, k \in K PROVE k + 1 \in K
  <2> SUFFICES ASSUME k + 1 <= n PROVE \E f : Good(f, n + 1 - (k + 1))
    OBVIOUS
  <2>0. k <= n
    BY <1>1
  <2>1. PICK f : Good(f, n + 1 - k)
    BY <1>3, <2>0
  <2> DEFINE m == n - k
             u == m + eats[Suffix(t, m)]
             v == Y[<<Suffix(t, m), f[u]>>]
             g == [i \in m .. n + 1 |-> IF i = m THEN v ELSE f[i]]
  <2>2. m \in 1 .. n /\ m + 1 = n + 1 - k /\ n + 1 - (k + 1) = m
    BY <1>1
  <2>3. ASSUME NEW i \in m .. n
        PROVE /\ Suffix(t, i) \in Seq(S)
              /\ i + eats[Suffix(t, i)] \in i + 1 .. n + 1
    <3>1. i \in 1 .. Len(t) + 1 /\ ~(i > Len(t))
      BY <1>1, <2>2
    <3>2. Suffix(t, i) \in Seq(S) /\ Len(Suffix(t, i)) = n + 1 - i /\ Suffix(t, i) # << >>
      BY <3>1, SuffixFacts
    <3>3. eats[Suffix(t, i)] \in Nat /\ eats[Suffix(t, i)] >= 1 /\ eats[Suffix(t, i)] <= n + 1 - i
      BY <3>2 DEF Eats
    <3> QED BY <1>1, <2>2, <3>2, <3>3
  <2>4. u \in m + 1 .. n + 1
    BY <2>2, <2>3
  <2> HIDE DEF u, m, n
  <2>5. f[u] \in V /\ v \in V
    <3>1. f[u] \in V
      BY <2>1, <2>2, <2>4
    <3>2. Suffix(t, m) \in Seq(S)
      BY <1>1, <2>2, <2>3
    <3> QED BY <3>1, <3>2
  <2> HIDE DEF v
  <2>6. g \in [m .. n + 1 -> V]
    <3>1. \A i \in m .. n + 1 : i # m => i \in m + 1 .. n + 1
      BY <1>1, <2>2
    <3>2. \A i \in m .. n + 1 : g[i] \in V
      BY <2>1, <2>2, <2>5, <3>1
    <3> QED BY <3>2
  <2>7. ASSUME NEW i \in m .. n + 1
        PROVE g[i] = IF i > n THEN base ELSE Y[<<Suffix(t, i), g[i + eats[Suffix(t, i)]]>>]
    <3>1. CASE i = m
      <4>1. g[i] = Y[<<Suffix(t, m), f[u]>>] /\ ~(i > n)
        BY <1>1, <2>2, <3>1 DEF v
      <4>2. u \in m .. n + 1 /\ u # m
        BY <1>1, <2>2, <2>4
      <4>3. g[u] = f[u]
        BY <4>2
      <4> HIDE DEF g
      <4> QED BY <3>1, <4>1, <4>3 DEF u
    <3>2. CASE i # m
      <4>1. i \in m + 1 .. n + 1 /\ g[i] = f[i]
        BY <1>1, <2>2, <3>2
      <4>2. CASE i > n
        BY <2>1, <2>2, <4>1, <4>2
      <4>3. CASE i <= n
        <5> DEFINE w == i + eats[Suffix(t, i)]
        <5>1. w \in i + 1 .. n + 1
          BY <1>1, <2>2, <2>3, <4>1, <4>3
        <5> HIDE DEF w
        <5>2. w \in m .. n + 1 /\ w # m
          BY <1>1, <2>2, <4>1, <5>1
        <5>3. g[w] = f[w]
          BY <5>2
        <5>4. f[i] = Y[<<Suffix(t, i), f[w]>>]
          BY <1>1, <2>1, <2>2, <4>1, <4>3 DEF w
        <5> HIDE DEF g
        <5>5. ~(i > n)
          BY <1>1, <4>1, <4>3
        <5> QED BY <4>1, <5>3, <5>4, <5>5 DEF w
      <4> QED BY <1>1, <4>1, <4>2, <4>3
    <3> QED BY <3>1, <3>2
  <2>8. Good(g, m)
    <3> HIDE DEF g
    <3> QED BY <2>6, <2>7
  <2> QED BY <2>2, <2>8 DEF m, n
<1> HIDE DEF K
<1>4. \A k \in Nat : k \in K
  BY <1>2, <1>3, Induction, Zenon
<1>5. \E f : Good(f, n + 1 - n)
  BY <1>1, <1>4 DEF K
<1>6. n + 1 - n = 1
  BY <1>1
<1> QED BY <1>5, <1>6 DEF Scans

LEMMA ScanShift ==
  ASSUME NEW S, NEW V, NEW t \in Seq(S), NEW base \in V, NEW eats, Eats(eats, S),
         NEW Y, NEW f, NEW g, NEW k \in 1 .. Len(t) + 1,
         Scans(f, V, t, base, eats, Y), Scans(g, V, Suffix(t, k), base, eats, Y)
  PROVE  g[1] = f[k]
<1> DEFINE n == Len(t)
           s == Suffix(t, k)
           last == n + 2 - k
           K == {m \in Nat : \A j \in 1 .. last : last - j <= m => g[j] = f[k + j - 1]}
<1>1. n \in Nat /\ s \in Seq(S) /\ Len(s) = n + 1 - k /\ last \in Nat /\ last >= 1
  BY SuffixFacts
<1>2. \A j \in 1 .. last : Suffix(s, j) = Suffix(t, k + j - 1)
  BY SuffixOfSuffix
<1>3. \A i \in 1 .. n + 1 :
        f[i] = IF i > n THEN base ELSE Y[<<Suffix(t, i), f[i + eats[Suffix(t, i)]]>>]
  BY DEF Scans
<1>4. \A j \in 1 .. last :
        g[j] = IF j > n + 1 - k THEN base ELSE Y[<<Suffix(s, j), g[j + eats[Suffix(s, j)]]>>]
  <2>1. Len(s) + 1 = last
    BY <1>1
  <2> QED BY <1>1, <2>1 DEF Scans
<1>5. \A i \in 1 .. n :
        eats[Suffix(t, i)] \in Nat /\ eats[Suffix(t, i)] >= 1 /\ eats[Suffix(t, i)] <= n + 1 - i
  <2> SUFFICES ASSUME NEW i \in 1 .. n
               PROVE  /\ eats[Suffix(t, i)] \in Nat /\ eats[Suffix(t, i)] >= 1
                      /\ eats[Suffix(t, i)] <= n + 1 - i
    OBVIOUS
  <2>1. i \in 1 .. Len(t) + 1 /\ ~(i > Len(t))
    BY <1>1
  <2>2. Suffix(t, i) \in Seq(S) /\ Len(Suffix(t, i)) = n + 1 - i /\ Suffix(t, i) # << >>
    BY <2>1, SuffixFacts
  <2> QED BY <2>2 DEF Eats
<1>6. k \in 1 .. n + 1
  OBVIOUS
<1> HIDE DEF s, n
<1>7. 0 \in K
  <2> SUFFICES ASSUME NEW j \in 1 .. last, last - j <= 0 PROVE g[j] = f[k + j - 1]
    OBVIOUS
  <2>1. j = last /\ j > n + 1 - k /\ k + j - 1 = n + 1 /\ n + 1 > n /\ n + 1 \in 1 .. n + 1
    BY <1>1, <1>6
  <2>2. g[j] = base /\ f[n + 1] = base
    BY <1>3, <1>4, <2>1
  <2> QED BY <2>1, <2>2
<1>8. ASSUME NEW m \in Nat, m \in K PROVE m + 1 \in K
  <2> SUFFICES ASSUME NEW j \in 1 .. last, last - j <= m + 1 PROVE g[j] = f[k + j - 1]
    OBVIOUS
  <2> DEFINE i == k + j - 1
             e == eats[Suffix(t, i)]
  <2>1. CASE j = last
    <3>1. j > n + 1 - k /\ i = n + 1 /\ n + 1 > n /\ n + 1 \in 1 .. n + 1
      BY <1>1, <1>6, <2>1
    <3> QED BY <1>3, <1>4, <3>1
  <2>2. CASE j < last
    <3>1. ~(j > n + 1 - k) /\ i \in 1 .. n /\ i \in 1 .. n + 1 /\ ~(i > n)
      BY <1>1, <1>6, <2>2
    <3>2. e \in Nat /\ e >= 1 /\ e <= n + 1 - i
      BY <1>5, <3>1
    <3>3. g[j] = Y[<<Suffix(t, i), g[j + e]>>]
      BY <1>2, <1>4, <3>1
    <3>4. f[i] = Y[<<Suffix(t, i), f[i + e]>>]
      BY <1>3, <3>1
    <3> HIDE DEF e
    <3>5. j + e \in 1 .. last /\ last - (j + e) <= m /\ k + (j + e) - 1 = i + e
      BY <1>1, <1>6, <2>2, <3>1, <3>2
    <3>6. g[j + e] = f[i + e]
      BY <1>8, <3>5
    <3> QED BY <3>3, <3>4, <3>6
  <2> QED BY <1>1, <2>1, <2>2
<1> HIDE DEF K
<1>9. \A m \in Nat : m \in K
  BY <1>7, <1>8, Induction, Zenon
<1>10. 1 \in 1 .. last /\ last - 1 \in Nat /\ last - 1 <= last - 1 /\ k + 1 - 1 = k
  BY <1>1, <1>6
<1> QED BY <1>9, <1>10 DEF K

\* A recursive definition that makes the same steps is such a scan.
SameSteps(f, g, t, base, eats) ==
  /\ g[Len(t) + 1] = base
  /\ \A i \in 1 .. Len(t) :
       LET w == i + eats[Suffix(t, i)] IN g[w] = f[w] => g[i] = f[i]

SameValues(f, g, t) == \A i \in 1 .. Len(t) + 1 : g[i] = f[i]

LEMMA ScanUnique ==
  ASSUME NEW S, NEW V, NEW t \in Seq(S), NEW base \in V, NEW eats, Eats(eats, S),
         NEW Y, NEW f, NEW g,
         Scans(f, V, t, base, eats, Y),
         SameSteps(f, g, t, base, eats)
  PROVE  SameValues(f, g, t)
<1> DEFINE n == Len(t)
           K == {m \in Nat : \A i \in 1 .. n + 1 : n + 1 - i <= m => g[i] = f[i]}
<1>1. n \in Nat
  OBVIOUS
<1>2. f[n + 1] = base /\ g[n + 1] = base
  <2>1. n + 1 \in 1 .. n + 1 /\ n + 1 > n
    BY <1>1
  <2>2. \A i \in 1 .. n + 1 : i > n => f[i] = base
    BY DEF Scans
  <2> HIDE DEF n
  <2>3. f[n + 1] = base
    BY <2>1, <2>2
  <2> QED BY <2>3 DEF n, SameSteps
<1>3. \A i \in 1 .. n :
        eats[Suffix(t, i)] \in Nat /\ eats[Suffix(t, i)] >= 1 /\ eats[Suffix(t, i)] <= n + 1 - i
  <2> SUFFICES ASSUME NEW i \in 1 .. n
               PROVE  /\ eats[Suffix(t, i)] \in Nat /\ eats[Suffix(t, i)] >= 1
                      /\ eats[Suffix(t, i)] <= n + 1 - i
    OBVIOUS
  <2>1. i \in 1 .. Len(t) + 1 /\ ~(i > Len(t))
    BY <1>1
  <2>2. Suffix(t, i) \in Seq(S) /\ Len(Suffix(t, i)) = n + 1 - i /\ Suffix(t, i) # << >>
    BY <2>1, SuffixFacts
  <2> QED BY <2>2 DEF Eats
<1>4. \A i \in 1 .. n : LET w == i + eats[Suffix(t, i)] IN g[w] = f[w] => g[i] = f[i]
  BY DEF SameSteps
<1> HIDE DEF n
<1>5. 0 \in K
  BY <1>1, <1>2
<1>6. ASSUME NEW m \in Nat, m \in K PROVE m + 1 \in K
  <2> SUFFICES ASSUME NEW i \in 1 .. n + 1, n + 1 - i <= m + 1 PROVE g[i] = f[i]
    OBVIOUS
  <2>1. CASE i = n + 1
    BY <1>2, <2>1
  <2>2. CASE i \in 1 .. n
    <3> DEFINE w == i + eats[Suffix(t, i)]
    <3>1. w \in 1 .. n + 1 /\ n + 1 - w <= m
      BY <1>1, <1>3, <2>2
    <3>2. g[w] = f[w]
      BY <1>6, <3>1
    <3> QED BY <1>4, <2>2, <3>2
  <2> QED BY <1>1, <2>1, <2>2
<1> HIDE DEF K
<1>7. \A m \in Nat : m \in K
  BY <1>5, <1>6, Induction, Zenon
<1>8. ASSUME NEW i \in 1 .. n + 1 PROVE g[i] = f[i]
  <2>1. n + 1 - i \in Nat /\ n + 1 - i <= n + 1 - i
    BY <1>1
  <2> QED BY <1>7, <2>1 DEF K
<1> QED BY <1>8 DEF n, SameValues

\* A scan from the first element on, by what the beginning yields.
LEMMA ScanStep ==
  ASSUME NEW S, NEW V, NEW t \in Seq(S), NEW base \in V, NEW eats, Eats(eats, S),
         NEW Y, NEW f, NEW g, t # << >>, Scans(f, V, t, base, eats, Y),
         Scans(g, V, Suffix(t, 1 + eats[t]), base, eats, Y)
  PROVE  f[1] = Y[<<t, g[1]>>] /\ g[1] \in V
<1> DEFINE k == 1 + eats[t]
<1>1. Len(t) \in Nat /\ Len(t) >= 1 /\ 1 \in 1 .. Len(t) + 1 /\ ~(1 > Len(t))
  OBVIOUS
<1>2. Suffix(t, 1) = t
  BY <1>1 DEF Suffix
<1>3. k \in 1 .. Len(t) + 1
  BY <1>1 DEF Eats
<1> HIDE DEF k
<1>4. f[1] = Y[<<t, f[k]>>]
  <2>1. f[1] = Y[<<Suffix(t, 1), f[1 + eats[Suffix(t, 1)]]>>]
    BY <1>1 DEF Scans
  <2> QED BY <1>2, <2>1 DEF k
<1>5. Scans(g, V, Suffix(t, k), base, eats, Y)
  BY DEF k
<1>6. g[1] = f[k]
  BY <1>3, <1>5, ScanShift
<1>7. f[k] \in V
  BY <1>3 DEF Scans
<1> QED BY <1>4, <1>6, <1>7

LEMMA ScanOfNone ==
  ASSUME NEW V, NEW base, NEW eats, NEW Y, NEW f, Scans(f, V, << >>, base, eats, Y)
  PROVE  f[1] = base
<1>1. Len(<< >>) = 0 /\ 1 \in 1 .. 0 + 1 /\ 1 > 0
  OBVIOUS
<1> QED BY <1>1 DEF Scans
-----------------------------------------------------------------------------
(* Bytes that follow others.                                               *)

LEMMA Concatenated ==
  ASSUME NEW S, NEW a \in Seq(S), NEW b \in Seq(S)
  PROVE  /\ a \o b \in Seq(S) /\ Len(a \o b) = Len(a) + Len(b)
         /\ Len(a) \in Nat /\ Len(b) \in Nat
         /\ \A i \in 1 .. Len(a) : (a \o b)[i] = a[i]
         /\ \A i \in 1 .. Len(b) : (a \o b)[Len(a) + i] = b[i]
  OBVIOUS

LEMMA StartsAppended ==
  ASSUME NEW s \in Seq(Byte), NEW b \in Byte
  PROVE  Append(s, b) \in Seq(Byte) /\ Starts(Append(s, b), s)
<1> DEFINE t == Append(s, b)
<1>1. t \in Seq(Byte) /\ Len(t) = Len(s) + 1 /\ Len(s) \in Nat /\ \A i \in 1 .. Len(s) : t[i] = s[i]
  OBVIOUS
<1> HIDE DEF t
<1>2. Starts(t, s)
  BY <1>1, StartsWith
<1> QED BY <1>1, <1>2 DEF t

LEMMA Appended ==
  ASSUME NEW e \in Seq(Byte), NEW u \in Seq(Byte)
  PROVE  /\ e \o u \in Seq(Byte) /\ Starts(e \o u, e)
         /\ Suffix(e \o u, 1 + Len(e)) = u
<1> DEFINE t == e \o u
           v == Suffix(t, 1 + Len(e))
<1>1. /\ t \in Seq(Byte) /\ Len(t) = Len(e) + Len(u) /\ Len(e) \in Nat /\ Len(u) \in Nat
      /\ \A i \in 1 .. Len(e) : t[i] = e[i]
      /\ \A i \in 1 .. Len(u) : t[Len(e) + i] = u[i]
  OBVIOUS
<1> HIDE DEF t
<1>2. Starts(t, e)
  BY <1>1, StartsWith
<1>3. 1 + Len(e) \in 1 .. Len(t) + 1
  BY <1>1
<1>4. /\ v \in Seq(Byte) /\ Len(v) = Len(t) + 1 - (1 + Len(e))
      /\ \A j \in 1 .. Len(t) + 1 - (1 + Len(e)) : v[j] = t[(1 + Len(e)) + j - 1]
  <2> DEFINE k == 1 + Len(e)
  <2>1. k \in 1 .. Len(t) + 1
    BY <1>3
  <2> HIDE DEF k
  <2>2. /\ Suffix(t, k) \in Seq(Byte) /\ Len(Suffix(t, k)) = Len(t) + 1 - k
        /\ \A j \in 1 .. Len(t) + 1 - k : Suffix(t, k)[j] = t[k + j - 1]
    <3>1. t \in Seq(Byte)
      BY <1>1
    <3> QED BY <2>1, <3>1, SuffixFacts
  <2> QED BY <2>2 DEF k
<1> HIDE DEF v
<1>5. Len(v) = Len(u)
  BY <1>1, <1>4
<1>6. ASSUME NEW j \in 1 .. Len(v) PROVE v[j] = u[j]
  <2>1. j \in 1 .. Len(u) /\ j \in 1 .. Len(t) + 1 - (1 + Len(e)) /\ (1 + Len(e)) + j - 1 = Len(e) + j
    BY <1>1, <1>4
  <2> QED BY <1>1, <1>4, <2>1
<1>7. v = u
  BY <1>4, <1>5, <1>6, SeqEqual
<1> QED BY <1>1, <1>2, <1>7 DEF t, v

LEMMA StartAndRest ==
  ASSUME NEW e \in Seq(Byte), NEW t \in Seq(Byte), Starts(t, e)
  PROVE  t = e \o Suffix(t, 1 + Len(e))
<1> DEFINE u == Suffix(t, 1 + Len(e))
           r == e \o u
<1>1. /\ Len(e) <= Len(t) /\ Len(e) \in Nat /\ Len(t) \in Nat
      /\ \A i \in 1 .. Len(e) : t[i] = e[i]
  BY StartsWith
<1>2. 1 + Len(e) \in 1 .. Len(t) + 1
  BY <1>1
<1>3. /\ u \in Seq(Byte) /\ Len(u) = Len(t) + 1 - (1 + Len(e))
      /\ \A j \in 1 .. Len(t) + 1 - (1 + Len(e)) : u[j] = t[(1 + Len(e)) + j - 1]
  <2> DEFINE k == 1 + Len(e)
  <2>1. k \in 1 .. Len(t) + 1
    BY <1>2
  <2> HIDE DEF k
  <2>2. /\ Suffix(t, k) \in Seq(Byte) /\ Len(Suffix(t, k)) = Len(t) + 1 - k
        /\ \A j \in 1 .. Len(t) + 1 - k : Suffix(t, k)[j] = t[k + j - 1]
    BY <2>1, SuffixFacts
  <2> QED BY <2>2 DEF k
<1> HIDE DEF u
<1>4. /\ r \in Seq(Byte) /\ Len(r) = Len(e) + Len(u)
      /\ \A i \in 1 .. Len(e) : r[i] = e[i]
      /\ \A i \in 1 .. Len(u) : r[Len(e) + i] = u[i]
  <2>1. u \in Seq(Byte)
    BY <1>3
  <2> QED BY <2>1, Concatenated
<1> HIDE DEF r
<1>5. Len(r) = Len(t)
  BY <1>1, <1>3, <1>4
<1>6. ASSUME NEW i \in 1 .. Len(r) PROVE r[i] = t[i]
  <2>1. CASE i \in 1 .. Len(e)
    BY <1>1, <1>4, <2>1
  <2>2. CASE i \notin 1 .. Len(e)
    <3> DEFINE j == i - Len(e)
    <3>1. /\ j \in 1 .. Len(u) /\ j \in 1 .. Len(t) + 1 - (1 + Len(e))
          /\ Len(e) + j = i /\ (1 + Len(e)) + j - 1 = i
      BY <1>1, <1>3, <1>5, <2>2
    <3> HIDE DEF j
    <3>2. r[Len(e) + j] = u[j] /\ u[j] = t[(1 + Len(e)) + j - 1]
      BY <1>3, <1>4, <3>1
    <3> QED BY <3>1, <3>2
  <2> QED BY <2>1, <2>2
<1>7. r = t
  BY <1>4, <1>5, <1>6, SeqEqual
<1> QED BY <1>7 DEF r, u

LEMMA Longer ==
  ASSUME NEW x \in Seq(Byte), NEW p \in Seq(Byte), NEW k \in 1 .. Len(x) + 1
  PROVE  Suffix(x \o p, k) = Suffix(x, k) \o p
<1> DEFINE t == x \o p
           a == Suffix(t, k)
           u == Suffix(x, k)
           b == u \o p
<1>1. /\ t \in Seq(Byte) /\ Len(t) = Len(x) + Len(p) /\ Len(x) \in Nat /\ Len(p) \in Nat
      /\ \A i \in 1 .. Len(x) : t[i] = x[i]
      /\ \A i \in 1 .. Len(p) : t[Len(x) + i] = p[i]
  OBVIOUS
<1>2. /\ u \in Seq(Byte) /\ Len(u) = Len(x) + 1 - k
      /\ \A j \in 1 .. Len(x) + 1 - k : u[j] = x[k + j - 1]
  BY SuffixFacts
<1> HIDE DEF t
<1>3. t \in Seq(Byte) /\ k \in 1 .. Len(t) + 1
  BY <1>1
<1>4. /\ a \in Seq(Byte) /\ Len(a) = Len(t) + 1 - k
      /\ \A j \in 1 .. Len(t) + 1 - k : a[j] = t[k + j - 1]
  BY <1>3, SuffixFacts
<1> HIDE DEF u, a
<1>5. /\ b \in Seq(Byte) /\ Len(b) = Len(u) + Len(p)
      /\ \A i \in 1 .. Len(u) : b[i] = u[i]
      /\ \A i \in 1 .. Len(p) : b[Len(u) + i] = p[i]
  <2>1. u \in Seq(Byte)
    BY <1>2
  <2> QED BY <2>1, Concatenated
<1> HIDE DEF b
<1>6. Len(a) = Len(b)
  BY <1>1, <1>2, <1>4, <1>5
<1>7. ASSUME NEW i \in 1 .. Len(a) PROVE a[i] = b[i]
  <2>1. CASE i <= Len(u)
    <3>1. /\ i \in 1 .. Len(u) /\ i \in 1 .. Len(x) + 1 - k
          /\ k + i - 1 \in 1 .. Len(x) /\ i \in 1 .. Len(t) + 1 - k
      BY <1>1, <1>2, <1>4, <2>1
    <3> QED BY <1>1, <1>2, <1>4, <1>5, <3>1
  <2>2. CASE i > Len(u)
    <3> DEFINE j == i - Len(u)
    <3>1. /\ j \in 1 .. Len(p) /\ i = Len(u) + j /\ k + i - 1 = Len(x) + j
          /\ i \in 1 .. Len(t) + 1 - k
      BY <1>1, <1>2, <1>4, <2>2
    <3> HIDE DEF j
    <3>2. a[i] = t[Len(x) + j] /\ b[i] = p[j]
      BY <1>4, <1>5, <3>1
    <3> QED BY <1>1, <3>1, <3>2
  <2> QED BY <1>2, <2>1, <2>2
<1>8. a = b
  BY <1>4, <1>5, <1>6, <1>7, SeqEqual
<1> QED BY <1>8 DEF a, b, u, t
-----------------------------------------------------------------------------
(* Sequences of sequences, one after the other.                            *)

Joining(S) == [p \in Seq(S) \X Seq(S) |-> p[1] \o p[2]]

LEMMA JoiningTyped ==
  ASSUME NEW S
  PROVE  /\ Joining(S) \in [Seq(S) \X Seq(S) -> Seq(S)]
         /\ \A v \in Seq(S), e \in Seq(S) : Joining(S)[<<v, e>>] = v \o e
<1>1. ASSUME NEW v \in Seq(S), NEW e \in Seq(S) PROVE v \o e \in Seq(S)
  OBVIOUS
<1> QED BY <1>1 DEF Joining

LEMMA FlattenFolds ==
  ASSUME NEW S, NEW seqs \in Seq(Seq(S))
  PROVE  FlattenSeq(seqs) = Fold(Joining(S), << >>, seqs)
<1> DEFINE n == Len(seqs)
           P(f) == f = [i \in 1 .. n |-> IF i = 1 THEN seqs[i] ELSE f[i - 1] \o seqs[i]]
           c == CHOOSE f : P(f)
<1>0. n \in Nat /\ << >> \in Seq(S)
  OBVIOUS
<1>1. PICK d : Iterates(d, Joining(S), << >>, seqs, n)
               /\ Fold(Joining(S), << >>, seqs) = d[1 .. n]
  BY FoldIterates
<1>2. Steps(d, Joining(S), << >>, seqs, n)
  BY <1>0, <1>1, IteratesSteps
<1>3. Joining(S) \in [Seq(S) \X Seq(S) -> Seq(S)]
      /\ \A v \in Seq(S), e \in Seq(S) : Joining(S)[<<v, e>>] = v \o e
  BY JoiningTyped
<1>4. ValuesIn(d, Seq(S), n)
  BY <1>0, <1>1, <1>3, IteratesTyped
<1>5. CASE n = 0
  <2>1. 1 .. n = 1 .. 0 /\ seqs = << >> /\ FlattenSeq(seqs) = seqs
    BY <1>5 DEF FlattenSeq
  <2> QED BY <1>1, <1>2, <2>1 DEF Steps
<1>6. CASE n # 0
  <2>1. FlattenSeq(seqs) = c[n]
    BY <1>6 DEF FlattenSeq
  <2>2. ASSUME NEW k \in 1 .. n
        PROVE  /\ d[1 .. k] \in Seq(S) /\ seqs[k] \in Seq(S)
               /\ k = 1 => d[1 .. k] = seqs[k]
               /\ k # 1 => d[1 .. k] = d[1 .. k - 1] \o seqs[k]
    <3>1. 1 .. k \in SUBSET (1 .. n) /\ 1 .. k - 1 \in SUBSET (1 .. n)
      BY <1>0
    <3>2. d[1 .. k] \in Seq(S) /\ d[1 .. k - 1] \in Seq(S) /\ seqs[k] \in Seq(S)
      BY <1>4, <3>1 DEF ValuesIn
    <3>3. d[1 .. k] = Joining(S)[<<d[1 .. k - 1], seqs[k]>>]
      BY <1>2 DEF Steps
    <3>4. d[1 .. k] = d[1 .. k - 1] \o seqs[k]
      BY <1>3, <3>2, <3>3
    <3>5. k = 1 => d[1 .. k - 1] = << >>
      BY <1>2 DEF Steps
    <3>6. << >> \o seqs[k] = seqs[k]
      BY <3>2
    <3> QED BY <3>2, <3>4, <3>5, <3>6
  <2> DEFINE f == [i \in 1 .. n |-> d[1 .. i]]
  <2>3. P(f)
    <3>1. ASSUME NEW i \in 1 .. n
          PROVE f[i] = IF i = 1 THEN seqs[i] ELSE f[i - 1] \o seqs[i]
      <4>1. CASE i = 1
        BY <2>2, <4>1
      <4>2. CASE i # 1
        <5>1. i - 1 \in 1 .. n
          BY <1>0, <4>2
        <5> QED BY <2>2, <4>2, <5>1
      <4> QED BY <4>1, <4>2
    <3>2. f = [i \in 1 .. n |-> f[i]]
      OBVIOUS
    <3> HIDE DEF f
    <3> QED BY <3>1, <3>2
  <2>4. P(c)
    <3> HIDE DEF P, f
    <3> QED BY <2>3, Zenon
  <2> HIDE DEF c, f
  <2> DEFINE K == {k \in Nat : k >= 1 /\ k <= n => c[k] = d[1 .. k]}
  <2>5. 0 \in K
    OBVIOUS
  <2>6. ASSUME NEW k \in Nat, k \in K PROVE k + 1 \in K
    <3> SUFFICES ASSUME k + 1 <= n PROVE c[k + 1] = d[1 .. k + 1]
      OBVIOUS
    <3>1. k + 1 \in 1 .. n /\ (k + 1) - 1 = k
      BY <1>0
    <3>2. c[k + 1] = IF k + 1 = 1 THEN seqs[k + 1] ELSE c[k] \o seqs[k + 1]
      BY <2>4, <3>1
    <3>3. CASE k = 0
      <4>1. k + 1 = 1 /\ c[k + 1] = seqs[k + 1]
        BY <3>2, <3>3
      <4>2. d[1 .. k + 1] = seqs[k + 1]
        BY <2>2, <3>1, <4>1
      <4> QED BY <4>1, <4>2
    <3>4. CASE k # 0
      <4>1. c[k] = d[1 .. k]
        BY <2>6, <3>1, <3>4
      <4>2. k + 1 # 1
        BY <3>4
      <4>3. d[1 .. k + 1] = d[1 .. (k + 1) - 1] \o seqs[k + 1]
        BY <2>2, <3>1, <4>2
      <4> QED BY <4>3,  <3>1, <3>2, <4>1, <4>2
    <3> QED BY <3>3, <3>4
  <2> HIDE DEF K
  <2>7. \A k \in Nat : k \in K
    BY <2>5, <2>6, Induction, Zenon
  <2>8. c[n] = d[1 .. n]
    BY <1>0, <1>6, <2>7 DEF K
  <2> QED BY <1>1, <2>1, <2>8
<1> QED BY <1>5, <1>6

LEMMA Flattened ==
  ASSUME NEW S, NEW seqs \in Seq(Seq(S))
  PROVE  /\ FlattenSeq(seqs) \in Seq(S)
         /\ \A e \in Seq(S) : FlattenSeq(Append(seqs, e)) = FlattenSeq(seqs) \o e
         /\ FlattenSeq(<< >>) = << >>
<1>1. Joining(S) \in [Seq(S) \X Seq(S) -> Seq(S)]
      /\ \A v \in Seq(S), e \in Seq(S) : Joining(S)[<<v, e>>] = v \o e
  BY JoiningTyped
<1>2. << >> \in Seq(S) /\ << >> \in Seq(Seq(S))
  OBVIOUS
<1>3. FlattenSeq(seqs) = Fold(Joining(S), << >>, seqs) /\ FlattenSeq(<< >>) = << >>
  BY <1>2, FlattenFolds, FoldEmpty
<1>4. Fold(Joining(S), << >>, seqs) \in Seq(S)
  BY <1>1, <1>2, FoldTyped
<1>5. ASSUME NEW e \in Seq(S) PROVE FlattenSeq(Append(seqs, e)) = FlattenSeq(seqs) \o e
  <2>1. Append(seqs, e) \in Seq(Seq(S))
    OBVIOUS
  <2>2. FlattenSeq(Append(seqs, e)) = Fold(Joining(S), << >>, Append(seqs, e))
    BY <2>1, FlattenFolds
  <2>3. Fold(Joining(S), << >>, Append(seqs, e)) = Joining(S)[<<Fold(Joining(S), << >>, seqs), e>>]
    BY FoldAppend
  <2> QED BY <1>1, <1>3, <1>4, <2>2, <2>3
<1> QED BY <1>3, <1>4, <1>5
=============================================================================
