------------------------ MODULE WindowsInput_proofs ------------------------
(***************************************************************************)
(* ModifiersReal, NoStuckKeys and TextExact, for any keys, records and     *)
(* bounds: what is believed of a modifier key after the records up to any  *)
(* place was so, or was missed, when the record at that place was made;    *)
(* the keys that will be held when everything has been read are held down; *)
(* and the decoder is where the code units of the records that have been   *)
(* read would have taken it one by one.                                    *)
(***************************************************************************)
EXTENDS WindowsInputProperties, InputState_proofs, FiniteSetTheorems

KeyRecords ==
  [type : {"key"}, key : Keys \cup {Unknown}, down : BOOLEAN, repeats : Nat, unit : Nat,
   control : SUBSET (Controls \cup Alts \cup {"Shift"}), held : SUBSET Keys,
   missed : SUBSET Keys]
Records == KeyRecords \cup [type : {"focus"}, set : BOOLEAN]

Lowers(r, k) == r.type = "key" /\ r.down /\ r.key = k
Lifts(r, k) == r.type = "key" /\ ~r.down /\ r.key = k

\* After the first i records of q, tracked from T on, platformReadInput()
\* believes that k is held.
Believes(T, q, i, k) ==
  \/ k \in T /\ \A n \in 1 .. i : ~Lifts(q[n], k)
  \/ \E m \in 1 .. i : Lowers(q[m], k) /\ \A n \in m + 1 .. i : ~Lifts(q[n], k)

\* dwControlKeyState is of the keys that are held.
ControlTrue(control, held) ==
  /\ control \cap (Controls \cup Alts) = held \cap (Controls \cup Alts)
  /\ "Shift" \in control <=> held \cap Shifts # {}

RecordTrue(T, q, i) ==
  q[i].type = "key" =>
    /\ ControlTrue(q[i].control, q[i].held)
    /\ \A k \in ModifierKeys : Believes(T, q, i, k) => k \in q[i].held \cup q[i].missed

\* What is believed of a modifier at a record, and after all of them, is so or
\* was missed.
ModifierInv ==
  /\ physical \subseteq Keys /\ missed \subseteq Keys /\ tracked \subseteq ModifierKeys
  /\ records \in Seq(Records)
  /\ \A k \in ModifierKeys : Believes(tracked, records, Len(records), k) => k \in physical \cup missed
  /\ \A i \in 1 .. Len(records) : RecordTrue(tracked, records, i)
  /\ ModifiersReal
-----------------------------------------------------------------------------
(* The console's buffer.                                                   *)

\* Two buffers that differ in the repeat counts of their records only.
Alike(q, r) ==
  /\ Len(r) = Len(q)
  /\ \A i \in 1 .. Len(q) :
       /\ r[i].type = q[i].type
       /\ r[i].type = "focus" => r[i] = q[i]
       /\ r[i].type = "key" =>
            /\ r[i].key = q[i].key /\ r[i].down = q[i].down /\ r[i].control = q[i].control
            /\ r[i].held = q[i].held /\ r[i].missed = q[i].missed

\* A record is appended, or coalesces with the last one.
LEMMA Buffered ==
  ASSUME NEW r \in Records, records \in Seq(Records)
  PROVE  \/ Buffer(r) = Append(records, r)
         \/ Buffer(r) \in Seq(Records) /\ Alike(records, Buffer(r))
<1>1. CASE ~(r.type = "key" /\ Coalesces(r))
  BY <1>1 DEF Buffer
<1>2. CASE r.type = "key" /\ Coalesces(r)
  <2> DEFINE n == Len(records)
             joined == [records EXCEPT ![n].repeats = @ + r.repeats]
  <2>1. n \in 1 .. Len(records) /\ records[n].type = "key" /\ r.down
    BY <1>2 DEF Coalesces, Last
  <2>2. records[n] \in KeyRecords /\ r \in KeyRecords
    BY <1>2, <2>1 DEF Records
  <2>3. joined[n] = [records[n] EXCEPT !.repeats = @ + r.repeats]
    BY <2>1
  <2>4. joined[n] \in KeyRecords
    BY <2>2, <2>3 DEF KeyRecords
  <2>5. \A i \in 1 .. Len(records) : i # n => joined[i] = records[i]
    OBVIOUS
  <2>6. joined \in Seq(Records) /\ Len(joined) = Len(records)
    <3>1. \A i \in 1 .. Len(records) : joined[i] \in Records
      <4> SUFFICES ASSUME NEW i \in 1 .. Len(records) PROVE joined[i] \in Records
        OBVIOUS
      <4>1. CASE i = n
        BY <2>4, <4>1 DEF Records
      <4>2. CASE i # n
        <5>1. records[i] \in Records
          OBVIOUS
        <5> QED
          BY <2>5, <4>2, <5>1
      <4> QED
        BY <4>1, <4>2
    <3>2. DOMAIN joined = 1 .. Len(records) /\ Len(records) \in Nat
      OBVIOUS
    <3>3. joined = [i \in 1 .. Len(records) |-> joined[i]]
      BY <3>2
    <3> HIDE DEF joined
    <3>4. joined \in [1 .. Len(records) -> Records]
      BY <3>1, <3>3
    <3> QED
      BY <3>2, <3>4
  <2>7. /\ joined[n].type = "key" /\ joined[n].key = records[n].key
        /\ joined[n].down = records[n].down /\ joined[n].control = records[n].control
        /\ joined[n].held = records[n].held /\ joined[n].missed = records[n].missed
    BY <2>1, <2>2, <2>3 DEF KeyRecords
  <2>8. Buffer(r) = joined
    BY <1>2 DEF Buffer
  <2> HIDE DEF joined
  <2>9. Alike(records, joined)
    BY <2>1, <2>5, <2>6, <2>7 DEF Alike
  <2> QED
    BY <2>6, <2>8, <2>9
<1> QED
  BY <1>1, <1>2

\* The records that the keyboard makes.
LEMMA KeyRecordMade ==
  ASSUME NEW k \in Keys \cup {Unknown}, NEW down \in BOOLEAN, NEW repeats \in Nat,
         NEW unit \in Nat, physical' \subseteq Keys, missed' \subseteq Keys
  PROVE  LET r == KeyRecord(k, down, repeats, unit)
         IN /\ r \in Records /\ r.type = "key" /\ r.key = k /\ r.down = down
            /\ r.held = physical' /\ r.missed = missed'
            /\ ControlTrue(r.control, r.held)
<1> DEFINE r == KeyRecord(k, down, repeats, unit)
<1>1. /\ r.type = "key" /\ r.key = k /\ r.down = down /\ r.control = ControlState'
      /\ r.held = physical' /\ r.missed = missed'
  BY DEF KeyRecord
<1>2. ControlState' \subseteq Controls \cup Alts \cup {"Shift"}
  BY DEF ControlState
<1>3. r \in Records
  BY <1>2 DEF Records, KeyRecords, KeyRecord
<1>4. ControlTrue(ControlState', physical')
  BY DEF ControlTrue, ControlState, Controls, Alts
<1> QED
  BY <1>1, <1>3, <1>4
-----------------------------------------------------------------------------
(* What is believed, when the buffer changes.                              *)

\* Another record: what was believed before it, and what it says.
LEMMA BelievedAppended ==
  ASSUME NEW T, NEW q \in Seq(Records), NEW r, NEW k
  PROVE  /\ \A i \in 0 .. Len(q) : Believes(T, Append(q, r), i, k) => Believes(T, q, i, k)
         /\ Believes(T, Append(q, r), Len(q) + 1, k) =>
              (Believes(T, q, Len(q), k) /\ ~Lifts(r, k)) \/ Lowers(r, k)
<1> DEFINE n == Len(q)
           a == Append(q, r)
<1>1. n \in Nat /\ a[n + 1] = r /\ \A i \in 1 .. n : a[i] = q[i]
  OBVIOUS
<1> SUFFICES /\ \A i \in 0 .. n : Believes(T, a, i, k) => Believes(T, q, i, k)
             /\ Believes(T, a, n + 1, k) => (Believes(T, q, n, k) /\ ~Lifts(r, k)) \/ Lowers(r, k)
  OBVIOUS
<1> HIDE DEF n, a
<1>2. ASSUME NEW i \in 0 .. n, Believes(T, a, i, k) PROVE Believes(T, q, i, k)
  <2>1. \A m \in 1 .. i : a[m] = q[m]
    BY <1>1
  <2>2. \A m \in 1 .. i : \A j \in m + 1 .. i : a[j] = q[j]
    BY <1>1
  <2> QED
    BY <1>2, <2>1, <2>2 DEF Believes
<1>3. ASSUME Believes(T, a, n + 1, k), ~Lowers(r, k)
      PROVE  Believes(T, q, n, k) /\ ~Lifts(r, k)
  <2>1. CASE k \in T /\ \A m \in 1 .. n + 1 : ~Lifts(a[m], k)
    <3>1. ~Lifts(r, k) /\ \A m \in 1 .. n : ~Lifts(q[m], k)
      BY <1>1, <2>1
    <3> QED
      BY <2>1, <3>1 DEF Believes
  <2>2. ASSUME NEW m \in 1 .. n + 1, Lowers(a[m], k), \A j \in m + 1 .. n + 1 : ~Lifts(a[j], k)
        PROVE  Believes(T, q, n, k) /\ ~Lifts(r, k)
    <3>1. m # n + 1
      BY <1>1, <1>3, <2>2
    <3>2. m \in 1 .. n /\ n + 1 \in m + 1 .. n + 1
      BY <1>1, <3>1
    <3>3. Lowers(q[m], k) /\ ~Lifts(r, k) /\ \A j \in m + 1 .. n : ~Lifts(q[j], k)
      BY <1>1, <2>2, <3>2
    <3> QED
      BY <3>2, <3>3 DEF Believes
  <2> QED
    BY <1>3, <2>1, <2>2 DEF Believes
<1> QED
  BY <1>2, <1>3

\* A record is read and tracked: what is believed after the others is the same.
LEMMA BelievedTail ==
  ASSUME NEW T, NEW U, NEW q \in Seq(Records), q # <<>>, NEW k,
         k \in U => (k \in T /\ ~Lifts(q[1], k)) \/ Lowers(q[1], k),
         NEW i \in 0 .. Len(q) - 1, Believes(U, Tail(q), i, k)
  PROVE  Believes(T, q, i + 1, k)
<1> DEFINE n == Len(q)
           t == Tail(q)
<1>1. n \in Nat /\ i \in 0 .. n - 1 /\ \A j \in 1 .. n - 1 : t[j] = q[j + 1]
  OBVIOUS
<1>2. Believes(U, t, i, k)
  OBVIOUS
<1> HIDE DEF n, t
<1>3. ASSUME NEW m \in Nat, \A j \in m + 1 .. i : ~Lifts(t[j], k)
      PROVE  \A j \in m + 2 .. i + 1 : ~Lifts(q[j], k)
  <2> SUFFICES ASSUME NEW j \in m + 2 .. i + 1 PROVE ~Lifts(q[j], k)
    OBVIOUS
  <2>1. j - 1 \in m + 1 .. i /\ j - 1 \in 1 .. n - 1 /\ (j - 1) + 1 = j
    BY <1>1
  <2> QED
    BY <1>1, <1>3, <2>1
<1>4. CASE k \in U /\ \A j \in 1 .. i : ~Lifts(t[j], k)
  <2>1. \A j \in 2 .. i + 1 : ~Lifts(q[j], k)
    BY <1>3, <1>4
  <2>2. CASE k \in T /\ ~Lifts(q[1], k)
    <3>1. \A j \in 1 .. i + 1 : ~Lifts(q[j], k)
      BY <1>1, <2>1, <2>2
    <3> QED
      BY <2>2, <3>1 DEF Believes
  <2>3. CASE Lowers(q[1], k)
    <3>1. 1 \in 1 .. i + 1 /\ \A j \in 1 + 1 .. i + 1 : ~Lifts(q[j], k)
      BY <1>1, <2>1
    <3> QED
      BY <2>3, <3>1 DEF Believes
  <2> QED
    BY <1>4, <2>2, <2>3
<1>5. ASSUME NEW m \in 1 .. i, Lowers(t[m], k), \A j \in m + 1 .. i : ~Lifts(t[j], k)
      PROVE  Believes(T, q, i + 1, k)
  <2>1. m \in Nat /\ m \in 1 .. n - 1 /\ m + 1 \in 1 .. i + 1 /\ (m + 1) + 1 = m + 2
    BY <1>1
  <2>2. Lowers(q[m + 1], k)
    BY <1>1, <1>5, <2>1
  <2>3. \A j \in m + 2 .. i + 1 : ~Lifts(q[j], k)
    BY <1>3, <1>5, <2>1
  <2> QED
    BY <2>1, <2>2, <2>3 DEF Believes
<1> QED
  BY <1>2, <1>4, <1>5 DEF Believes

\* Buffers that are alike say the same.
LEMMA BelievedAlike ==
  ASSUME NEW T, NEW q \in Seq(Records), NEW r, Alike(q, r), NEW k,
         NEW i \in 0 .. Len(q), Believes(T, r, i, k)
  PROVE  Believes(T, q, i, k)
<1>1. ASSUME NEW j \in 1 .. Len(q)
      PROVE  (Lifts(r[j], k) <=> Lifts(q[j], k)) /\ (Lowers(r[j], k) <=> Lowers(q[j], k))
  BY DEF Alike, Lifts, Lowers
<1>2. Len(q) \in Nat /\ 1 .. i \subseteq 1 .. Len(q)
      /\ \A m \in 1 .. i : m + 1 .. i \subseteq 1 .. Len(q)
  OBVIOUS
<1> QED
  BY <1>1, <1>2 DEF Believes
-----------------------------------------------------------------------------
(* What the keyboard's acts keep.                                          *)

BufferTrue ==
  /\ \A k \in ModifierKeys : Believes(tracked, records, Len(records), k) => k \in physical \cup missed
  /\ \A i \in 1 .. Len(records) : RecordTrue(tracked, records, i)

\* A record that is true, of keys that were not held or missed before only if
\* the record says that they have gone down.
LEMMA RecordAppended ==
  ASSUME records \in Seq(Records), BufferTrue, NEW r \in Records,
         records' = Append(records, r), UNCHANGED tracked,
         r.type = "key" => /\ ControlTrue(r.control, r.held)
                           /\ r.held = physical' /\ r.missed = missed',
         \A k \in ModifierKeys :
           /\ k \in physical \cup missed => k \in physical' \cup missed' \/ Lifts(r, k)
           /\ Lowers(r, k) => k \in physical'
  PROVE  records' \in Seq(Records) /\ BufferTrue'
<1> DEFINE n == Len(records)
<1>1. /\ n \in Nat /\ Len(records') = n + 1 /\ records'[n + 1] = r
      /\ \A i \in 1 .. n : records'[i] = records[i]
      /\ records' \in Seq(Records)
  OBVIOUS
<1>2. ASSUME NEW k \in ModifierKeys, Believes(tracked', records', n + 1, k)
      PROVE  k \in physical' \cup missed'
  <2>1. (Believes(tracked, records, n, k) /\ ~Lifts(r, k)) \/ Lowers(r, k)
    BY <1>2, BelievedAppended
  <2> QED
    BY <2>1 DEF BufferTrue
<1>3. ASSUME NEW i \in 1 .. n PROVE RecordTrue(tracked', records', i)
  <2>1. \A k \in ModifierKeys : Believes(tracked', records', i, k) => Believes(tracked, records, i, k)
    BY BelievedAppended
  <2>2. RecordTrue(tracked, records, i) /\ records'[i] = records[i]
    BY <1>1 DEF BufferTrue
  <2> QED
    BY <2>1, <2>2 DEF RecordTrue
<1>4. RecordTrue(tracked', records', n + 1)
  BY <1>1, <1>2 DEF RecordTrue
<1>5. \A i \in 1 .. Len(records') : RecordTrue(tracked', records', i)
  BY <1>1, <1>3, <1>4
<1> QED
  BY <1>1, <1>2, <1>5 DEF BufferTrue

\* A buffer that is alike, or the same, while no key is forgotten.
LEMMA RecordJoined ==
  ASSUME records \in Seq(Records), BufferTrue, records' \in Seq(Records),
         Alike(records, records'), UNCHANGED tracked,
         physical \cup missed \subseteq physical' \cup missed'
  PROVE  BufferTrue'
<1>1. Len(records') = Len(records) /\ Len(records) \in Nat
  BY DEF Alike
<1>2. \A k \in ModifierKeys : \A i \in 0 .. Len(records) :
        Believes(tracked', records', i, k) => Believes(tracked, records, i, k)
  BY BelievedAlike
<1>3. ASSUME NEW k \in ModifierKeys, Believes(tracked', records', Len(records'), k)
      PROVE  k \in physical' \cup missed'
  BY <1>1, <1>2, <1>3 DEF BufferTrue
<1>4. ASSUME NEW i \in 1 .. Len(records') PROVE RecordTrue(tracked', records', i)
  <2>1. RecordTrue(tracked, records, i) /\ i \in 0 .. Len(records) /\ i \in 1 .. Len(records)
    BY <1>1 DEF BufferTrue
  <2> QED
    BY <1>2, <2>1 DEF RecordTrue, Alike
<1> QED
  BY <1>3, <1>4 DEF BufferTrue

LEMMA SelfAlike ==
  ASSUME NEW q PROVE Alike(q, q)
BY DEF Alike

\* A record of a key reaches the console, or is missed by it.
LEMMA KeyReaches ==
  ASSUME records \in Seq(Records), BufferTrue, UNCHANGED tracked,
         physical' \subseteq Keys, missed' \subseteq Keys,
         NEW k \in Keys \cup {Unknown}, NEW down \in BOOLEAN, NEW repeats \in Nat, NEW unit \in Nat,
         \/ records' = Buffer(KeyRecord(k, down, repeats, unit))
         \/ records' = records /\ physical \cup missed \subseteq physical' \cup missed',
         physical \cup missed \subseteq
           physical' \cup missed' \cup (IF down THEN {} ELSE {k}),
         down => physical \cup missed \subseteq physical' \cup missed',
         down /\ k \in ModifierKeys => k \in physical'
  PROVE  records' \in Seq(Records) /\ BufferTrue'
<1>1. CASE records' = records /\ physical \cup missed \subseteq physical' \cup missed'
  BY <1>1, SelfAlike, RecordJoined
<1>2. CASE records' = Buffer(KeyRecord(k, down, repeats, unit))
  <2> DEFINE r == KeyRecord(k, down, repeats, unit)
  <2>1. /\ r \in Records /\ r.type = "key" /\ r.key = k /\ r.down = down
        /\ r.held = physical' /\ r.missed = missed' /\ ControlTrue(r.control, r.held)
    BY KeyRecordMade
  <2> HIDE DEF r
  <2>2. CASE records' = Append(records, r)
    <3>1. \A m \in ModifierKeys :
            /\ m \in physical \cup missed => m \in physical' \cup missed' \/ Lifts(r, m)
            /\ Lowers(r, m) => m \in physical'
      BY <2>1 DEF Lifts, Lowers
    <3> QED
      BY <2>1, <2>2, <3>1, RecordAppended
  <2>3. CASE r.type = "key" /\ Coalesces(r)
    <3>1. down
      BY <2>1, <2>3 DEF Coalesces
    <3>2. records' = Buffer(r)
      BY <1>2 DEF r
    <3>3. \/ records' = Append(records, r)
          \/ records' \in Seq(Records) /\ Alike(records, records')
      BY <2>1, <3>2, Buffered
    <3> QED
      BY <2>2, <3>1, <3>3, RecordJoined
  <2>4. CASE ~(r.type = "key" /\ Coalesces(r))
    BY <1>2, <2>2, <2>4 DEF Buffer, r
  <2> QED
    BY <2>3, <2>4
<1> QED
  BY <1>1, <1>2
-----------------------------------------------------------------------------
(* The invariant.                                                          *)

LEMMA ModifierInit == WindowsInit => ModifierInv
<1> SUFFICES ASSUME WindowsInit PROVE ModifierInv
  OBVIOUS
<1>1. records = <<>> /\ tracked = {} /\ physical = {} /\ missed = {} /\ report = NoReport
  BY DEF WindowsInit
<1>2. \A k : ~Believes(tracked, records, 0, k)
  BY <1>1 DEF Believes
<1>3. ModifiersReal
  BY <1>1 DEF ModifiersReal, NoReport
<1> QED
  BY <1>1, <1>2, <1>3 DEF ModifierInv

\* What is typed and pasted are numbers, and no modifiers.
LEMMA Entered ==
  /\ \A k \in Keys : UnitOf[k] \in Nat
  /\ \A unit \in PastedUnits : unit \in Nat
  /\ \A repeats \in 1 .. MaxRepeats : repeats \in Nat
  /\ Unknown \notin ModifierKeys
<1>1. ASSUME NEW k \in Keys PROVE UnitOf[k] \in 0 .. 2 ^ 16 - 1
  BY WindowsAssumption
<1>2. PastedUnits \subseteq 1 .. 2 ^ 16 - 1 /\ MaxRepeats \in 1 .. 2 ^ 16 - 1 /\ Unknown \notin ModifierKeys
  BY WindowsAssumption
<1>3. \A n \in 0 .. 2 ^ 16 - 1 : n \in Nat
  OBVIOUS
<1>4. \A n \in 1 .. 2 ^ 16 - 1 : n \in Nat
  OBVIOUS
<1>5. MaxRepeats \in Nat
  BY <1>2, <1>4
<1>6. \A repeats \in 1 .. MaxRepeats : repeats \in Nat
  BY <1>5
<1>7. \A unit \in PastedUnits : unit \in Nat
  BY <1>2, <1>4
<1>8. \A k \in Keys : UnitOf[k] \in Nat
  BY <1>1, <1>3
<1> QED
  BY <1>2, <1>6, <1>7, <1>8

KeyboardTrue ==
  physical \subseteq Keys /\ missed \subseteq Keys /\ records \in Seq(Records) /\ BufferTrue

LEMMA UserKeepsModifiers ==
  ASSUME ModifierInv, User PROVE ModifierInv'
<1>1. UNCHANGED <<tracked, report>>
  BY DEF User, Press, AutoRepeat, Release, Paste, SwitchWindow, Act, backend
<1>2. records \in Seq(Records) /\ BufferTrue /\ physical \subseteq Keys /\ missed \subseteq Keys
  BY DEF ModifierInv, BufferTrue
<1>3. ModifiersReal'
  BY <1>1 DEF ModifierInv, ModifiersReal
<1>4. SUFFICES KeyboardTrue'
  BY <1>1, <1>3 DEF ModifierInv, BufferTrue, KeyboardTrue
<1>5. ASSUME NEW k \in Keys, Press(k) PROVE KeyboardTrue'
  <2>1. physical' = physical \cup {k} /\ missed' = missed \ {k}
        /\ (records' = records \/ records' = Buffer(KeyRecord(k, TRUE, 1, UnitOf[k])))
    BY <1>5 DEF Press, KeyReachesConsole
  <2>2. UnitOf[k] \in Nat
    BY Entered
  <2> QED
    BY <1>1, <1>2, <2>1, <2>2, KeyReaches DEF KeyboardTrue
<1>6. ASSUME NEW k \in Keys, AutoRepeat(k) PROVE KeyboardTrue'
  <2>1. UNCHANGED <<physical, missed>> /\ k \in physical
        /\ (records' = records \/ records' = Buffer(KeyRecord(k, TRUE, 1, UnitOf[k])))
    BY <1>6 DEF AutoRepeat, KeyReachesConsole
  <2>2. UnitOf[k] \in Nat
    BY Entered
  <2> QED
    BY <1>1, <1>2, <2>1, <2>2, KeyReaches DEF KeyboardTrue
<1>7. ASSUME NEW k \in Keys, Release(k) PROVE KeyboardTrue'
  <2>1. physical' = physical \ {k}
        /\ \/ records' = records /\ missed' = missed \cup {k}
           \/ records' = Buffer(KeyRecord(k, FALSE, 1, 0)) /\ missed' = missed
    BY <1>7 DEF Release, KeyReachesConsole
  <2> QED
    BY <1>1, <1>2, <2>1, KeyReaches DEF KeyboardTrue
<1>8. ASSUME NEW unit \in PastedUnits, NEW repeats \in 1 .. MaxRepeats, Paste(unit, repeats)
      PROVE  KeyboardTrue'
  <2>1. UNCHANGED <<physical, missed>> /\ records' = Buffer(KeyRecord(Unknown, TRUE, repeats, unit))
    BY <1>8 DEF Paste
  <2>2. unit \in Nat /\ repeats \in Nat /\ Unknown \notin ModifierKeys
    BY Entered
  <2> QED
    BY <1>1, <1>2, <2>1, <2>2, KeyReaches DEF KeyboardTrue
<1>9. ASSUME SwitchWindow PROVE KeyboardTrue'
  <2> DEFINE r == [type |-> "focus", set |-> (here' = TRUE)]
  <2>1. UNCHANGED <<physical, missed>> /\ here' \in BOOLEAN
        /\ records' = Append(records, [type |-> "focus", set |-> here'])
    BY <1>9 DEF SwitchWindow
  <2>2. /\ r \in Records /\ r.type = "focus" /\ records' = Append(records, r)
    BY <2>1 DEF Records
  <2> HIDE DEF r
  <2>3. \A k : ~Lifts(r, k) /\ ~Lowers(r, k)
    BY <2>2 DEF Lifts, Lowers
  <2> QED
    BY <1>1, <1>2, <2>1, <2>2, <2>3, RecordAppended DEF KeyboardTrue
<1> QED
  BY <1>5, <1>6, <1>7, <1>8, <1>9 DEF User

\* The modifiers of a key event are those of its record.
LEMMA ReadKeepsModifiers ==
  ASSUME ModifierInv, ReadKey PROVE ModifierInv'
<1> DEFINE r == records[1]
<1>1. /\ records \in Seq(Records) /\ records # <<>> /\ r.type = "key" /\ Head(records) = r
      /\ records' = Tail(records) /\ UNCHANGED <<physical, missed>>
      /\ tracked' = Tracked(r.key, r.down)
      /\ report' = [modifiers |-> Modifiers(tracked', r.control), held |-> r.held,
                    missed |-> r.missed]
  <2>1. records \in Seq(Records) /\ records # <<>>
    BY DEF ModifierInv, ReadKey, Reading
  <2>2. Head(records) = r
    BY <2>1
  <2> QED
    BY <2>1, <2>2 DEF ReadKey, Reading, Read
<1>2. /\ Len(records) \in Nat /\ 1 \in 1 .. Len(records) /\ r \in Records
      /\ records' \in Seq(Records) /\ Len(records') = Len(records) - 1
      /\ \A i \in 1 .. Len(records') : records'[i] = records[i + 1]
  BY <1>1
<1>3. r \in KeyRecords
  BY <1>1, <1>2 DEF Records
<1>4. tracked \subseteq ModifierKeys /\ tracked' \subseteq ModifierKeys
  BY <1>1 DEF ModifierInv, Tracked
<1>5. ASSUME NEW k \in tracked' PROVE (k \in tracked /\ ~Lifts(r, k)) \/ Lowers(r, k)
  BY <1>1, <1>3, <1>5 DEF Tracked, Lifts, Lowers, KeyRecords
<1>6. ASSUME NEW k \in ModifierKeys, NEW i \in 0 .. Len(records) - 1,
             Believes(tracked', records', i, k)
      PROVE  Believes(tracked, records, i + 1, k)
  BY <1>1, <1>5, <1>6, BelievedTail
<1>7. ASSUME NEW i \in 1 .. Len(records') PROVE RecordTrue(tracked', records', i)
  <2>1. /\ RecordTrue(tracked, records, i + 1) /\ records'[i] = records[i + 1]
        /\ i \in 0 .. Len(records) - 1
    BY <1>2 DEF ModifierInv
  <2> QED
    BY <1>6, <2>1 DEF RecordTrue
<1>8. ASSUME NEW k \in ModifierKeys, Believes(tracked', records', Len(records'), k)
      PROVE  k \in physical' \cup missed'
  <2>1. Len(records') \in 0 .. Len(records) - 1 /\ Len(records') + 1 = Len(records)
    BY <1>2
  <2>2. Believes(tracked, records, Len(records), k)
    BY <1>6, <1>8, <2>1
  <2> QED
    BY <1>1, <2>2 DEF ModifierInv
<1>9. tracked' \subseteq r.held \cup r.missed
  <2> SUFFICES ASSUME NEW k \in tracked' PROVE k \in r.held \cup r.missed
    OBVIOUS
  <2>1. Believes(tracked, records, 1, k)
    BY <1>5 DEF Believes
  <2> QED
    BY <1>1, <1>2, <1>4, <2>1 DEF ModifierInv, RecordTrue
<1>10. ControlTrue(r.control, r.held)
  BY <1>1, <1>2 DEF ModifierInv, RecordTrue
<1>11. ModifiersReal'
  <2> DEFINE m == Modifiers(tracked', r.control)
  <2>1. /\ report'.modifiers = m /\ report'.held = r.held /\ report'.missed = r.missed
    BY <1>1
  <2>2. \A side \in {Shifts, Controls, Alts} : r.held \cap side # {} => m \cap side # {}
    BY <1>10 DEF ControlTrue, Modifiers, Shifts, Controls, Alts
  <2>3. \A side \in {Shifts, Controls, Alts, Supers} :
          m \cap side # {} => (r.held \cup r.missed) \cap side # {}
    <3>1. m \cap Shifts # {} => (r.held \cup r.missed) \cap Shifts # {}
      BY <1>9, <1>10 DEF ControlTrue, Modifiers, Shifts, Controls, Alts
    <3>2. m \cap Controls # {} => (r.held \cup r.missed) \cap Controls # {}
      BY <1>9, <1>10 DEF ControlTrue, Modifiers, Shifts, Controls, Alts
    <3>3. m \cap Alts # {} => (r.held \cup r.missed) \cap Alts # {}
      BY <1>9, <1>10 DEF ControlTrue, Modifiers, Shifts, Controls, Alts
    <3>4. m \cap Supers # {} => (r.held \cup r.missed) \cap Supers # {}
      BY <1>9 DEF Modifiers, Supers, Controls, Alts
    <3> QED
      BY <3>1, <3>2, <3>3, <3>4
  <2> HIDE DEF m
  <2> QED
    BY <2>1, <2>2, <2>3 DEF ModifiersReal
<1> QED
  BY <1>1, <1>2, <1>4, <1>7, <1>8, <1>11 DEF ModifierInv

LEMMA FocusKeepsModifiers ==
  ASSUME ModifierInv, ReadFocus PROVE ModifierInv'
<1>1. /\ records \in Seq(Records) /\ records # <<>> /\ records[1].type = "focus"
      /\ records' = Tail(records) /\ UNCHANGED <<physical, missed, tracked, report>>
  <2>1. records \in Seq(Records) /\ records # <<>>
    BY DEF ModifierInv, ReadFocus, Reading
  <2>2. Head(records) = records[1]
    BY <2>1
  <2> QED
    BY <2>1, <2>2 DEF ReadFocus, Reading, Read
<1>2. /\ Len(records) \in Nat /\ records' \in Seq(Records) /\ Len(records') = Len(records) - 1
      /\ \A i \in 1 .. Len(records') : records'[i] = records[i + 1]
  BY <1>1
<1>3. ASSUME NEW k \in ModifierKeys, NEW i \in 0 .. Len(records) - 1,
             Believes(tracked', records', i, k)
      PROVE  Believes(tracked, records, i + 1, k)
  BY <1>1, <1>3, BelievedTail DEF Lifts
<1>4. ASSUME NEW i \in 1 .. Len(records') PROVE RecordTrue(tracked', records', i)
  <2>1. /\ RecordTrue(tracked, records, i + 1) /\ records'[i] = records[i + 1]
        /\ i \in 0 .. Len(records) - 1
    BY <1>2 DEF ModifierInv
  <2> QED
    BY <1>3, <2>1 DEF RecordTrue
<1>5. ASSUME NEW k \in ModifierKeys, Believes(tracked', records', Len(records'), k)
      PROVE  k \in physical' \cup missed'
  <2>1. Len(records') \in 0 .. Len(records) - 1 /\ Len(records') + 1 = Len(records)
    BY <1>1, <1>2
  <2>2. Believes(tracked, records, Len(records), k)
    BY <1>3, <1>5, <2>1
  <2> QED
    BY <1>1, <2>2 DEF ModifierInv
<1> QED
  BY <1>1, <1>2, <1>4, <1>5 DEF ModifierInv, ModifiersReal

LEMMA ModifierStep ==
  ASSUME ModifierInv, [WindowsNext]_<<vars, windowsVars>> PROVE ModifierInv'
<1>1. ASSUME UNCHANGED <<physical, missed, tracked, records>>, UNCHANGED report \/ report' = NoReport
      PROVE  ModifierInv'
  <2>1. ModifiersReal'
    BY <1>1 DEF ModifierInv, ModifiersReal, NoReport
  <2> QED
    BY <1>1, <2>1 DEF ModifierInv
<1>2. CASE BeginRead
  BY <1>1, <1>2 DEF BeginRead, keyboard, backend
<1>3. CASE HandOver
  BY <1>1, <1>3 DEF HandOver, keyboard
<1>4. CASE Begin
  <2>1. /\ records' = <<>> /\ tracked' = {} /\ missed' = {} /\ UNCHANGED <<physical, report>>
    BY <1>4 DEF Begin
  <2>2. \A k : ~Believes(tracked', records', 0, k)
    BY <2>1 DEF Believes
  <2> QED
    BY <2>1, <2>2 DEF ModifierInv, ModifiersReal
<1>5. CASE Process
  BY <1>1, <1>5 DEF Process, windowsVars, keyboard, backend
<1>6. CASE UNCHANGED <<vars, windowsVars>>
  BY <1>1, <1>6 DEF windowsVars, keyboard, backend
<1> QED
  BY <1>2, <1>3, <1>4, <1>5, <1>6, UserKeepsModifiers, ReadKeepsModifiers, FocusKeepsModifiers
  DEF WindowsNext

(***************************************************************************)
(* The modifiers of a key event are those that were held when it happened: *)
(* none is missing of those the console shows, and one too many was        *)
(* released in another window, for any keys and however late it is read.   *)
(***************************************************************************)
THEOREM ModifiersAreReal == WindowsSpec => []ModifiersReal
<1>1. ModifierInv => ModifiersReal
  BY DEF ModifierInv
<1> QED
  BY <1>1, ModifierInit, ModifierStep, PTL DEF WindowsSpec
-----------------------------------------------------------------------------
(* What is held after a series of events or records.                       *)

Takes(f, e, k) ==
  \/ e.type = "KeyUp" /\ e.key = k
  \/ Lifts(e, k)
  \/ e.type = "FocusLost"
  \/ e.type = "focus" /\ ~e.set /\ f
Puts(e, k) == (e.type = "KeyDown" /\ e.key = k) \/ Lowers(e, k)

After(f, S, e) == {k \in Keys : (k \in S /\ ~Takes(f, e, k)) \/ Puts(e, k)}

HeldAfter(f, S, q) ==
  {k \in Keys :
     \/ k \in S /\ \A n \in 1 .. Len(q) : ~Takes(f, q[n], k)
     \/ \E m \in 1 .. Len(q) : Puts(q[m], k) /\ \A n \in m + 1 .. Len(q) : ~Takes(f, q[n], k)}

LEMMA HeldEmpty ==
  ASSUME NEW f, NEW S, S \subseteq Keys
  PROVE  HeldAfter(f, S, <<>>) = S
BY DEF HeldAfter

LEMMA HeldMonotone ==
  ASSUME NEW f, NEW S, NEW U, U \subseteq S, NEW q
  PROVE  HeldAfter(f, U, q) \subseteq HeldAfter(f, S, q)
BY DEF HeldAfter

LEMMA HeldAlike ==
  ASSUME NEW f, NEW S, NEW q \in Seq(Records), NEW r, Alike(q, r)
  PROVE  HeldAfter(f, S, r) \subseteq HeldAfter(f, S, q)
<1>1. Len(r) = Len(q) /\ Len(q) \in Nat
  BY DEF Alike
<1>2. ASSUME NEW i \in 1 .. Len(q), NEW k
      PROVE  (Takes(f, r[i], k) <=> Takes(f, q[i], k)) /\ (Puts(r[i], k) <=> Puts(q[i], k))
  <2>1. q[i] \in Records
    OBVIOUS
  <2>2. q[i].type \in {"key", "focus"}
    BY <2>1 DEF Records, KeyRecords
  <2>3. CASE q[i].type = "key"
    BY <2>3 DEF Alike, Takes, Puts, Lifts, Lowers
  <2>4. CASE q[i].type = "focus"
    BY <2>4 DEF Alike
  <2> QED
    BY <2>2, <2>3, <2>4
<1>3. \A m \in 1 .. Len(q) : \A n \in m + 1 .. Len(q) : n \in 1 .. Len(q)
  BY <1>1
<1> QED
  BY <1>1, <1>2, <1>3 DEF HeldAfter

\* The first element is dealt with.
LEMMA HeldFirst ==
  ASSUME NEW f, NEW X, NEW q \in Seq(X), q # <<>>, NEW S, NEW U, U \subseteq After(f, S, q[1])
  PROVE  HeldAfter(f, U, Tail(q)) \subseteq HeldAfter(f, S, q)
<1> DEFINE l == Len(q)
           t == Tail(q)
<1>1. l \in Nat /\ l > 0 /\ Len(t) = l - 1 /\ \A j \in 1 .. l - 1 : t[j] = q[j + 1]
  OBVIOUS
<1> SUFFICES ASSUME NEW k \in HeldAfter(f, U, t) PROVE k \in HeldAfter(f, S, q)
  OBVIOUS
<1>2. k \in Keys /\ \/ k \in U /\ \A n \in 1 .. l - 1 : ~Takes(f, t[n], k)
                    \/ \E m \in 1 .. l - 1 : /\ Puts(t[m], k)
                                             /\ \A n \in m + 1 .. l - 1 : ~Takes(f, t[n], k)
  BY <1>1 DEF HeldAfter
<1> HIDE DEF l, t
<1>3. ASSUME NEW m \in Nat, \A n \in m + 1 .. l - 1 : ~Takes(f, t[n], k)
      PROVE  \A n \in m + 2 .. l : ~Takes(f, q[n], k)
  <2> SUFFICES ASSUME NEW n \in m + 2 .. l PROVE ~Takes(f, q[n], k)
    OBVIOUS
  <2>1. n - 1 \in m + 1 .. l - 1 /\ n - 1 \in 1 .. l - 1 /\ (n - 1) + 1 = n
    BY <1>1
  <2> QED
    BY <1>1, <1>3, <2>1
<1>4. CASE k \in U /\ \A n \in 1 .. l - 1 : ~Takes(f, t[n], k)
  <2>1. \A n \in 2 .. l : ~Takes(f, q[n], k)
    BY <1>3, <1>4
  <2>2. (k \in S /\ ~Takes(f, q[1], k)) \/ Puts(q[1], k)
    BY <1>4 DEF After
  <2>3. CASE k \in S /\ ~Takes(f, q[1], k)
    <3>1. \A n \in 1 .. l : ~Takes(f, q[n], k)
      BY <1>1, <2>1, <2>3
    <3> QED
      BY <1>2, <2>3, <3>1 DEF HeldAfter, l
  <2>4. CASE Puts(q[1], k)
    <3>1. 1 \in 1 .. l /\ \A n \in 1 + 1 .. l : ~Takes(f, q[n], k)
      BY <1>1, <2>1
    <3> QED
      BY <1>2, <2>4, <3>1 DEF HeldAfter, l
  <2> QED
    BY <2>2, <2>3, <2>4
<1>5. ASSUME NEW m \in 1 .. l - 1, Puts(t[m], k), \A n \in m + 1 .. l - 1 : ~Takes(f, t[n], k)
      PROVE  k \in HeldAfter(f, S, q)
  <2>1. m \in Nat /\ m + 1 \in 1 .. l /\ (m + 1) + 1 = m + 2
    BY <1>1
  <2>2. Puts(q[m + 1], k) /\ \A n \in (m + 1) + 1 .. l : ~Takes(f, q[n], k)
    BY <1>1, <1>3, <1>5, <2>1
  <2> QED
    BY <1>2, <2>1, <2>2 DEF HeldAfter, l
<1> QED
  BY <1>2, <1>4, <1>5

\* Another element, and behind it some that neither put nor take anything.
LEMMA HeldMore ==
  ASSUME NEW f, NEW X, NEW q \in Seq(X), NEW e, NEW s, NEW l \in Nat, NEW S,
         Len(s) = Len(q) + 1 + l,
         \A i \in 1 .. Len(q) : s[i] = q[i],
         s[Len(q) + 1] = e,
         \A i \in Len(q) + 2 .. Len(s) : \A k \in Keys : ~Puts(s[i], k)
  PROVE  HeldAfter(f, S, s) \subseteq After(f, HeldAfter(f, S, q), e)
<1> DEFINE n == Len(q)
<1>1. n \in Nat /\ Len(s) \in Nat /\ Len(s) = n + 1 + l
  OBVIOUS
<1>2. /\ \A i \in 1 .. n : s[i] = q[i]
      /\ s[n + 1] = e /\ n + 1 \in 1 .. Len(s)
      /\ \A i \in n + 2 .. Len(s) : \A k \in Keys : ~Puts(s[i], k)
  BY <1>1
<1> HIDE DEF n
<1> SUFFICES ASSUME NEW k \in HeldAfter(f, S, s) PROVE k \in After(f, HeldAfter(f, S, q), e)
  OBVIOUS
<1>3. k \in Keys
  BY DEF HeldAfter
<1>4. CASE k \in S /\ \A i \in 1 .. Len(s) : ~Takes(f, s[i], k)
  <2>1. ~Takes(f, e, k) /\ \A i \in 1 .. n : ~Takes(f, q[i], k)
    BY <1>1, <1>2, <1>4
  <2> QED
    BY <1>3, <1>4, <2>1 DEF HeldAfter, After, n
<1>5. ASSUME NEW m \in 1 .. Len(s), Puts(s[m], k),
             \A i \in m + 1 .. Len(s) : ~Takes(f, s[i], k)
      PROVE  k \in After(f, HeldAfter(f, S, q), e)
  <2>1. m \in 1 .. n + 1
    BY <1>1, <1>2, <1>3, <1>5
  <2>2. CASE m = n + 1
    BY <1>2, <1>3, <1>5, <2>2 DEF After
  <2>3. CASE m \in 1 .. n
    <3>1. n + 1 \in m + 1 .. Len(s) /\ \A i \in m + 1 .. n : i \in m + 1 .. Len(s) /\ i \in 1 .. n
      BY <1>1, <2>3
    <3>2. Puts(q[m], k) /\ ~Takes(f, e, k) /\ \A i \in m + 1 .. n : ~Takes(f, q[i], k)
      BY <1>2, <1>5, <2>3, <3>1
    <3> QED
      BY <1>3, <2>3, <3>2 DEF HeldAfter, After, n
  <2> QED
    BY <1>1, <2>1, <2>2, <2>3
<1> QED
  BY <1>4, <1>5 DEF HeldAfter
-----------------------------------------------------------------------------
(* The invariant behind NoStuckKeys: the keys that will be held when every *)
(* event and record has been dealt with.                                   *)

Events ==
  KeyEvent({"KeyDown", "KeyUp"}) \cup [type : {"Text"}, character : Int]
    \cup [type : {"FocusGained", "FocusLost"}]

HeldByInput == HeldAfter(enableFocusEvents, current, nativeEventBuffer)
HeldByEvents == HeldAfter(enableFocusEvents, HeldByInput, nativeEvents)
HeldInTheEnd == HeldAfter(enableFocusEvents, HeldByEvents, records)

OutOfSight == IF enableFocusEvents THEN {} ELSE missed

HandsInv ==
  /\ HeldInTheEnd \subseteq physical \cup OutOfSight
  /\ enableFocusEvents /\ ~here => HeldInTheEnd = {}

ReadingInv ==
  /\ nativeEvents \in Seq(Events) /\ nativeEventBuffer \in Seq(Events)
  /\ utf16State \in [high : Int, count : Nat]
  /\ current \subseteq Keys
  /\ pc \in {"ready", "closed"} => nativeEventBuffer = <<>>
  /\ pc = "releasing" =>
       nativeEventBuffer # <<>> /\ Head(nativeEventBuffer).type = "FocusLost"
  /\ ~reading => nativeEvents = <<>>
  /\ reading => pc = "ready"

StuckInv == HandsInv /\ ReadingInv

\* A step of the program that adds no key to those held in the end.
LEMMA HandsStay ==
  ASSUME HandsInv, UNCHANGED <<physical, here, missed, enableFocusEvents>>,
         HeldInTheEnd' \subseteq HeldInTheEnd
  PROVE  HandsInv'
BY DEF HandsInv, OutOfSight

\* A step of Input.
LEMMA InputStep ==
  ASSUME HandsInv,
         UNCHANGED <<physical, here, missed, enableFocusEvents, records, nativeEvents>>,
         HeldByInput' \subseteq HeldByInput
  PROVE  HandsInv'
<1>1. HeldByEvents' \subseteq HeldByEvents
  BY HeldMonotone DEF HeldByEvents
<1>2. HeldInTheEnd' \subseteq HeldInTheEnd
  BY <1>1, HeldMonotone DEF HeldInTheEnd
<1> QED
  BY <1>2, HandsStay

\* A step of Input that deals with the first event of its buffer.
LEMMA ProcessedStep ==
  ASSUME StuckInv, nativeEventBuffer # <<>>,
         nativeEventBuffer' = Tail(nativeEventBuffer),
         UNCHANGED <<physical, here, missed, enableFocusEvents, records, nativeEvents>>,
         current' \subseteq After(enableFocusEvents, current, nativeEventBuffer[1])
  PROVE  HandsInv' /\ nativeEventBuffer' \in Seq(Events) /\ current' \subseteq Keys
<1>1. HeldAfter(enableFocusEvents, current', Tail(nativeEventBuffer)) \subseteq HeldByInput
  BY HeldFirst DEF HeldByInput, StuckInv, ReadingInv
<1>2. HeldByInput' \subseteq HeldByInput
  BY <1>1 DEF HeldByInput
<1> QED
  BY <1>2, InputStep DEF StuckInv, ReadingInv, After
-----------------------------------------------------------------------------
(* Reading.                                                                *)

LEMMA TimesTyped ==
  ASSUME NEW n \in Nat, NEW c \in Int PROVE Times(n, c) \in Seq(Int)
BY DEF Times

LEMMA DecodingTyped ==
  ASSUME NEW pending \in [high : Int, count : Nat], NEW unit \in Nat, NEW repeats \in Nat
  PROVE  /\ DecodeRepeated(pending, unit, repeats).pending \in [high : Int, count : Nat]
         /\ DecodeRepeated(pending, unit, repeats).output \in Seq(Int)
<1> DEFINE Typed(d) == d.pending \in [high : Int, count : Nat] /\ d.output \in Seq(Int)
<1>0. Unpaired \in Int
  BY DEF Unpaired
<1>1. <<>> \in Seq(Int) /\ Flushed(pending) \in Seq(Int)
  BY <1>0, TimesTyped DEF Flushed
<1>2. Typed(Decoding(pending, <<>>))
  BY <1>1 DEF Decoding
<1>3. Typed(AfterHigh(pending, unit, repeats))
  <2>1. \A n \in Nat : n % (MaxCount + 1) \in Nat
    BY CountAssumption
  <2> DEFINE same == pending.high \in {0, unit}
             count == (IF same THEN pending.count ELSE 0) + repeats
             lost == IF same THEN <<>> ELSE Flushed(pending)
  <2>2. count \in Nat /\ lost \in Seq(Int)
    BY <1>1
  <2>3. AfterHigh(pending, unit, repeats) =
          [pending |-> [high |-> unit, count |-> count % (MaxCount + 1)], output |-> lost]
    BY DEF AfterHigh, Decoding
  <2> HIDE DEF count, lost
  <2> QED
    BY <2>1, <2>2, <2>3
<1>4. Typed(AfterLow(pending, unit, repeats))
  <2> DEFINE pairs == IF pending.count < repeats THEN pending.count ELSE repeats
  <2>1. pairs \in Nat /\ repeats - pairs \in Nat /\ pending.count - pairs \in Nat
    OBVIOUS
  <2>2. Pair(pending.high, unit) \in Int
    BY DEF Pair
  <2>3. /\ Times(pairs, Pair(pending.high, unit)) \in Seq(Int)
        /\ Times(repeats - pairs, Unpaired) \in Seq(Int)
    BY <1>0, <2>1, <2>2, TimesTyped
  <2>4. NothingPending \in [high : Int, count : Nat]
    BY DEF NothingPending
  <2>5. [pending EXCEPT !.count = pending.count - pairs] \in [high : Int, count : Nat]
    BY <2>1
  <2> QED
    BY <2>3, <2>4, <2>5 DEF AfterLow, Decoding
<1>5. Typed(Decoding(NothingPending, Flushed(pending) \o Times(repeats, unit)))
  BY <1>1, TimesTyped DEF Decoding, NothingPending
<1> HIDE DEF Typed
<1>6. Typed(DecodeRepeated(pending, unit, repeats))
  BY <1>2, <1>3, <1>4, <1>5 DEF DecodeRepeated
<1> QED
  BY <1>6 DEF Typed

LEMMA TextTyped ==
  ASSUME NEW characters \in Seq(Int)
  PROVE  /\ Text(characters) \in Seq([type : {"Text"}, character : Int])
         /\ Len(Text(characters)) = Len(characters)
<1> DEFINE l == Len(characters)
<1>1. l \in Nat /\ DOMAIN characters = 1 .. l /\ \A i \in 1 .. l : characters[i] \in Int
  OBVIOUS
<1>2. Text(characters) = [i \in 1 .. l |-> [type |-> "Text", character |-> characters[i]]]
  BY <1>1 DEF Text
<1> HIDE DEF l
<1>3. [i \in 1 .. l |-> [type |-> "Text", character |-> characters[i]]]
        \in [1 .. l -> [type : {"Text"}, character : Int]]
  BY <1>1
<1> QED
  BY <1>1, <1>2, <1>3 DEF l

\* The first record has become an event, and perhaps text.
LEMMA RecordRead ==
  ASSUME StuckInv, records \in Seq(Records), records # <<>>, records' = Tail(records),
         UNCHANGED <<physical, here, missed, enableFocusEvents, current, nativeEventBuffer>>,
         HeldByEvents' \subseteq After(enableFocusEvents, HeldByEvents, records[1])
  PROVE  HandsInv'
<1>1. HeldAfter(enableFocusEvents, HeldByEvents', Tail(records)) \subseteq HeldInTheEnd
  BY HeldFirst DEF HeldInTheEnd
<1>2. HeldInTheEnd' \subseteq HeldInTheEnd
  BY <1>1 DEF HeldInTheEnd
<1> QED
  BY <1>2, HandsStay DEF StuckInv

LEMMA ReadKeyKeepsHands ==
  ASSUME StuckInv, records \in Seq(Records), ReadKey
  PROVE  StuckInv'
<1> DEFINE r == records[1]
           event == [type |-> IF r.down THEN "KeyDown" ELSE "KeyUp", key |-> r.key,
                     repeated |-> r.down /\ r.repeats > 1]
           decoding == IF r.down /\ r.unit # 0
                       THEN DecodeRepeated(utf16State, r.unit, r.repeats)
                       ELSE Decoding(utf16State, <<>>)
           characters == Text(decoding.output)
<1>1. records # <<>> /\ Head(records) = r /\ r.type = "key" /\ reading
  BY DEF ReadKey, Reading
<1>2. /\ records' = Tail(records)
      /\ nativeEvents' = nativeEvents \o (<<event>> \o characters)
      /\ utf16State' = decoding.pending
      /\ UNCHANGED <<physical, here, missed, enableFocusEvents, current, nativeEventBuffer, pc,
                     reading>>
  <2>1. /\ nativeEvents' = nativeEvents \o (<<event>> \o characters)
        /\ utf16State' = decoding.pending
    BY <1>1, Zenon DEF ReadKey, Read
  <2>2. /\ records' = Tail(records)
        /\ UNCHANGED <<physical, here, missed, enableFocusEvents, current, nativeEventBuffer,
                       pc, reading>>
    BY DEF ReadKey, Read, vars, keys
  <2> QED
    BY <2>1, <2>2
<1>3. r \in KeyRecords
  <2>1. r \in Records
    BY <1>1
  <2> QED
    BY <1>1, <2>1 DEF Records
<1>4. decoding.pending \in [high : Int, count : Nat] /\ decoding.output \in Seq(Int)
  <2>1. utf16State \in [high : Int, count : Nat] /\ r.unit \in Nat /\ r.repeats \in Nat
    BY <1>3 DEF StuckInv, ReadingInv, KeyRecords
  <2>2. /\ DecodeRepeated(utf16State, r.unit, r.repeats).pending \in [high : Int, count : Nat]
        /\ DecodeRepeated(utf16State, r.unit, r.repeats).output \in Seq(Int)
    BY <2>1, DecodingTyped
  <2> QED
    BY <2>1, <2>2 DEF Decoding
<1>5. event \in Events
  BY <1>3 DEF Events, KeyEvent, KeyRecords
<1>6. Takes(enableFocusEvents, event, Unknown) \in BOOLEAN
      /\ After(enableFocusEvents, HeldByEvents, event) = After(enableFocusEvents, HeldByEvents, r)
  BY <1>1, <1>3 DEF After, Takes, Puts, Lifts, Lowers, KeyRecords
<1> HIDE DEF r, event, decoding
<1>7. /\ characters \in Seq([type : {"Text"}, character : Int])
      /\ Len(characters) = Len(decoding.output)
  BY <1>4, TextTyped
<1> HIDE DEF characters
<1>8. nativeEvents \in Seq(Events) /\ characters \in Seq(Events)
  <2>1. [type : {"Text"}, character : Int] \subseteq Events
    BY DEF Events
  <2> QED
    BY <1>7, <2>1, SeqMonotonic DEF StuckInv, ReadingInv
<1>9. nativeEvents' \in Seq(Events)
  BY <1>2, <1>5, <1>8
<1>10. HeldByEvents' \subseteq After(enableFocusEvents, HeldByEvents, event)
  <2> DEFINE n == Len(nativeEvents)
             l == Len(characters)
  <2>1. /\ n \in Nat /\ l \in Nat /\ Len(nativeEvents') = n + 1 + l
        /\ \A i \in 1 .. n : nativeEvents'[i] = nativeEvents[i]
        /\ nativeEvents'[n + 1] = event
    BY <1>2, <1>5, <1>8
  <2>2. ASSUME NEW i \in n + 2 .. Len(nativeEvents') PROVE nativeEvents'[i].type = "Text"
    <3>1. i - n - 1 \in 1 .. l /\ i - n = 1 + (i - n - 1) /\ i - n \in 1 .. 1 + l
      BY <2>1
    <3>2. nativeEvents'[i] = (<<event>> \o characters)[i - n]
      BY <1>2, <1>5, <1>8, <2>1, <3>1
    <3>3. (<<event>> \o characters)[i - n] = characters[i - n - 1]
      BY <1>5, <1>8, <3>1
    <3>4. characters[i - n - 1] \in [type : {"Text"}, character : Int]
      BY <1>7, <3>1, ElementOfSeq
    <3> QED
      BY <3>2, <3>3, <3>4
  <2>3. \A i \in n + 2 .. Len(nativeEvents') : \A k \in Keys : ~Puts(nativeEvents'[i], k)
    BY <2>2 DEF Puts, Lowers
  <2>4. HeldAfter(enableFocusEvents, HeldByInput, nativeEvents')
          \subseteq After(enableFocusEvents, HeldByEvents, event)
    BY <1>8, <2>1, <2>3, HeldMore DEF HeldByEvents
  <2> QED
    BY <1>2, <2>4 DEF HeldByEvents, HeldByInput
<1>11. HandsInv'
  BY <1>1, <1>2, <1>6, <1>10, RecordRead DEF r
<1> QED
  BY <1>1, <1>2, <1>4, <1>9, <1>11 DEF StuckInv, ReadingInv

LEMMA ReadFocusKeepsHands ==
  ASSUME StuckInv, records \in Seq(Records), ReadFocus
  PROVE  StuckInv'
<1> DEFINE r == records[1]
           event == [type |-> IF r.set THEN "FocusGained" ELSE "FocusLost"]
<1>1. records # <<>> /\ Head(records) = r /\ r.type = "focus" /\ reading
  BY DEF ReadFocus, Reading
<1>2. /\ records' = Tail(records)
      /\ UNCHANGED <<physical, here, missed, enableFocusEvents, current, nativeEventBuffer, pc,
                     reading>>
      /\ enableFocusEvents =>
           nativeEvents' = nativeEvents \o <<event>> /\ utf16State' = PendingAfterFocus(r.set)
      /\ ~enableFocusEvents => nativeEvents' = nativeEvents \o <<>> /\ utf16State' = utf16State
  <2>1. /\ enableFocusEvents =>
             nativeEvents' = nativeEvents \o <<event>> /\ utf16State' = PendingAfterFocus(r.set)
        /\ ~enableFocusEvents =>
             nativeEvents' = nativeEvents \o <<>> /\ utf16State' = utf16State
    BY <1>1, Zenon DEF ReadFocus, Read
  <2>2. /\ records' = Tail(records)
        /\ UNCHANGED <<physical, here, missed, enableFocusEvents, current, nativeEventBuffer,
                       pc, reading>>
    BY DEF ReadFocus, Read, vars, keys
  <2> QED
    BY <2>1, <2>2
<1>3. utf16State' \in [high : Int, count : Nat]
  BY <1>2 DEF StuckInv, ReadingInv, PendingAfterFocus, NothingPending
<1>4. nativeEvents \in Seq(Events) /\ event \in Events
  BY DEF StuckInv, ReadingInv, Events
<1>5. nativeEvents' \in Seq(Events)
  <2>1. nativeEvents \o <<event>> \in Seq(Events) /\ nativeEvents \o <<>> \in Seq(Events)
    BY <1>4
  <2> QED
    BY <1>2, <2>1
<1>6. HeldByEvents' \subseteq After(enableFocusEvents, HeldByEvents, r)
  <2>1. CASE enableFocusEvents
    <3>1. /\ Len(nativeEvents') = Len(nativeEvents) + 1 + 0
          /\ \A i \in 1 .. Len(nativeEvents) : nativeEvents'[i] = nativeEvents[i]
          /\ nativeEvents'[Len(nativeEvents) + 1] = event
          /\ Len(nativeEvents) + 2 .. Len(nativeEvents') = {}
      BY <1>2, <1>4, <2>1
    <3>2. After(enableFocusEvents, HeldByEvents, event)
            \subseteq After(enableFocusEvents, HeldByEvents, r)
      BY <1>1, <2>1 DEF After, Takes, Puts, Lifts, Lowers
    <3> HIDE DEF event, r
    <3>3. HeldAfter(enableFocusEvents, HeldByInput, nativeEvents')
            \subseteq After(enableFocusEvents, HeldByEvents, event)
      BY <1>4, <3>1, HeldMore DEF HeldByEvents
    <3> QED
      BY <1>2, <3>2, <3>3 DEF HeldByEvents, HeldByInput
  <2>2. CASE ~enableFocusEvents
    <3>1. nativeEvents' = nativeEvents
      BY <1>2, <1>4, <2>2
    <3>2. HeldByEvents' = HeldByEvents /\ HeldByEvents \subseteq Keys
      BY <1>2, <3>1 DEF HeldByEvents, HeldByInput, HeldAfter
    <3> QED
      BY <1>1, <2>2, <3>2 DEF After, Takes, Lifts
  <2> QED
    BY <2>1, <2>2
<1>7. HandsInv'
  BY <1>1, <1>2, <1>6, RecordRead
<1> QED
  BY <1>1, <1>2, <1>3, <1>5, <1>7 DEF StuckInv, ReadingInv
-----------------------------------------------------------------------------
(* The keyboard.                                                           *)

\* A record has been added, which says no more than has happened.
LEMMA RecordedHands ==
  ASSUME HandsInv, records \in Seq(Records), NEW r \in Records,
         UNCHANGED <<enableFocusEvents, current, nativeEventBuffer, nativeEvents>>,
         \/ records' = Append(records, r)
            /\ After(enableFocusEvents, HeldInTheEnd, r) \subseteq physical' \cup OutOfSight'
            /\ (enableFocusEvents /\ ~here' => After(enableFocusEvents, HeldInTheEnd, r) = {})
         \/ /\ records' = records \/ Alike(records, records')
            /\ HeldInTheEnd \subseteq physical' \cup OutOfSight'
            /\ (enableFocusEvents /\ ~here' => HeldInTheEnd = {})
  PROVE  HandsInv'
<1>1. HeldByEvents' = HeldByEvents
  BY DEF HeldByEvents, HeldByInput
<1>2. CASE records' = records \/ Alike(records, records')
  <2>1. HeldAfter(enableFocusEvents, HeldByEvents, records') \subseteq HeldInTheEnd
    BY <1>2, HeldAlike DEF HeldInTheEnd
  <2>2. HeldInTheEnd' \subseteq HeldInTheEnd
    BY <1>1, <2>1 DEF HeldInTheEnd
  <2>3. CASE records' = Append(records, r)
    <3>1. Len(Append(records, r)) = Len(records) + 1
      OBVIOUS
    <3> QED
      BY <1>2, <2>3, <3>1 DEF Alike
  <2> QED
    BY <2>2, <2>3 DEF HandsInv
<1>3. CASE records' = Append(records, r)
  <2>1. /\ Len(records') = Len(records) + 1 + 0 /\ records'[Len(records) + 1] = r
        /\ \A i \in 1 .. Len(records) : records'[i] = records[i]
        /\ Len(records) + 2 .. Len(records') = {}
    BY <1>3
  <2>2. HeldAfter(enableFocusEvents, HeldByEvents, records')
          \subseteq After(enableFocusEvents, HeldInTheEnd, r)
    BY <2>1, HeldMore DEF HeldInTheEnd
  <2>3. HeldInTheEnd' \subseteq After(enableFocusEvents, HeldInTheEnd, r)
    BY <1>1, <2>2 DEF HeldInTheEnd
  <2>4. CASE records' = records \/ Alike(records, records')
    BY <1>2, <2>4
  <2> QED
    BY <2>3, <2>4 DEF HandsInv
<1> QED
  BY <1>2, <1>3

\* A record of a key, of what has happened to it.
LEMMA KeyKeepsHands ==
  ASSUME HandsInv, records \in Seq(Records), physical' \subseteq Keys, missed' \subseteq Keys,
         UNCHANGED <<enableFocusEvents, current, nativeEventBuffer, nativeEvents, here>>,
         here,
         NEW k \in Keys \cup {Unknown}, NEW down \in BOOLEAN, NEW repeats \in Nat, NEW unit \in Nat,
         records' = Buffer(KeyRecord(k, down, repeats, unit)),
         IF down
         THEN (k \in Keys => k \in physical') /\ physical \cup OutOfSight \subseteq physical' \cup OutOfSight'
         ELSE physical \cup OutOfSight \subseteq physical' \cup OutOfSight' \cup {k}
  PROVE  HandsInv'
<1> DEFINE r == KeyRecord(k, down, repeats, unit)
<1>1. r \in Records /\ r.type = "key" /\ r.key = k /\ r.down = down
  BY KeyRecordMade
<1>2. records' = Buffer(r)
  OBVIOUS
<1> HIDE DEF r
<1>3. CASE records' = Append(records, r)
  <2>1. After(enableFocusEvents, HeldInTheEnd, r) \subseteq physical' \cup OutOfSight'
    BY <1>1 DEF After, Takes, Puts, Lifts, Lowers, HandsInv
  <2> QED
    BY <1>1, <1>3, <2>1, RecordedHands
<1>4. CASE Coalesces(r)
  <2>1. down
    BY <1>1, <1>4 DEF Coalesces
  <2>2. records' = Append(records, r) \/ Alike(records, records')
    BY <1>1, <1>2, Buffered
  <2>3. HeldInTheEnd \subseteq physical' \cup OutOfSight'
    BY <2>1 DEF HandsInv
  <2> QED
    BY <1>1, <1>3, <2>2, <2>3, RecordedHands
<1>5. CASE ~Coalesces(r)
  BY <1>2, <1>3, <1>5 DEF Buffer
<1> QED
  BY <1>4, <1>5

\* Something happens that the console does not see.
LEMMA UnseenKeepsHands ==
  ASSUME HandsInv,
         UNCHANGED <<enableFocusEvents, current, nativeEventBuffer, nativeEvents, here, records>>,
         ~here,
         ~enableFocusEvents => physical \cup missed \subseteq physical' \cup missed'
  PROVE  HandsInv'
<1>1. HeldInTheEnd' = HeldInTheEnd
  BY DEF HeldInTheEnd, HeldByEvents, HeldByInput
<1> QED
  BY <1>1 DEF HandsInv, OutOfSight

LEMMA UserKeepsHands ==
  ASSUME ModifierInv, ModifierInv', StuckInv, User
  PROVE  StuckInv'
<1>1. UNCHANGED <<enableFocusEvents, current, nativeEventBuffer, nativeEvents, pc, reading,
                  utf16State>>
  BY DEF User, Press, AutoRepeat, Release, Paste, SwitchWindow, Act, backend, vars, keys
<1>2. /\ HandsInv /\ records \in Seq(Records) /\ physical' \subseteq Keys /\ missed' \subseteq Keys
      /\ physical \subseteq Keys /\ missed \subseteq Keys
  BY DEF StuckInv, ModifierInv
<1>3. ReadingInv'
  BY <1>1 DEF StuckInv, ReadingInv
<1>4. SUFFICES HandsInv'
  BY <1>3 DEF StuckInv
<1>5. ASSUME NEW k \in Keys, Press(k) PROVE HandsInv'
  <2>1. /\ physical' = physical \cup {k} /\ missed' = missed \ {k} /\ here' = here
        /\ IF here THEN records' = Buffer(KeyRecord(k, TRUE, 1, UnitOf[k])) ELSE records' = records
        /\ UnitOf[k] \in Nat
    BY <1>5, Entered DEF Press, KeyReachesConsole
  <2>2. physical \cup OutOfSight \subseteq physical' \cup OutOfSight'
    BY <1>1, <2>1 DEF OutOfSight
  <2> QED
    BY <1>1, <1>2, <2>1, <2>2, KeyKeepsHands, UnseenKeepsHands
<1>6. ASSUME NEW k \in Keys, AutoRepeat(k) PROVE HandsInv'
  <2>1. /\ UNCHANGED <<physical, missed, here>> /\ k \in physical /\ here
        /\ records' = Buffer(KeyRecord(k, TRUE, 1, UnitOf[k]))
        /\ UnitOf[k] \in Nat
    BY <1>6, Entered DEF AutoRepeat, KeyReachesConsole
  <2>2. physical \cup OutOfSight \subseteq physical' \cup OutOfSight'
    BY <1>1, <2>1 DEF OutOfSight
  <2> QED
    BY <1>1, <1>2, <2>1, <2>2, KeyKeepsHands
<1>7. ASSUME NEW k \in Keys, Release(k) PROVE HandsInv'
  <2>1. /\ physical' = physical \ {k} /\ here' = here
        /\ IF here THEN records' = Buffer(KeyRecord(k, FALSE, 1, 0)) /\ missed' = missed
           ELSE records' = records /\ missed' = missed \cup {k}
    BY <1>7 DEF Release, KeyReachesConsole
  <2>2. CASE here
    <3>1. physical \cup OutOfSight \subseteq physical' \cup OutOfSight' \cup {k}
      BY <1>1, <2>1, <2>2 DEF OutOfSight
    <3> QED
      BY <1>1, <1>2, <2>1, <2>2, <3>1, KeyKeepsHands
  <2>3. CASE ~here
    BY <1>1, <1>2, <2>1, <2>3, UnseenKeepsHands
  <2> QED
    BY <2>2, <2>3
<1>8. ASSUME NEW unit \in PastedUnits, NEW repeats \in 1 .. MaxRepeats, Paste(unit, repeats)
      PROVE  HandsInv'
  <2>1. /\ UNCHANGED <<physical, missed, here>> /\ here
        /\ records' = Buffer(KeyRecord(Unknown, TRUE, repeats, unit))
        /\ unit \in Nat /\ repeats \in Nat /\ Unknown \notin Keys
    BY <1>8, Entered, InputAssumption DEF Paste
  <2>2. physical \cup OutOfSight \subseteq physical' \cup OutOfSight'
    BY <1>1, <2>1 DEF OutOfSight
  <2> QED
    BY <1>1, <1>2, <2>1, <2>2, KeyKeepsHands
<1>9. ASSUME SwitchWindow PROVE HandsInv'
  <2>1. /\ UNCHANGED <<physical, missed>> /\ here' = ~here
        /\ records' = Append(records, [type |-> "focus", set |-> here'])
    BY <1>9 DEF SwitchWindow
  <2> DEFINE r == [type |-> "focus", set |-> here']
  <2>2. r \in Records /\ r.type = "focus" /\ r.set = here' /\ records' = Append(records, r)
    BY <2>1 DEF Records
  <2> HIDE DEF r
  <2>3. After(enableFocusEvents, HeldInTheEnd, r) \subseteq HeldInTheEnd
    BY <2>2 DEF After, Puts, Lowers
  <2>4. enableFocusEvents /\ ~here' => After(enableFocusEvents, HeldInTheEnd, r) = {}
    BY <2>2 DEF After, Puts, Lowers, Takes
  <2>5. After(enableFocusEvents, HeldInTheEnd, r) \subseteq physical' \cup OutOfSight'
    BY <1>1, <1>2, <2>1, <2>3 DEF HandsInv, OutOfSight
  <2> QED
    BY <1>1, <1>2, <2>2, <2>4, <2>5, RecordedHands
<1> QED
  BY <1>5, <1>6, <1>7, <1>8, <1>9 DEF User
-----------------------------------------------------------------------------
(* Input, and sessions.                                                    *)

LEMMA ProcessKeepsHands ==
  ASSUME StuckInv, ~MayFail, Process
  PROVE  StuckInv'
<1>1. UNCHANGED <<physical, here, missed, enableFocusEvents, records, nativeEvents, reading,
                  utf16State>>
  BY DEF Process, windowsVars, keyboard, backend
<1>2. HandsInv /\ ReadingInv
  BY DEF StuckInv
<1>3. ASSUME NEW type, Processing(type)
      PROVE  /\ pc = "processing" /\ ~reading /\ nativeEventBuffer # <<>>
             /\ nativeEventBuffer[1].type = type /\ nativeEventBuffer[1] \in Events
             /\ Head(nativeEventBuffer) = nativeEventBuffer[1]
  BY <1>2, <1>3 DEF Processing, ReadingInv
<1>4. ASSUME nativeEventBuffer # <<>>, Processed, pc' = "processing", ~reading,
             current' \subseteq After(enableFocusEvents, current, nativeEventBuffer[1])
      PROVE  StuckInv'
  <2>1. HandsInv' /\ nativeEventBuffer' \in Seq(Events) /\ current' \subseteq Keys
    BY <1>1, <1>4, ProcessedStep DEF Processed
  <2> QED
    BY <1>1, <1>2, <1>4, <2>1 DEF StuckInv, ReadingInv
<1>5. current \subseteq Keys
  BY <1>2 DEF ReadingInv
<1>6. CASE KeyDown
  <2>1. /\ nativeEventBuffer # <<>> /\ pc = "processing" /\ ~reading
        /\ nativeEventBuffer[1].type = "KeyDown"
        /\ Processed /\ pc' = "processing"
        /\ current' = current \cup ({nativeEventBuffer[1].key} \cap Keys)
    BY <1>3, <1>6 DEF KeyDown
  <2>2. current' \subseteq After(enableFocusEvents, current, nativeEventBuffer[1])
    BY <1>5, <2>1 DEF After, Takes, Puts, Lifts
  <2> QED
    BY <1>4, <2>1, <2>2
<1>7. CASE KeyUp
  <2>1. /\ nativeEventBuffer # <<>> /\ pc = "processing" /\ ~reading
        /\ nativeEventBuffer[1].type = "KeyUp"
        /\ Processed /\ pc' = "processing"
        /\ current' = current \ {nativeEventBuffer[1].key}
    BY <1>3, <1>7 DEF KeyUp
  <2>2. current' \subseteq After(enableFocusEvents, current, nativeEventBuffer[1])
    BY <1>5, <2>1 DEF After, Takes, Puts, Lifts
  <2> QED
    BY <1>4, <2>1, <2>2
<1>8. CASE TextEntered \/ FocusGained
  <2>1. /\ nativeEventBuffer # <<>> /\ pc = "processing" /\ ~reading
        /\ nativeEventBuffer[1].type \in {"Text", "FocusGained"}
        /\ Processed /\ pc' = "processing" /\ current' = current
    BY <1>3, <1>8 DEF TextEntered, FocusGained, keys
  <2>2. current' \subseteq After(enableFocusEvents, current, nativeEventBuffer[1])
    BY <1>5, <2>1 DEF After, Takes, Puts, Lifts
  <2> QED
    BY <1>4, <2>1, <2>2
<1>9. CASE FocusLost
  <2>1. /\ nativeEventBuffer # <<>> /\ ~reading /\ Head(nativeEventBuffer).type = "FocusLost"
        /\ UNCHANGED <<current, nativeEventBuffer>> /\ pc' = "releasing"
    BY <1>3, <1>9 DEF FocusLost, keys, Processing
  <2>2. HandsInv'
    BY <1>1, <1>2, <2>1, InputStep DEF HeldByInput
  <2> QED
    BY <1>1, <1>2, <2>1, <2>2 DEF StuckInv, ReadingInv
<1>10. ASSUME NEW k \in Keys, ReleaseKey(k) PROVE StuckInv'
  <2>1. /\ pc = "releasing" /\ pc' = pc /\ nativeEventBuffer' = nativeEventBuffer
        /\ current' = current \ {k}
    BY <1>10 DEF ReleaseKey
  <2>2. HeldAfter(enableFocusEvents, current', nativeEventBuffer) \subseteq HeldByInput
    BY <2>1, HeldMonotone DEF HeldByInput
  <2>3. HeldByInput' \subseteq HeldByInput
    BY <1>1, <2>1, <2>2 DEF HeldByInput
  <2>4. HandsInv'
    BY <1>1, <1>2, <2>3, InputStep
  <2> QED
    BY <1>1, <1>2, <2>1, <2>4 DEF StuckInv, ReadingInv
<1>11. CASE ReleasedAllKeys
  <2>1. /\ pc = "releasing" /\ pc' = "processing" /\ Processed /\ current' = current
        /\ FirstHeld = {}
    BY <1>11 DEF ReleasedAllKeys, keys
  <2>2. current = {} /\ nativeEventBuffer # <<>> /\ ~reading
    BY <1>2, <1>5, <2>1, FirstHeldFinds DEF ReadingInv
  <2> QED
    BY <1>4, <2>1, <2>2
<1>12. CASE EndUpdate
  <2>1. /\ pc = "processing" /\ nativeEventBuffer = <<>>
        /\ UNCHANGED <<current, nativeEventBuffer>> /\ pc' = "ready"
    BY <1>12 DEF EndUpdate, keys
  <2>2. HandsInv'
    BY <1>1, <1>2, <2>1, InputStep DEF HeldByInput
  <2> QED
    BY <1>1, <1>2, <2>1, <2>2 DEF StuckInv, ReadingInv
<1>13. CASE Close /\ ~reading
  <2>1. /\ pc = "ready" /\ pc' = "closed" /\ current' = {} /\ nativeEventBuffer' = <<>>
    BY <1>13 DEF Close, Reset
  <2>2. HeldByInput' = {}
    BY <2>1, HeldEmpty DEF HeldByInput
  <2>3. HandsInv'
    BY <1>1, <1>2, <2>2, InputStep
  <2> QED
    BY <1>1, <1>2, <1>13, <2>1, <2>3 DEF StuckInv, ReadingInv
<1> QED
  BY <1>6, <1>7, <1>8, <1>9, <1>10, <1>11, <1>12, <1>13 DEF Process

LEMMA StuckInit == WindowsInit => StuckInv
<1> SUFFICES ASSUME WindowsInit PROVE StuckInv
  OBVIOUS
<1>1. /\ current = {} /\ nativeEventBuffer = <<>> /\ nativeEvents = <<>> /\ records = <<>>
      /\ pc = "closed" /\ ~reading /\ utf16State = NothingPending
  BY DEF WindowsInit, Init
<1>2. HeldInTheEnd = {}
  BY <1>1, HeldEmpty DEF HeldInTheEnd, HeldByEvents, HeldByInput
<1> QED
  BY <1>1, <1>2 DEF StuckInv, HandsInv, ReadingInv, NothingPending

LEMMA StuckStep ==
  ASSUME ModifierInv, ModifierInv', StuckInv, ~MayFail, [WindowsNext]_<<vars, windowsVars>>
  PROVE  StuckInv'
<1>1. HandsInv /\ ReadingInv /\ records \in Seq(Records)
  BY DEF StuckInv, ModifierInv
<1>2. CASE User
  BY <1>2, UserKeepsHands
<1>3. CASE BeginRead
  <2>1. /\ UNCHANGED <<physical, here, missed, enableFocusEvents, records, current,
                       nativeEventBuffer, pc, utf16State>>
        /\ nativeEvents = <<>> /\ nativeEvents' = <<>> /\ pc = "ready"
    BY <1>1, <1>3 DEF BeginRead, Between, ReadingInv, keyboard, backend, vars, keys
  <2>2. HandsInv'
    BY <1>1, <2>1, InputStep DEF HeldByInput
  <2> QED
    BY <1>1, <2>1, <2>2 DEF StuckInv, ReadingInv
<1>4. CASE ReadKey
  BY <1>1, <1>4, ReadKeyKeepsHands
<1>5. CASE ReadFocus
  BY <1>1, <1>5, ReadFocusKeepsHands
<1>6. CASE HandOver
  <2>1. /\ UNCHANGED <<physical, here, missed, enableFocusEvents, records, current, utf16State>>
        /\ nativeEventBuffer = <<>> /\ nativeEventBuffer' = nativeEvents /\ nativeEvents' = <<>>
        /\ pc' = "processing" /\ ~reading'
    BY <1>1, <1>6 DEF HandOver, BeginUpdate, ReadingInv, keyboard
  <2>2. HeldByInput = current
    BY <1>1, <2>1, HeldEmpty DEF HeldByInput, ReadingInv
  <2>3. HeldByInput' = HeldByEvents
    BY <2>1, <2>2 DEF HeldByInput, HeldByEvents
  <2>4. HeldByEvents \subseteq Keys
    BY DEF HeldByEvents, HeldAfter
  <2>5. HeldByEvents' = HeldByEvents
    <3>1. HeldByEvents' = HeldAfter(enableFocusEvents, HeldByEvents, <<>>)
      BY <2>1, <2>3 DEF HeldByEvents
    <3> QED
      BY <2>4, <3>1, HeldEmpty
  <2>6. HeldInTheEnd' = HeldInTheEnd
    BY <2>1, <2>5 DEF HeldInTheEnd
  <2>7. HandsInv'
    BY <1>1, <2>1, <2>6, HandsStay
  <2> QED
    BY <1>1, <2>1, <2>7 DEF StuckInv, ReadingInv
<1>7. CASE Begin
  <2>1. /\ pc = "closed" /\ current' = {} /\ nativeEventBuffer' = <<>> /\ records' = <<>>
        /\ pc' = "ready" /\ UNCHANGED <<nativeEvents, reading>> /\ utf16State' = NothingPending
    BY <1>7 DEF Begin, Initialize, Reset
  <2>2. ~reading /\ nativeEvents' = <<>>
    BY <1>1, <2>1 DEF ReadingInv
  <2>3. HeldInTheEnd' = {}
    BY <2>1, <2>2, HeldEmpty DEF HeldInTheEnd, HeldByEvents, HeldByInput
  <2> QED
    BY <2>1, <2>2, <2>3 DEF StuckInv, HandsInv, ReadingInv, NothingPending
<1>8. CASE Process
  BY <1>8, ProcessKeepsHands
<1>9. CASE UNCHANGED <<vars, windowsVars>>
  <2>1. /\ UNCHANGED <<physical, here, missed, enableFocusEvents, records, nativeEvents, current,
                       nativeEventBuffer, pc, reading, utf16State>>
    BY <1>9 DEF vars, keys, windowsVars, keyboard, backend
  <2>2. HandsInv'
    BY <1>1, <2>1, InputStep DEF HeldByInput
  <2> QED
    BY <1>1, <2>1, <2>2 DEF StuckInv, ReadingInv
<1> QED
  BY <1>2, <1>3, <1>4, <1>5, <1>6, <1>7, <1>8, <1>9 DEF WindowsNext

(***************************************************************************)
(* Once everything has been read no key is reported as held that is not,   *)
(* but those that were released in another window where focus events are   *)
(* not enabled; for any keys and acts, when no read and no allocation      *)
(* fails.                                                                  *)
(***************************************************************************)
THEOREM NoKeyIsStuck ==
  ASSUME ~MayFail
  PROVE  WindowsSpec => []NoStuckKeys
<1>1. ASSUME StuckInv PROVE NoStuckKeys
  <2> SUFFICES ASSUME Settled PROVE current \subseteq physical \cup OutOfSight
    BY DEF NoStuckKeys, OutOfSight
  <2>1. nativeEventBuffer = <<>> /\ nativeEvents = <<>> /\ records = <<>> /\ current \subseteq Keys
    BY <1>1 DEF Settled, Between, StuckInv, ReadingInv
  <2>2. HeldInTheEnd = current
    BY <2>1, HeldEmpty DEF HeldInTheEnd, HeldByEvents, HeldByInput
  <2> QED
    BY <1>1, <2>2 DEF StuckInv, HandsInv
<1>2. ModifierInv /\ StuckInv /\ ModifierInv' /\ [WindowsNext]_<<vars, windowsVars>> => StuckInv'
  BY StuckStep
<1>3. ModifierInv /\ [WindowsNext]_<<vars, windowsVars>> => ModifierInv'
  BY ModifierStep
<1> QED
  BY <1>1, <1>2, <1>3, ModifierInit, StuckInit, PTL DEF WindowsSpec
-----------------------------------------------------------------------------
(***************************************************************************)
(* Text.  The code units that have been entered are those of the records   *)
(* that have been read, followed by those of the records in the buffer;    *)
(* the state of the decoder is that of the former, taken one by one.       *)
(***************************************************************************)
Library == INSTANCE Utf8_proofs
SequenceFacts == INSTANCE SequenceTheorems

UnitStates == [queue : Seq(Int), output : Seq(Int)]
FirstUnitState == [queue |-> <<>>, output |-> <<>>]
OneUnits == [p \in UnitStates \X Int |-> OneUnit(p[1], p[2])]

\* What the code units of a sequence come to, one by one.
UnitByUnit(s) == Library!Fold(OneUnits, FirstUnitState, s)

LEMMA SurrogatesTyped ==
  /\ \A unit \in HighSurrogates : unit \in Int /\ unit > 0 /\ unit \notin LowSurrogates
  /\ \A unit \in LowSurrogates : unit \in Int /\ unit > 0
  /\ Unpaired \in Int /\ \A h \in Int, l \in Int : Pair(h, l) \in Int
BY DEF HighSurrogates, LowSurrogates, Unpaired, Pair

TimesFact(n, x) ==
  /\ Len(Times(n, x)) = n /\ DOMAIN Times(n, x) = 1 .. n
  /\ Times(0, x) = <<>> /\ (Times(n, x) = <<>> <=> n = 0)
  /\ n > 0 => Times(n, x)[1] = x /\ Tail(Times(n, x)) = Times(n - 1, x)
  /\ Times(n + 1, x) = Append(Times(n, x), x)

LEMMA TimesFacts ==
  ASSUME NEW n \in Nat, NEW x PROVE TimesFact(n, x)
<1>1. Times(n, x) \in Seq({x}) /\ Len(Times(n, x)) = n /\ DOMAIN Times(n, x) = 1 .. n
  BY DEF Times
<1>2. Times(0, x) = <<>> /\ (Times(n, x) = <<>> <=> n = 0)
  BY <1>1 DEF Times
<1>3. n > 0 => Times(n, x)[1] = x /\ Tail(Times(n, x)) = Times(n - 1, x)
  BY DEF Times
<1>4. Times(n + 1, x) = Append(Times(n, x), x)
  BY DEF Times
<1> QED
  BY <1>1, <1>2, <1>3, <1>4 DEF TimesFact

LEMMA TimesSum ==
  ASSUME NEW m \in Nat, NEW n \in Nat, NEW x \in Int
  PROVE  Times(m + n, x) = Times(m, x) \o Times(n, x)
BY DEF Times

LEMMA OneUnitTyped ==
  ASSUME NEW s \in UnitStates, NEW unit \in Int
  PROVE  OneUnit(s, unit) \in UnitStates
<1> DEFINE lost == [i \in DOMAIN s.queue |-> Unpaired]
<1>1. s.queue \in Seq(Int) /\ s.output \in Seq(Int) /\ <<>> \in Seq(Int) /\ <<unit>> \in Seq(Int)
  BY DEF UnitStates
<1>2. lost \in Seq(Int)
  <2>1. lost = Times(Len(s.queue), Unpaired) /\ Len(s.queue) \in Nat
    BY <1>1 DEF Times
  <2> QED
    BY <2>1, SurrogatesTyped, TimesTyped
<1> HIDE DEF lost
<1>3. /\ s.output \o lost \in Seq(Int) /\ Append(s.output \o lost, unit) \in Seq(Int)
      /\ Append(s.queue, unit) \in Seq(Int) /\ Append(s.output, Unpaired) \in Seq(Int)
  BY <1>1, <1>2, SurrogatesTyped
<1>4. s.queue # <<>> =>
        Tail(s.queue) \in Seq(Int) /\ Append(s.output, Pair(s.queue[1], unit)) \in Seq(Int)
  <2> DEFINE pair == Pair(s.queue[1], unit)
  <2>1. s.queue # <<>> => s.queue[1] \in Int /\ Tail(s.queue) \in Seq(Int)
    BY <1>1
  <2>2. s.queue # <<>> => pair \in Int
    BY <2>1, SurrogatesTyped
  <2> HIDE DEF pair
  <2>3. s.queue # <<>> => Append(s.output, pair) \in Seq(Int)
    BY <1>1, <2>2
  <2> QED
    BY <2>1, <2>3 DEF pair
<1>5. /\ [s EXCEPT !.queue = <<>>] \in UnitStates
      /\ [s EXCEPT !.queue = Append(s.queue, unit)] \in UnitStates
  BY <1>1, <1>3 DEF UnitStates
<1>6. /\ [queue |-> <<unit>>, output |-> s.output \o lost] \in UnitStates
      /\ [queue |-> <<>>, output |-> Append(s.output \o lost, unit)] \in UnitStates
  BY <1>1, <1>3 DEF UnitStates
<1>7. /\ [s EXCEPT !.output = Append(s.output, Unpaired)] \in UnitStates
      /\ s.queue # <<>> =>
           [queue |-> Tail(s.queue), output |-> Append(s.output, Pair(s.queue[1], unit))]
             \in UnitStates
  BY <1>3, <1>4 DEF UnitStates
<1> QED
  BY <1>5, <1>6, <1>7 DEF OneUnit, lost

LEMMA OneUnitsTyped ==
  /\ OneUnits \in [UnitStates \X Int -> UnitStates]
  /\ \A s \in UnitStates, unit \in Int : OneUnits[<<s, unit>>] = OneUnit(s, unit)
BY OneUnitTyped DEF OneUnits

LEMMA FirstTyped == FirstUnitState \in UnitStates
BY DEF FirstUnitState, UnitStates

LEMMA UnitsAppended ==
  ASSUME NEW s \in Seq(Int), NEW unit \in Int
  PROVE  /\ UnitByUnit(s) \in UnitStates /\ UnitByUnit(<<>>) = FirstUnitState
         /\ UnitByUnit(Append(s, unit)) = OneUnit(UnitByUnit(s), unit)
<1>1. UnitByUnit(s) \in UnitStates
  BY OneUnitsTyped, FirstTyped, Library!FoldTyped DEF UnitByUnit
<1>2. UnitByUnit(<<>>) = FirstUnitState
  BY Library!FoldEmpty DEF UnitByUnit
<1>3. UnitByUnit(Append(s, unit)) = OneUnits[<<UnitByUnit(s), unit>>]
  BY Library!FoldAppend DEF UnitByUnit
<1> QED
  BY <1>1, <1>2, <1>3, OneUnitsTyped

LEMMA SameMaximum == \A S : Library!Max(S) = Max(S)
BY DEF Library!Max, Max

\* The fold of the property is this fold.
LEMMA UnitsFold ==
  ASSUME NEW seq \in Seq(Int)
  PROVE  FoldLeft(OneUnit, FirstUnitState, seq) = UnitByUnit(seq)
<1> DEFINE n == Len(seq)
           Body(it) == [s \in SUBSET (1 .. n) |->
                          IF s = {} THEN FirstUnitState
                          ELSE OneUnit(it[s \ {Max(s)}], seq[Max(s)])]
           P(it) == it = Body(it)
           c == CHOOSE it : P(it)
<1>0. n \in Nat /\ DOMAIN seq = 1 .. n
  OBVIOUS
<1>1. FoldLeft(OneUnit, FirstUnitState, seq) = c[1 .. n]
  BY <1>0 DEF FoldLeft, MapThenFoldSet
<1>3. PICK d : /\ Library!Iterates(d, OneUnits, FirstUnitState, seq, n)
               /\ UnitByUnit(seq) = d[1 .. n]
  BY Library!FoldIterates DEF UnitByUnit
<1>4. Library!ValuesIn(d, UnitStates, n)
  BY <1>0, <1>3, OneUnitsTyped, FirstTyped, Library!IteratesTyped
<1>5. P(d)
  <2>1. ASSUME NEW s \in SUBSET (1 .. n), s # {} PROVE Max(s) \in s
    BY <1>0, <2>1, Library!MaxMember, SameMaximum
  <2>2. ASSUME NEW s \in SUBSET (1 .. n), s # {}
        PROVE  OneUnits[<<d[s \ {Max(s)}], seq[Max(s)]>>] = OneUnit(d[s \ {Max(s)}], seq[Max(s)])
    <3>1. Max(s) \in 1 .. n /\ s \ {Max(s)} \in SUBSET (1 .. n)
      BY <2>1, <2>2
    <3>2. d[s \ {Max(s)}] \in UnitStates /\ seq[Max(s)] \in Int
      BY <1>0, <1>4, <3>1 DEF Library!ValuesIn
    <3> QED
      BY OneUnitsTyped, <3>2
  <2>3. d = [s \in SUBSET (1 .. n) |->
               IF s = {} THEN FirstUnitState ELSE OneUnits[<<d[s \ {Max(s)}], seq[Max(s)]>>]]
    BY <1>3, SameMaximum DEF Library!Iterates
  <2> QED
    BY <2>2, <2>3
<1>6. P(c)
  <2> HIDE DEF P
  <2> QED
    BY <1>5, Zenon
<1> HIDE DEF c
<1>7. c[1 .. 0] = FirstUnitState
  BY <1>6
<1>8. \A k \in 1 .. n : c[1 .. k] = OneUnit(c[1 .. k - 1], seq[k])
  <2> SUFFICES ASSUME NEW k \in 1 .. n PROVE c[1 .. k] = OneUnit(c[1 .. k - 1], seq[k])
    OBVIOUS
  <2>1. k \in Nat /\ k > 0 /\ 1 .. k \in SUBSET (1 .. n)
    BY <1>0
  <2>2. Max(1 .. k) = k /\ (1 .. k) \ {Max(1 .. k)} = 1 .. k - 1 /\ 1 .. k # {}
    BY <2>1, Library!MaxInterval, SameMaximum
  <2>3. c[1 .. k] = OneUnit(c[(1 .. k) \ {Max(1 .. k)}], seq[Max(1 .. k)])
    BY <1>6, <2>1, <2>2
  <2> QED
    BY <2>2, <2>3
<1>9. Library!Steps(d, OneUnits, FirstUnitState, seq, n)
  BY <1>0, <1>3, Library!IteratesSteps
<1>10. \A k \in 1 .. n : c[1 .. k - 1] = d[1 .. k - 1] => c[1 .. k] = d[1 .. k]
  <2> SUFFICES ASSUME NEW k \in 1 .. n, c[1 .. k - 1] = d[1 .. k - 1] PROVE c[1 .. k] = d[1 .. k]
    OBVIOUS
  <2>1. d[1 .. k - 1] \in UnitStates /\ seq[k] \in Int
    BY <1>0, <1>4 DEF Library!ValuesIn
  <2>2. c[1 .. k] = OneUnit(d[1 .. k - 1], seq[k])
    BY <1>8
  <2>3. d[1 .. k] = OneUnits[<<d[1 .. k - 1], seq[k]>>]
    BY <1>9 DEF Library!Steps
  <2> QED
    BY OneUnitsTyped, <2>1, <2>2, <2>3
<1> QED
  BY <1>0, <1>1, <1>3, <1>7, <1>9, <1>10, Library!Agree DEF Library!Steps

-----------------------------------------------------------------------------
(* A code unit that is repeated.                                           *)

LEMMA Concats ==
  ASSUME NEW s \in Seq(Int), NEW t \in Seq(Int), NEW x \in Int
  PROVE  s \o Append(t, x) = Append(s \o t, x) /\ s \o t \in Seq(Int) /\ s \o <<>> = s
OBVIOUS

Longer(s, n, x) ==
  /\ s \o Times(n + 1, x) = Append(s \o Times(n, x), x)
  /\ s \o Times(0, x) = s /\ s \o Times(n, x) \in Seq(Int)

LEMMA TimesLonger ==
  ASSUME NEW s \in Seq(Int), NEW n \in Nat, NEW x \in Int
  PROVE  /\ s \o Times(n + 1, x) = Append(s \o Times(n, x), x)
         /\ s \o Times(0, x) = s /\ s \o Times(n, x) \in Seq(Int)
<1> DEFINE more == Times(n, x)
<1>1. more \in Seq(Int)
  BY TimesTyped
<1>2. Times(n + 1, x) = Append(more, x) /\ Times(0, x) = <<>>
  BY TimesFacts DEF TimesFact
<1> HIDE DEF more
<1>3. s \o Append(more, x) = Append(s \o more, x) /\ s \o more \in Seq(Int) /\ s \o <<>> = s
  BY <1>1, Concats
<1> QED
  BY <1>2, <1>3 DEF more

LEMMA TimesGrows ==
  ASSUME NEW s \in Seq(Int), NEW n \in Nat, NEW x \in Int PROVE Longer(s, n, x)
BY TimesLonger DEF Longer

\* Three sequences one after another.
Reassociates(s, t, u) == (s \o t) \o u = s \o (t \o u)

LEMMA Joined ==
  ASSUME NEW s \in Seq(Int), NEW t \in Seq(Int), NEW u \in Seq(Int) PROVE Reassociates(s, t, u)
BY SequenceFacts!ConcatAssociative DEF Reassociates

LEMMA TimesSplit ==
  ASSUME NEW s \in Seq(Int), NEW m \in Nat, NEW n \in Nat, NEW x \in Int
  PROVE  s \o Times(m + n, x) = (s \o Times(m, x)) \o Times(n, x)
<1>1. Times(m + n, x) = Times(m, x) \o Times(n, x)
  BY TimesSum
<1> DEFINE first == Times(m, x)
           rest == Times(n, x)
<1>2. first \in Seq(Int) /\ rest \in Seq(Int)
  BY TimesTyped
<1> HIDE DEF first, rest
<1>3. (s \o first) \o rest = s \o (first \o rest)
  BY <1>2, SequenceFacts!ConcatAssociative
<1> QED
  BY <1>1, <1>3 DEF first, rest

\* One more of it.
LEMMA OneMore ==
  ASSUME NEW s \in Seq(Int), NEW unit \in Int, NEW k \in Nat
  PROVE  /\ UnitByUnit(s \o Times(k + 1, unit)) = OneUnit(UnitByUnit(s \o Times(k, unit)), unit)
         /\ UnitByUnit(s \o Times(0, unit)) = UnitByUnit(s)
<1> DEFINE old == s \o Times(k, unit)
<1>1. /\ old \in Seq(Int) /\ s \o Times(k + 1, unit) = Append(old, unit)
      /\ s \o Times(0, unit) = s
  BY TimesLonger
<1> HIDE DEF old
<1>2. UnitByUnit(Append(old, unit)) = OneUnit(UnitByUnit(old), unit)
  BY <1>1, UnitsAppended
<1> QED
  BY <1>1, <1>2 DEF old

\* One unit, case by case.
LEMMA OneHigh ==
  ASSUME NEW unit \in HighSurrogates, NEW queue \in Seq(Int), NEW output \in Seq(Int)
  PROVE  OneUnit([queue |-> queue, output |-> output], unit) =
           IF queue = <<>> \/ unit = queue[1]
           THEN [queue |-> Append(queue, unit), output |-> output]
           ELSE [queue |-> <<unit>>, output |-> output \o Times(Len(queue), Unpaired)]
<1> DEFINE s == [queue |-> queue, output |-> output]
<1>0. /\ s.queue = queue /\ s.output = output
      /\ \A q : [s EXCEPT !.queue = q] = [queue |-> q, output |-> output]
      /\ \A o : [s EXCEPT !.output = o] = [queue |-> queue, output |-> o]
  OBVIOUS
<1> HIDE DEF s
<1>1. unit # 0 /\ unit \notin LowSurrogates
  BY SurrogatesTyped
<1>2. [i \in DOMAIN s.queue |-> Unpaired] = Times(Len(queue), Unpaired)
  BY <1>0 DEF Times
<1>3. OneUnit(s, unit) =
        IF queue = <<>> \/ unit = queue[1] THEN [queue |-> Append(queue, unit), output |-> output]
        ELSE [queue |-> <<unit>>, output |-> output \o Times(Len(queue), Unpaired)]
  <2>1. [s EXCEPT !.queue = Append(s.queue, unit)] = [queue |-> Append(queue, unit), output |-> output]
    BY <1>0
  <2>2. CASE queue = <<>> \/ unit = queue[1]
    BY <1>0, <1>1, <2>1, <2>2 DEF OneUnit
  <2>3. CASE ~(queue = <<>> \/ unit = queue[1])
    BY <1>0, <1>1, <1>2, <2>3 DEF OneUnit
  <2> QED
    BY <2>2, <2>3
<1> QED
  BY <1>3 DEF s

LEMMA OneLow ==
  ASSUME NEW unit \in LowSurrogates, NEW queue \in Seq(Int), NEW output \in Seq(Int)
  PROVE  OneUnit([queue |-> queue, output |-> output], unit) =
           IF queue = <<>> THEN [queue |-> <<>>, output |-> Append(output, Unpaired)]
           ELSE [queue |-> Tail(queue), output |-> Append(output, Pair(queue[1], unit))]
<1> DEFINE s == [queue |-> queue, output |-> output]
<1>0. /\ s.queue = queue /\ s.output = output
      /\ \A q : [s EXCEPT !.queue = q] = [queue |-> q, output |-> output]
      /\ \A o : [s EXCEPT !.output = o] = [queue |-> queue, output |-> o]
  OBVIOUS
<1> HIDE DEF s
<1>1. unit # 0 /\ unit \notin HighSurrogates
  BY SurrogatesTyped
<1>2. OneUnit(s, unit) =
        IF queue = <<>> THEN [queue |-> <<>>, output |-> Append(output, Unpaired)]
        ELSE [queue |-> Tail(queue), output |-> Append(output, Pair(queue[1], unit))]
  BY <1>0, <1>1 DEF OneUnit
<1> QED
  BY <1>2 DEF s

LEMMA OneOther ==
  ASSUME NEW unit \in Int, unit \notin HighSurrogates, unit \notin LowSurrogates,
         NEW queue \in Seq(Int), NEW output \in Seq(Int)
  PROVE  OneUnit([queue |-> queue, output |-> output], unit) =
           IF unit = 0 THEN [queue |-> <<>>, output |-> output]
           ELSE [queue |-> <<>>,
                 output |-> Append(output \o Times(Len(queue), Unpaired), unit)]
<1> DEFINE s == [queue |-> queue, output |-> output]
<1>0. /\ s.queue = queue /\ s.output = output
      /\ \A q : [s EXCEPT !.queue = q] = [queue |-> q, output |-> output]
      /\ \A o : [s EXCEPT !.output = o] = [queue |-> queue, output |-> o]
  OBVIOUS
<1> HIDE DEF s
<1>1. [i \in DOMAIN s.queue |-> Unpaired] = Times(Len(queue), Unpaired)
  BY <1>0 DEF Times
<1>2. OneUnit(s, unit) =
        IF unit = 0 THEN [queue |-> <<>>, output |-> output]
        ELSE [queue |-> <<>>, output |-> Append(output \o Times(Len(queue), Unpaired), unit)]
  BY <1>0, <1>1 DEF OneUnit
<1> QED
  BY <1>2 DEF s

Comes(s, queue, output) == UnitByUnit(s) = [queue |-> queue, output |-> output]

\* The code's state and what it has put out, against those units one by one.
Pendings ==
  {p \in [high : HighSurrogates \cup {0}, count : Nat] : p.high = 0 <=> p.count = 0}

Waiting(pending, output) == [queue |-> Times(pending.count, pending.high), output |-> output]

Agrees(s, pending, output) ==
  pending \in Pendings /\ output \in Seq(Int) /\ UnitByUnit(s) = Waiting(pending, output)

LEMMA AgreesTyped ==
  ASSUME NEW s, NEW pending, NEW output, Agrees(s, pending, output)
  PROVE  /\ pending.count \in Nat /\ pending.high \in Int /\ output \in Seq(Int)
         /\ pending = [high |-> pending.high, count |-> pending.count]
         /\ pending.high = 0 <=> pending.count = 0
         /\ pending.high \in HighSurrogates \cup {0}
<1>1. pending \in [high : HighSurrogates \cup {0}, count : Nat] /\ output \in Seq(Int)
      /\ (pending.high = 0 <=> pending.count = 0)
  BY DEF Agrees, Pendings
<1> QED
  BY <1>1, SurrogatesTyped

\* Each kind of unit, one by one, after pending ones: in closed form.
LEMMA MoreHighs ==
  ASSUME NEW s \in Seq(Int), NEW c \in Nat, NEW output \in Seq(Int),
         NEW unit \in HighSurrogates, NEW n \in Nat,
         Comes(s, Times(c, unit), output)
  PROVE  Comes(s \o Times(n, unit), Times(c + n, unit), output)
<1> USE DEF Comes
<1> DEFINE S == {k \in Nat : UnitByUnit(s \o Times(k, unit)) =
                               [queue |-> Times(c + k, unit), output |-> output]}
<1>0. unit \in Int
  BY SurrogatesTyped
<1>1. 0 \in S
  <2>1. UnitByUnit(s \o Times(0, unit)) = UnitByUnit(s) /\ c + 0 = c
    BY <1>0, OneMore
  <2> QED
    BY <2>1
<1>2. ASSUME NEW k \in Nat, k \in S PROVE k + 1 \in S
  <2> DEFINE m == c + k
             queue == Times(m, unit)
  <2>1. UnitByUnit(s \o Times(k + 1, unit)) = OneUnit([queue |-> queue, output |-> output], unit)
    BY <1>0, <1>2, OneMore
  <2>2. m \in Nat /\ c + (k + 1) = m + 1
    OBVIOUS
  <2> HIDE DEF m
  <2>3. queue \in Seq(Int) /\ (queue = <<>> \/ unit = queue[1])
        /\ Append(queue, unit) = Times(m + 1, unit)
    <3>1. queue \in Seq(Int) /\ TimesFact(m, unit)
      BY <1>0, <2>2, TimesTyped, TimesFacts
    <3> QED
      BY <2>2, <3>1 DEF TimesFact
  <2> HIDE DEF queue
  <2>4. OneUnit([queue |-> queue, output |-> output], unit)
          = [queue |-> Append(queue, unit), output |-> output]
    BY <2>3, OneHigh
  <2> QED
    BY <2>1, <2>2, <2>3, <2>4
<1> HIDE DEF S
<1>3. n \in S
  BY <1>1, <1>2, Library!Induction, Zenon
<1> QED
  BY <1>3 DEF S

LEMMA OtherHighs ==
  ASSUME NEW s \in Seq(Int), NEW c \in Nat, NEW high, NEW output \in Seq(Int),
         NEW unit \in HighSurrogates, NEW n \in Nat, n > 0, c > 0, high \in Int, high # unit,
         Comes(s, Times(c, high), output)
  PROVE  Comes(s \o Times(n, unit), Times(n, unit), output \o Times(c, Unpaired))
<1> DEFINE one == s \o Times(1, unit)
           lost == output \o Times(c, Unpaired)
           queue == Times(c, high)
<1>0. unit \in Int /\ Unpaired \in Int
  BY SurrogatesTyped
<1>1. queue \in Seq(Int) /\ Len(queue) = c /\ queue # <<>> /\ queue[1] = high
  <2>1. queue \in Seq(Int) /\ TimesFact(c, high)
    BY TimesTyped, TimesFacts
  <2> QED
    BY <2>1 DEF TimesFact
<1>2. UnitByUnit(s) = [queue |-> queue, output |-> output]
  BY DEF Comes
<1> HIDE DEF queue
<1>3. OneUnit(UnitByUnit(s), unit) = [queue |-> <<unit>>, output |-> lost]
  <2>1. OneUnit([queue |-> queue, output |-> output], unit) =
          [queue |-> <<unit>>, output |-> output \o Times(Len(queue), Unpaired)]
    BY <1>1, OneHigh
  <2> QED
    BY <1>1, <1>2, <2>1
<1>4. UnitByUnit(s \o Times(0 + 1, unit)) = OneUnit(UnitByUnit(s), unit)
  <2>1. UnitByUnit(s \o Times(0 + 1, unit)) = OneUnit(UnitByUnit(s \o Times(0, unit)), unit)
        /\ UnitByUnit(s \o Times(0, unit)) = UnitByUnit(s)
    BY <1>0, OneMore
  <2> QED
    BY <2>1
<1>5. <<unit>> = Times(1, unit) /\ 0 + 1 = 1
  BY DEF Times
<1>6. Comes(one, Times(1, unit), lost)
  BY <1>3, <1>4, <1>5 DEF Comes
<1>7. one \in Seq(Int) /\ lost \in Seq(Int)
  BY <1>0, TimesLonger
<1>8. s \o Times(n, unit) = one \o Times(n - 1, unit)
  <2> DEFINE m == n - 1
  <2>1. m \in Nat /\ n = 1 + m /\ 1 \in Nat
    OBVIOUS
  <2> HIDE DEF m
  <2>2. s \o Times(1 + m, unit) = (s \o Times(1, unit)) \o Times(m, unit)
    BY <1>0, <2>1, TimesSplit, Zenon
  <2> QED
    BY <2>1, <2>2 DEF m
<1> HIDE DEF one, lost
<1>9. Comes(one \o Times(n - 1, unit), Times(1 + (n - 1), unit), lost)
  <2>1. n - 1 \in Nat
    OBVIOUS
  <2> QED
    BY <1>6, <1>7, <2>1, MoreHighs
<1>10. 1 + (n - 1) = n
  OBVIOUS
<1> QED
  BY <1>8, <1>9, <1>10 DEF lost

\* Low surrogates for which high ones wait, and those for which none do.
LEMMA PairedLows ==
  ASSUME NEW s \in Seq(Int), NEW c \in Nat, NEW high \in Int, NEW output \in Seq(Int),
         NEW unit \in LowSurrogates, NEW n \in Nat, n <= c,
         Comes(s, Times(c, high), output)
  PROVE  Comes(s \o Times(n, unit), Times(c - n, high), output \o Times(n, Pair(high, unit)))
<1> USE DEF Comes
<1> DEFINE pair == Pair(high, unit)
           S == {k \in Nat : k <= c =>
                   UnitByUnit(s \o Times(k, unit)) =
                     [queue |-> Times(c - k, high), output |-> output \o Times(k, pair)]}
<1>0. unit \in Int /\ pair \in Int
  BY SurrogatesTyped
<1> HIDE DEF pair
<1>1. 0 \in S
  <2>1. UnitByUnit(s \o Times(0, unit)) = UnitByUnit(s) /\ c - 0 = c
    BY <1>0, OneMore
  <2>2. output \o Times(0, pair) = output
    BY <1>0, TimesLonger
  <2> QED
    BY <2>1, <2>2
<1>2. ASSUME NEW k \in Nat, k \in S PROVE k + 1 \in S
  <2> SUFFICES ASSUME k + 1 <= c
               PROVE  UnitByUnit(s \o Times(k + 1, unit)) =
                        [queue |-> Times(c - (k + 1), high), output |-> output \o Times(k + 1, pair)]
    OBVIOUS
  <2> DEFINE m == c - k
             queue == Times(m, high)
             old == output \o Times(k, pair)
  <2>0. m \in Nat /\ m > 0 /\ c - (k + 1) = m - 1
    OBVIOUS
  <2>1. UnitByUnit(s \o Times(k + 1, unit)) = OneUnit([queue |-> queue, output |-> old], unit)
    <3>1. UnitByUnit(s \o Times(k, unit)) = [queue |-> queue, output |-> old]
      BY <1>2
    <3> HIDE DEF queue, old
    <3> QED
      BY <1>0, <3>1, OneMore
  <2> HIDE DEF m
  <2>2. /\ queue \in Seq(Int) /\ queue # <<>> /\ queue[1] = high
        /\ Tail(queue) = Times(m - 1, high)
    <3>1. queue \in Seq(Int) /\ TimesFact(m, high)
      BY <2>0, TimesTyped, TimesFacts
    <3> QED
      BY <2>0, <3>1 DEF TimesFact
  <2>3. old \in Seq(Int) /\ Append(old, pair) = output \o Times(k + 1, pair)
    BY <1>0, TimesLonger
  <2> HIDE DEF queue, old
  <2>4. OneUnit([queue |-> queue, output |-> old], unit)
          = [queue |-> Tail(queue), output |-> Append(old, pair)]
    BY <2>2, <2>3, OneLow DEF pair
  <2> QED
    BY <2>0, <2>1, <2>2, <2>3, <2>4
<1> HIDE DEF S
<1>3. n \in S
  BY <1>1, <1>2, Library!Induction, Zenon
<1> QED
  BY <1>3 DEF S, pair

LEMMA LoneLows ==
  ASSUME NEW s \in Seq(Int), NEW output \in Seq(Int), NEW unit \in LowSurrogates, NEW n \in Nat,
         Comes(s, <<>>, output)
  PROVE  Comes(s \o Times(n, unit), <<>>, output \o Times(n, Unpaired))
<1> USE DEF Comes
<1> DEFINE S == {k \in Nat : UnitByUnit(s \o Times(k, unit)) =
                               [queue |-> <<>>, output |-> output \o Times(k, Unpaired)]}
<1>0. unit \in Int /\ Unpaired \in Int
  BY SurrogatesTyped
<1>1. 0 \in S
  <2>1. UnitByUnit(s \o Times(0, unit)) = UnitByUnit(s)
    BY <1>0, OneMore
  <2>2. output \o Times(0, Unpaired) = output
    BY <1>0, TimesLonger
  <2> QED
    BY <2>1, <2>2
<1>2. ASSUME NEW k \in Nat, k \in S PROVE k + 1 \in S
  <2> DEFINE old == output \o Times(k, Unpaired)
             empty == <<>>
  <2>1. UnitByUnit(s \o Times(k + 1, unit)) = OneUnit([queue |-> empty, output |-> old], unit)
    <3>1. UnitByUnit(s \o Times(k, unit)) = [queue |-> empty, output |-> old]
      BY <1>2
    <3> HIDE DEF empty, old
    <3> QED
      BY <1>0, <3>1, OneMore
  <2>2. old \in Seq(Int) /\ Append(old, Unpaired) = output \o Times(k + 1, Unpaired)
    BY <1>0, TimesLonger
  <2>3. empty \in Seq(Int)
    OBVIOUS
  <2> HIDE DEF old
  <2>4. OneUnit([queue |-> empty, output |-> old], unit)
          = [queue |-> <<>>, output |-> Append(old, Unpaired)]
    BY <2>2, <2>3, OneLow
  <2> QED
    BY <2>1, <2>2, <2>4
<1> HIDE DEF S
<1>3. n \in S
  BY <1>1, <1>2, Library!Induction, Zenon
<1> QED
  BY <1>3 DEF S

LEMMA OtherUnits ==
  ASSUME NEW s \in Seq(Int), NEW c \in Nat, NEW high \in Int, NEW output \in Seq(Int),
         NEW unit \in Nat, unit # 0, unit \notin HighSurrogates, unit \notin LowSurrogates,
         NEW n \in Nat, n > 0,
         Comes(s, Times(c, high), output)
  PROVE  Comes(s \o Times(n, unit), <<>>, (output \o Times(c, Unpaired)) \o Times(n, unit))
<1> USE DEF Comes
<1> DEFINE lost == output \o Times(c, Unpaired)
           S == {k \in Nat : k > 0 => UnitByUnit(s \o Times(k, unit)) =
                                        [queue |-> <<>>, output |-> lost \o Times(k, unit)]}
<1>0. unit \in Int /\ Unpaired \in Int /\ lost \in Seq(Int)
  BY SurrogatesTyped, TimesLonger
<1> HIDE DEF lost
<1>1. 0 \in S
  OBVIOUS
<1>2. ASSUME NEW k \in Nat, k \in S PROVE k + 1 \in S
  <2> SUFFICES UnitByUnit(s \o Times(k + 1, unit)) =
                 [queue |-> <<>>, output |-> lost \o Times(k + 1, unit)]
    OBVIOUS
  <2>1. CASE k = 0
    <3> DEFINE queue == Times(c, high)
    <3>1. queue \in Seq(Int) /\ Len(queue) = c
      BY TimesTyped, TimesFacts DEF TimesFact
    <3>2. UnitByUnit(s) = [queue |-> queue, output |-> output]
      OBVIOUS
    <3> HIDE DEF queue
    <3>3. OneUnit(UnitByUnit(s), unit) = [queue |-> <<>>, output |-> Append(lost, unit)]
      BY <1>0, <3>1, <3>2, OneOther DEF lost
    <3>4. UnitByUnit(s \o Times(k + 1, unit)) = OneUnit(UnitByUnit(s), unit)
      <4>1. /\ UnitByUnit(s \o Times(k + 1, unit)) = OneUnit(UnitByUnit(s \o Times(k, unit)), unit)
            /\ UnitByUnit(s \o Times(0, unit)) = UnitByUnit(s)
        BY <1>0, OneMore
      <4> QED
        BY <2>1, <4>1
    <3>5. lost \o Times(k + 1, unit) = Append(lost, unit)
      <4>1. /\ lost \o Times(k + 1, unit) = Append(lost \o Times(k, unit), unit)
            /\ lost \o Times(0, unit) = lost
        <5>1. Longer(lost, k, unit)
          BY <1>0, TimesGrows
        <5> QED
          BY <5>1 DEF Longer
      <4> QED
        BY <2>1, <4>1
    <3> QED
      BY <3>3, <3>4, <3>5
  <2>2. CASE k > 0
    <3> DEFINE old == lost \o Times(k, unit)
               empty == <<>>
    <3>1. UnitByUnit(s \o Times(k + 1, unit)) = OneUnit([queue |-> empty, output |-> old], unit)
      <4>1. UnitByUnit(s \o Times(k, unit)) = [queue |-> empty, output |-> old]
        BY <1>2, <2>2
      <4> HIDE DEF empty, old
      <4> QED
        BY <1>0, <4>1, OneMore
    <3>2. old \in Seq(Int) /\ Append(old, unit) = lost \o Times(k + 1, unit)
      <4>1. Longer(lost, k, unit)
        BY <1>0, TimesGrows
      <4> QED
        BY <4>1 DEF Longer
    <3>3. empty \in Seq(Int) /\ Times(Len(empty), Unpaired) = <<>>
      BY DEF Times
    <3> HIDE DEF old
    <3>4. old \o <<>> = old
      BY <3>2
    <3>5. OneUnit([queue |-> empty, output |-> old], unit)
            = [queue |-> <<>>, output |-> Append(old \o Times(Len(empty), Unpaired), unit)]
      BY <1>0, <3>2, <3>3, OneOther
    <3> QED
      BY <3>1, <3>2, <3>3, <3>4, <3>5
  <2> QED
    BY <2>1, <2>2
<1> HIDE DEF S
<1>3. n \in S
  BY <1>1, <1>2, Library!Induction, Zenon
<1> QED
  BY <1>3 DEF S, lost

-----------------------------------------------------------------------------
(* decodeRepeatedUtf16() agrees with its repeats, one by one.              *)

LEMMA AgreesMade ==
  ASSUME NEW s, NEW count \in Nat, NEW high \in HighSurrogates \cup {0}, high = 0 <=> count = 0,
         NEW output \in Seq(Int), Comes(s, Times(count, high), output)
  PROVE  Agrees(s, [high |-> high, count |-> count], output)
BY DEF Agrees, Pendings, Waiting, Comes

LEMMA NothingWaits ==
  ASSUME NEW s, NEW output \in Seq(Int), Comes(s, <<>>, output)
  PROVE  Agrees(s, NothingPending, output)
<1>1. Times(0, 0) = <<>>
  BY DEF Times
<1> QED
  BY <1>1, AgreesMade DEF NothingPending

LEMMA Modulo ==
  ASSUME NEW n \in Nat, n <= MaxCount PROVE n % (MaxCount + 1) = n
BY CountAssumption

LEMMA RepeatedHighs ==
  ASSUME NEW s \in Seq(Int), NEW pending, NEW output, Agrees(s, pending, output),
         NEW unit \in HighSurrogates, NEW n \in Nat, n > 0,
         Len(UnitByUnit(s \o Times(n, unit)).queue) <= MaxCount
  PROVE  LET d == AfterHigh(pending, unit, n)
         IN Agrees(s \o Times(n, unit), d.pending, output \o d.output)
<1> DEFINE c == pending.count
           high == pending.high
           all == s \o Times(n, unit)
<1>1. /\ c \in Nat /\ high \in Int /\ output \in Seq(Int) /\ (high = 0 <=> c = 0)
      /\ unit \in Int /\ unit # 0 /\ Unpaired \in Int
      /\ pending = [high |-> high, count |-> c]
      /\ Comes(s, Times(c, high), output)
  BY AgreesTyped, SurrogatesTyped DEF Agrees, Waiting, Comes
<1> HIDE DEF c, high
<1>2. CASE high \in {0, unit}
  <2>1. Times(c, high) = Times(c, unit)
    <3>1. Times(0, high) = <<>> /\ Times(0, unit) = <<>>
      BY DEF Times
    <3> QED
      BY <1>1, <1>2, <3>1
  <2>2. Comes(all, Times(c + n, unit), output)
    BY <1>1, <2>1, MoreHighs
  <2> DEFINE m == c + n
  <2>3. m \in Nat /\ m # 0
    BY <1>1
  <2> HIDE DEF m
  <2>4. Len(Times(m, unit)) = m
    BY <2>3, TimesFacts DEF TimesFact
  <2>5. m <= MaxCount
    BY <2>2, <2>4 DEF Comes, m
  <2>6. m % (MaxCount + 1) = m
    BY <2>3, <2>5, Modulo
  <2>7. Agrees(all, [high |-> unit, count |-> m], output)
    <3> HIDE DEF all
    <3>1. Comes(all, Times(m, unit), output)
      BY <2>2 DEF m
    <3> QED
      BY <1>1, <2>3, <3>1, AgreesMade
  <2>8. AfterHigh(pending, unit, n)
          = [pending |-> [high |-> unit, count |-> m], output |-> <<>>]
    <3>1. (IF pending.high \in {0, unit} THEN pending.count ELSE 0) + n = m
      BY <1>2 DEF m, c, high
    <3> QED
      BY <1>2, <2>6, <3>1 DEF AfterHigh, Decoding, high
  <2>9. output \o <<>> = output
    BY <1>1
  <2> QED
    BY <2>7, <2>8, <2>9
<1>3. CASE high \notin {0, unit}
  <2> DEFINE lost == output \o Times(c, Unpaired)
  <2>1. c > 0 /\ high # unit
    BY <1>1, <1>3
  <2>2. Comes(all, Times(n, unit), lost)
    BY <1>1, <2>1, OtherHighs
  <2>3. lost \in Seq(Int)
    BY <1>1, TimesLonger
  <2> HIDE DEF lost
  <2>4. Len(Times(n, unit)) = n
    BY TimesFacts DEF TimesFact
  <2>5. n <= MaxCount
    BY <2>2, <2>4 DEF Comes
  <2>6. n % (MaxCount + 1) = n
    BY <2>5, Modulo
  <2>7. Agrees(all, [high |-> unit, count |-> n], lost)
    <3> HIDE DEF all
    <3> QED
      BY <1>1, <2>2, <2>3, AgreesMade
  <2>8. AfterHigh(pending, unit, n)
          = [pending |-> [high |-> unit, count |-> n], output |-> Times(c, Unpaired)]
    <3>1. (IF pending.high \in {0, unit} THEN pending.count ELSE 0) + n = n
      BY <1>3 DEF high
    <3> QED
      BY <1>3, <2>6, <3>1 DEF AfterHigh, Decoding, Flushed, c, high
  <2> QED
    BY <2>7, <2>8 DEF lost
<1> QED
  BY <1>2, <1>3

LEMMA RepeatedLows ==
  ASSUME NEW s \in Seq(Int), NEW pending, NEW output, Agrees(s, pending, output),
         NEW unit \in LowSurrogates, NEW n \in Nat, n > 0
  PROVE  LET d == AfterLow(pending, unit, n)
         IN Agrees(s \o Times(n, unit), d.pending, output \o d.output)
<1> DEFINE c == pending.count
           high == pending.high
           pair == Pair(high, unit)
           all == s \o Times(n, unit)
<1>1. /\ c \in Nat /\ high \in Int /\ output \in Seq(Int) /\ (high = 0 <=> c = 0)
      /\ high \in HighSurrogates \cup {0} /\ pending = [high |-> high, count |-> c]
      /\ unit \in Int /\ Unpaired \in Int /\ pair \in Int
      /\ Comes(s, Times(c, high), output)
  BY AgreesTyped, SurrogatesTyped DEF Agrees, Waiting, Comes
<1> HIDE DEF c, high
<1>2. CASE n <= c
  <2> DEFINE paired == output \o Times(n, pair)
  <2>1. Comes(all, Times(c - n, high), paired)
    BY <1>1, <1>2, PairedLows, Zenon
  <2>2. paired \in Seq(Int) /\ Times(n, pair) \in Seq(Int)
    BY <1>1, TimesLonger, TimesTyped
  <2>3. Times(n, pair) \o Times(n - n, Unpaired) = Times(n, pair)
    <3>1. n - n = 0 /\ Times(0, Unpaired) = <<>>
      BY DEF Times
    <3> DEFINE pairs == Times(n, pair)
    <3> HIDE DEF pairs
    <3>2. pairs \o <<>> = pairs
      BY <2>2 DEF pairs
    <3> QED
      BY <3>1, <3>2 DEF pairs
  <2> DEFINE pairs == IF pending.count < n THEN pending.count ELSE n
  <2>4. pairs = n /\ pending.count - pairs = c - n
    BY <1>1, <1>2 DEF c
  <2>40. AfterLow(pending, unit, n) =
           [pending |-> IF n > 0 /\ c - n = 0 THEN NothingPending
                        ELSE [pending EXCEPT !.count = c - n],
            output |-> Times(n, pair) \o Times(n - n, Unpaired)]
    <3>1. AfterLow(pending, unit, n) =
           [pending |-> IF pairs > 0 /\ pending.count - pairs = 0 THEN NothingPending
                        ELSE [pending EXCEPT !.count = pending.count - pairs],
            output |-> Times(pairs, pair) \o Times(n - pairs, Unpaired)]
      BY DEF AfterLow, Decoding, high
    <3> HIDE DEF pairs, pair
    <3> QED
      BY <2>4, <3>1
  <2>5. CASE n = c
    <3>1. Times(c - n, high) = <<>>
      BY <1>1, <2>5 DEF Times
    <3>2. Agrees(all, NothingPending, paired)
      BY <2>1, <2>2, <3>1, NothingWaits
    <3>3. AfterLow(pending, unit, n) = [pending |-> NothingPending, output |-> Times(n, pair)]
      <4>1. n > 0 /\ c - n = 0
        BY <1>1, <2>5
      <4> QED
        BY <2>3, <2>40, <4>1
    <3> QED
      BY <3>2, <3>3
  <2>6. CASE n # c
    <3>1. c - n \in Nat /\ c - n # 0 /\ c # 0
      BY <1>1, <1>2, <2>6
    <3> DEFINE left == c - n
    <3>2. Agrees(all, [high |-> high, count |-> left], paired)
      <4> HIDE DEF left, paired
      <4> QED
        BY <1>1, <2>1, <2>2, <3>1, AgreesMade DEF left
    <3>3. [pending EXCEPT !.count = left] = [high |-> high, count |-> left]
      BY <1>1
    <3>4. AfterLow(pending, unit, n)
            = [pending |-> [high |-> high, count |-> left], output |-> Times(n, pair)]
      BY <2>3, <2>40, <3>1, <3>3
    <3> QED
      BY <3>2, <3>4
  <2> QED
    BY <2>5, <2>6
<1>3. CASE c < n
  <2> DEFINE paired == output \o Times(c, pair)
             first == s \o Times(c, unit)
             m == n - c
  <2>0. m \in Nat /\ n = c + m /\ m > 0
    BY <1>1, <1>3
  <2>1. paired \in Seq(Int) /\ first \in Seq(Int)
    BY <1>1, TimesLonger
  <2>2. Comes(first, <<>>, paired)
    <3>1. Comes(first, Times(c - c, high), paired)
      <4>1. c <= c
        BY <1>1
      <4> QED
        BY <1>1, <4>1, PairedLows, Zenon
    <3>2. Times(c - c, high) = <<>>
      BY <1>1 DEF Times
    <3> QED
      BY <3>1, <3>2
  <2> HIDE DEF m
  <2>3. all = first \o Times(m, unit)
    <3>1. s \o Times(c + m, unit) = first \o Times(m, unit)
      BY <1>1, <2>0, TimesSplit, Zenon
    <3> QED
      BY <2>0, <3>1
  <2> DEFINE alone == paired \o Times(m, Unpaired)
  <2>4. Comes(all, <<>>, alone)
    <3> HIDE DEF paired, first, all
    <3> QED
      BY <2>0, <2>1, <2>2, <2>3, LoneLows
  <2>5. alone \in Seq(Int)
    <3> HIDE DEF paired
    <3> QED
      BY <1>1, <2>0, <2>1, TimesLonger
  <2>6. Agrees(all, NothingPending, alone)
    <3> HIDE DEF alone, all
    <3> QED
      BY <2>4, <2>5, NothingWaits
  <2>7. alone = output \o (Times(c, pair) \o Times(m, Unpaired))
    <3>1. Times(c, pair) \in Seq(Int) /\ Times(m, Unpaired) \in Seq(Int)
      BY <1>1, <2>0, TimesTyped
    <3>2. Reassociates(output, Times(c, pair), Times(m, Unpaired))
      BY <1>1, <3>1, Joined
    <3> QED
      BY <3>2 DEF Reassociates
  <2>8. AfterLow(pending, unit, n).output = Times(c, pair) \o Times(m, Unpaired)
    BY <1>3 DEF AfterLow, Decoding, m, c, high
  <2>9. AfterLow(pending, unit, n).pending = NothingPending
    <3>1. (IF c < n THEN c ELSE n) = c /\ c - c = 0
      BY <1>1, <1>3
    <3>2. c = 0 => [pending EXCEPT !.count = 0] = NothingPending
      BY <1>1 DEF NothingPending
    <3> QED
      BY <1>1, <1>3, <3>1, <3>2 DEF AfterLow, Decoding, c
  <2> QED
    BY <2>6, <2>7, <2>8, <2>9
<1> QED
  BY <1>1, <1>2, <1>3

LEMMA RepeatedOthers ==
  ASSUME NEW s \in Seq(Int), NEW pending, NEW output, Agrees(s, pending, output),
         NEW unit \in Nat, unit # 0, unit \notin HighSurrogates, unit \notin LowSurrogates,
         NEW n \in Nat, n > 0
  PROVE  Agrees(s \o Times(n, unit), NothingPending,
                output \o (Flushed(pending) \o Times(n, unit)))
<1> DEFINE c == pending.count
           high == pending.high
           lost == output \o Times(c, Unpaired)
           all == s \o Times(n, unit)
<1>1. /\ c \in Nat /\ high \in Int /\ output \in Seq(Int) /\ unit \in Int /\ Unpaired \in Int
      /\ Comes(s, Times(c, high), output)
  BY AgreesTyped, SurrogatesTyped DEF Agrees, Waiting, Comes
<1> HIDE DEF c, high
<1>2. Comes(all, <<>>, lost \o Times(n, unit))
  BY <1>1, OtherUnits
<1>3. /\ Times(c, Unpaired) \in Seq(Int) /\ Times(n, unit) \in Seq(Int) /\ lost \in Seq(Int)
      /\ lost \o Times(n, unit) \in Seq(Int)
  <2>1. Times(c, Unpaired) \in Seq(Int) /\ Times(n, unit) \in Seq(Int) /\ lost \in Seq(Int)
    BY <1>1, TimesTyped, TimesLonger
  <2> HIDE DEF lost
  <2> QED
    BY <1>1, <2>1, TimesLonger
<1>4. lost \o Times(n, unit) = output \o (Times(c, Unpaired) \o Times(n, unit))
  <2>1. Reassociates(output, Times(c, Unpaired), Times(n, unit))
    BY <1>1, <1>3, Joined
  <2> QED
    BY <2>1 DEF Reassociates
<1> HIDE DEF lost, all
<1>5. Agrees(all, NothingPending, lost \o Times(n, unit))
  BY <1>2, <1>3, NothingWaits
<1> QED
  BY <1>4, <1>5 DEF Flushed, all, c

LEMMA Repeats ==
  ASSUME NEW s \in Seq(Int), NEW pending, NEW output, Agrees(s, pending, output),
         NEW unit \in Nat, unit # 0, NEW n \in Nat,
         Len(UnitByUnit(s \o Times(n, unit)).queue) <= MaxCount
  PROVE  LET d == DecodeRepeated(pending, unit, n)
         IN Agrees(s \o Times(n, unit), d.pending, output \o d.output)
<1> DEFINE d == DecodeRepeated(pending, unit, n)
<1>1. CASE n = 0
  <2>1. d = [pending |-> pending, output |-> <<>>]
    BY <1>1 DEF DecodeRepeated, Decoding
  <2>2. output \o <<>> = output /\ s \o Times(n, unit) = s
    <3>1. output \in Seq(Int)
      BY DEF Agrees
    <3>2. Times(0, unit) = <<>> /\ s \o <<>> = s
      BY DEF Times
    <3> QED
      BY <1>1, <3>1, <3>2
  <2> QED
    BY <2>1, <2>2
<1>2. CASE n > 0 /\ unit \in HighSurrogates
  <2>1. d = AfterHigh(pending, unit, n)
    BY <1>2, SurrogatesTyped DEF DecodeRepeated
  <2> QED
    BY <1>2, <2>1, RepeatedHighs
<1>3. CASE n > 0 /\ unit \in LowSurrogates
  <2>1. d = AfterLow(pending, unit, n)
    BY <1>3, SurrogatesTyped DEF DecodeRepeated
  <2> QED
    BY <1>3, <2>1, RepeatedLows
<1>4. CASE n > 0 /\ unit \notin HighSurrogates /\ unit \notin LowSurrogates
  <2>1. d = [pending |-> NothingPending, output |-> Flushed(pending) \o Times(n, unit)]
    BY <1>4 DEF DecodeRepeated, Decoding
  <2> QED
    BY <1>4, <2>1, RepeatedOthers
<1> QED
  BY <1>1, <1>2, <1>3, <1>4

\* A lost focus.
LEMMA FocusEmpties ==
  ASSUME NEW s \in Seq(Int), NEW pending, NEW output, Agrees(s, pending, output)
  PROVE  Agrees(s \o <<0>>, NothingPending, output)
<1> DEFINE queue == Times(pending.count, pending.high)
<1>1. /\ output \in Seq(Int) /\ queue \in Seq(Int)
      /\ UnitByUnit(s) = [queue |-> queue, output |-> output]
  BY AgreesTyped, TimesTyped DEF Agrees, Waiting
<1> HIDE DEF queue
<1>2. 0 \in Int /\ 0 \notin HighSurrogates /\ 0 \notin LowSurrogates
  BY DEF HighSurrogates, LowSurrogates
<1>3. OneUnit([queue |-> queue, output |-> output], 0) = [queue |-> <<>>, output |-> output]
  BY <1>1, <1>2, OneOther
<1>4. s \o <<0>> = Append(s, 0)
  OBVIOUS
<1>5. Comes(Append(s, 0), <<>>, output)
  BY <1>1, <1>2, <1>3, UnitsAppended DEF Comes
<1> QED
  BY <1>1, <1>4, <1>5, NothingWaits
-----------------------------------------------------------------------------
(* Waiting halves are no more than the high surrogates entered.            *)

HighPlaces(s) == {i \in DOMAIN s : s[i] \in HighSurrogates}
Highs(s) == Cardinality(HighPlaces(s))

LEMMA HighPlacesFinite ==
  ASSUME NEW s \in Seq(Int)
  PROVE  IsFiniteSet(HighPlaces(s)) /\ Highs(s) \in Nat
<1>1. HighPlaces(s) \subseteq 1 .. Len(s) /\ Len(s) \in Nat
  BY DEF HighPlaces
<1>2. IsFiniteSet(1 .. Len(s))
  BY <1>1, FS_Interval
<1>3. IsFiniteSet(HighPlaces(s))
  BY <1>1, <1>2, FS_Subset
<1> QED
  BY <1>3, FS_CardinalityType DEF Highs

LEMMA HighsMore ==
  ASSUME NEW s \in Seq(Int), NEW t \in Seq(Int)
  PROVE  Highs(s) <= Highs(s \o t)
<1>1. s \o t \in Seq(Int) /\ HighPlaces(s) \subseteq HighPlaces(s \o t)
  BY DEF HighPlaces
<1> QED
  BY <1>1, HighPlacesFinite, FS_Subset DEF Highs

LEMMA HighsOne ==
  ASSUME NEW s \in Seq(Int), NEW unit \in HighSurrogates
  PROVE  Highs(Append(s, unit)) = Highs(s) + 1
<1> DEFINE n == Len(s) + 1
<1>1. unit \in Int /\ n \notin HighPlaces(s)
  BY SurrogatesTyped DEF HighPlaces
<1>2. HighPlaces(Append(s, unit)) = HighPlaces(s) \cup {n}
  <2>1. DOMAIN Append(s, unit) = DOMAIN s \cup {n} /\ Append(s, unit)[n] = unit
        /\ \A i \in DOMAIN s : Append(s, unit)[i] = s[i]
    BY <1>1
  <2> QED
    BY <2>1 DEF HighPlaces
<1> HIDE DEF n
<1>3. Cardinality(HighPlaces(s) \cup {n}) = Cardinality(HighPlaces(s)) + 1
  BY <1>1, HighPlacesFinite, FS_AddElement
<1> QED
  BY <1>2, <1>3 DEF Highs

LEMMA QueueGrows ==
  ASSUME NEW s \in UnitStates, NEW unit \in Int
  PROVE  Len(OneUnit(s, unit).queue) <= Len(s.queue) + (IF unit \in HighSurrogates THEN 1 ELSE 0)
<1> DEFINE queue == s.queue
           output == s.output
<1>1. /\ s = [queue |-> queue, output |-> output] /\ queue \in Seq(Int) /\ output \in Seq(Int)
      /\ Len(queue) \in Nat
  BY DEF UnitStates
<1> HIDE DEF queue, output
<1>2. Len(<<>>) = 0 /\ Len(<<unit>>) = 1 /\ Len(Append(queue, unit)) = Len(queue) + 1
      /\ (queue # <<>> => Len(Tail(queue)) = Len(queue) - 1)
  BY <1>1
<1>3. CASE unit \in HighSurrogates
  <2>1. OneUnit(s, unit).queue = IF queue = <<>> \/ unit = queue[1] THEN Append(queue, unit) ELSE <<unit>>
    <3>1. OneUnit([queue |-> queue, output |-> output], unit) =
            IF queue = <<>> \/ unit = queue[1]
            THEN [queue |-> Append(queue, unit), output |-> output]
            ELSE [queue |-> <<unit>>, output |-> output \o Times(Len(queue), Unpaired)]
      BY <1>1, <1>3, OneHigh
    <3> DEFINE one == OneUnit([queue |-> queue, output |-> output], unit)
    <3>2. OneUnit(s, unit) = one
      BY <1>1
    <3>3. /\ queue = <<>> \/ unit = queue[1] => one.queue = Append(queue, unit)
          /\ ~(queue = <<>> \/ unit = queue[1]) => one.queue = <<unit>>
      <4> HIDE DEF one
      <4>1. /\ queue = <<>> \/ unit = queue[1] =>
                  one = [queue |-> Append(queue, unit), output |-> output]
            /\ ~(queue = <<>> \/ unit = queue[1]) =>
                  one = [queue |-> <<unit>>, output |-> output \o Times(Len(queue), Unpaired)]
        BY <3>1, Zenon DEF one
      <4> QED
        BY <4>1
    <3> QED
      BY <3>2, <3>3
  <2> QED
    BY <1>1, <1>2, <1>3, <2>1 DEF queue
<1>4. CASE unit \in LowSurrogates
  <2>1. OneUnit(s, unit).queue = IF queue = <<>> THEN <<>> ELSE Tail(queue)
    <3>1. OneUnit([queue |-> queue, output |-> output], unit) =
            IF queue = <<>> THEN [queue |-> <<>>, output |-> Append(output, Unpaired)]
            ELSE [queue |-> Tail(queue), output |-> Append(output, Pair(queue[1], unit))]
      BY <1>1, <1>4, OneLow
    <3> DEFINE one == OneUnit([queue |-> queue, output |-> output], unit)
    <3>2. OneUnit(s, unit) = one
      BY <1>1
    <3>3. /\ queue = <<>> => one.queue = <<>>
          /\ queue # <<>> => one.queue = Tail(queue)
      <4> HIDE DEF one
      <4>1. /\ queue = <<>> => one = [queue |-> <<>>, output |-> Append(output, Unpaired)]
            /\ queue # <<>> =>
                  one = [queue |-> Tail(queue), output |-> Append(output, Pair(queue[1], unit))]
        BY <3>1, Zenon DEF one
      <4> QED
        BY <4>1
    <3> QED
      BY <3>2, <3>3
  <2>2. unit \notin HighSurrogates
    BY <1>4, SurrogatesTyped
  <2> QED
    BY <1>1, <1>2, <2>1, <2>2 DEF queue
<1>5. CASE unit \notin HighSurrogates /\ unit \notin LowSurrogates
  <2>1. OneUnit(s, unit).queue = <<>>
    <3>1. OneUnit([queue |-> queue, output |-> output], unit) =
            IF unit = 0 THEN [queue |-> <<>>, output |-> output]
            ELSE [queue |-> <<>>,
                  output |-> Append(output \o Times(Len(queue), Unpaired), unit)]
      BY <1>1, <1>5, OneOther
    <3> QED
      BY <1>1, <3>1
  <2> QED
    BY <1>1, <1>2, <1>5, <2>1 DEF queue
<1> QED
  BY <1>3, <1>4, <1>5

LEMMA QueueShort ==
  ASSUME NEW s \in Seq(Int) PROVE Len(UnitByUnit(s).queue) <= Highs(s)
<1> DEFINE Short(t) == Len(UnitByUnit(t).queue) <= Highs(t)
           S == {n \in Nat : \A t \in Seq(Int) : Len(t) = n => Short(t)}
<1>1. 0 \in S
  <2> SUFFICES ASSUME NEW t \in Seq(Int), Len(t) = 0 PROVE Short(t)
    OBVIOUS
  <2>1. t = <<>>
    OBVIOUS
  <2>2. UnitByUnit(<<>>).queue = <<>> /\ Len(<<>>) = 0
    BY UnitsAppended DEF FirstUnitState
  <2>3. Highs(t) \in Nat
    BY HighPlacesFinite
  <2>4. Len(UnitByUnit(t).queue) = 0
    BY <2>1, <2>2
  <2> QED
    BY <2>3, <2>4
<1>2. ASSUME NEW n \in Nat, n \in S PROVE n + 1 \in S
  <2> SUFFICES ASSUME NEW t \in Seq(Int), Len(t) = n + 1 PROVE Short(t)
    OBVIOUS
  <2> DEFINE front == [i \in 1 .. n |-> t[i]]
             unit == t[n + 1]
  <2>1. front \in Seq(Int) /\ Len(front) = n /\ unit \in Int /\ t = Append(front, unit)
    OBVIOUS
  <2>2. Short(front)
    BY <1>2, <2>1
  <2> HIDE DEF front, unit
  <2>3. UnitByUnit(t) = OneUnit(UnitByUnit(front), unit) /\ UnitByUnit(front) \in UnitStates
    BY <2>1, UnitsAppended
  <2>4. Len(UnitByUnit(t).queue)
          <= Len(UnitByUnit(front).queue) + (IF unit \in HighSurrogates THEN 1 ELSE 0)
    BY <2>1, <2>3, QueueGrows
  <2>5. Highs(front) + (IF unit \in HighSurrogates THEN 1 ELSE 0) <= Highs(t)
    <3>1. unit \in HighSurrogates => Highs(t) = Highs(front) + 1
      BY <2>1, HighsOne
    <3>2. t = front \o <<unit>> /\ <<unit>> \in Seq(Int)
      BY <2>1
    <3>3. Highs(front) <= Highs(t)
      BY <2>1, <3>2, HighsMore
    <3>4. Highs(front) \in Nat /\ Highs(t) \in Nat
      BY <2>1, HighPlacesFinite
    <3> QED
      BY <3>1, <3>3, <3>4
  <2>6. /\ Len(UnitByUnit(front).queue) \in Nat /\ Len(UnitByUnit(t).queue) \in Nat
        /\ Highs(front) \in Nat /\ Highs(t) \in Nat
    <3>1. UnitByUnit(t) \in UnitStates
      BY UnitsAppended
    <3>2. \A state \in UnitStates : Len(state.queue) \in Nat
      BY DEF UnitStates
    <3> QED
      BY <2>1, <2>3, <3>1, <3>2, HighPlacesFinite, Zenon
  <2> DEFINE old == Len(UnitByUnit(front).queue)
             new == Len(UnitByUnit(t).queue)
             more == IF unit \in HighSurrogates THEN 1 ELSE 0
             few == Highs(front)
             many == Highs(t)
  <2>7. old <= few /\ new <= old + more /\ few + more <= many /\ more \in Nat
    BY <2>2, <2>4, <2>5
  <2>8. old \in Nat /\ new \in Nat /\ few \in Nat /\ many \in Nat
    BY <2>6
  <2>9. new <= many
    <3> HIDE DEF old, new, more, few, many
    <3> QED
      BY <2>7, <2>8
  <2> QED
    BY <2>9
<1> HIDE DEF S
<1>3. Len(s) \in S
  BY <1>1, <1>2, Library!Induction
<1> QED
  BY <1>3 DEF S
-----------------------------------------------------------------------------
(* The code units of the records.                                          *)

\* The code units that a record stands for, zero for a lost focus.
Units(focus, r) ==
  IF r.type = "key"
  THEN IF r.down /\ r.unit # 0 THEN Times(r.repeats, r.unit) ELSE <<>>
  ELSE IF focus /\ ~r.set THEN <<0>> ELSE <<>>

\* All that was entered, up to each of the records q that have not been read.
UpTo(focus, pre, q, all) ==
  /\ pre \in [0 .. Len(q) -> Seq(Int)] /\ pre[Len(q)] = all
  /\ \A i \in 1 .. Len(q) : pre[i] = pre[i - 1] \o Units(focus, q[i])
  /\ \A i \in 0 .. Len(q) : Highs(pre[i]) <= Highs(all)

TextInv ==
  /\ typed \in Seq(Int)
  /\ \E pre : /\ UpTo(enableFocusEvents, pre, records, typed)
              /\ FewHalves => Agrees(pre[0], utf16State, decoded)

LEMMA UnitsTyped ==
  ASSUME NEW focus, NEW r \in Records PROVE Units(focus, r) \in Seq(Int)
<1>1. <<>> \in Seq(Int) /\ <<0>> \in Seq(Int)
  OBVIOUS
<1>2. CASE r.type = "key"
  <2>1. r.unit \in Int /\ r.repeats \in Nat
    BY <1>2 DEF Records, KeyRecords
  <2> QED
    BY <1>1, <1>2, <2>1, TimesTyped DEF Units
<1>3. CASE r.type # "key"
  BY <1>1, <1>3 DEF Units
<1> QED
  BY <1>2, <1>3

\* Another record, one that is joined with the last one, and the first one read.
UpToFrom(focus, start, q, all) == \E new : UpTo(focus, new, q, all) /\ new[0] = start

LEMMA UpToAppended ==
  ASSUME NEW focus, NEW pre, NEW q \in Seq(Records), NEW all \in Seq(Int), NEW r \in Records,
         UpTo(focus, pre, q, all)
  PROVE  UpToFrom(focus, pre[0], Append(q, r), all \o Units(focus, r))
<1> DEFINE n == Len(q)
           more == all \o Units(focus, r)
           longer == Append(q, r)
           new == [i \in 0 .. n + 1 |-> IF i <= n THEN pre[i] ELSE more]
<1>1. /\ n \in Nat /\ Len(longer) = n + 1 /\ longer[n + 1] = r
      /\ \A i \in 1 .. n : longer[i] = q[i]
  OBVIOUS
<1>2. more \in Seq(Int) /\ Highs(all) <= Highs(more)
  BY UnitsTyped, HighsMore
<1>3. /\ pre \in [0 .. n -> Seq(Int)] /\ pre[n] = all
      /\ \A i \in 1 .. n : pre[i] = pre[i - 1] \o Units(focus, q[i])
      /\ \A i \in 0 .. n : Highs(pre[i]) <= Highs(all)
  BY DEF UpTo
<1> HIDE DEF longer, n, more
<1>4. /\ new \in [0 .. n + 1 -> Seq(Int)] /\ new[n + 1] = more /\ new[0] = pre[0]
      /\ \A i \in 0 .. n : new[i] = pre[i]
  BY <1>1, <1>2, <1>3
<1> HIDE DEF new
<1>5. \A i \in 1 .. n + 1 : new[i] = new[i - 1] \o Units(focus, longer[i])
  <2> SUFFICES ASSUME NEW i \in 1 .. n + 1
               PROVE  new[i] = new[i - 1] \o Units(focus, longer[i])
    OBVIOUS
  <2>1. CASE i = n + 1
    <3>1. n \in 0 .. n /\ i - 1 = n
      BY <1>1, <2>1
    <3> QED
      BY <1>1, <1>3, <1>4, <2>1, <3>1 DEF more
  <2>2. CASE i \in 1 .. n
    <3>1. i \in 0 .. n /\ i - 1 \in 0 .. n
      BY <1>1, <2>2
    <3> QED
      BY <1>1, <1>3, <1>4, <2>2, <3>1
  <2> QED
    BY <1>1, <2>1, <2>2
<1>6. \A i \in 0 .. n + 1 : Highs(new[i]) <= Highs(more)
  <2> SUFFICES ASSUME NEW i \in 0 .. n + 1 PROVE Highs(new[i]) <= Highs(more)
    OBVIOUS
  <2>1. new[i] \in Seq(Int)
    BY <1>4
  <2>2. Highs(new[i]) \in Nat /\ Highs(all) \in Nat /\ Highs(more) \in Nat
    BY <1>2, <2>1, HighPlacesFinite
  <2>3. CASE i = n + 1
    BY <1>4, <2>2, <2>3
  <2>4. CASE i \in 0 .. n
    <3>1. Highs(new[i]) <= Highs(all)
      BY <1>3, <1>4, <2>4
    <3> QED
      BY <1>2, <2>2, <3>1
  <2> QED
    BY <1>1, <2>3, <2>4
<1>7. UpTo(focus, new, longer, more)
  BY <1>1, <1>4, <1>5, <1>6 DEF UpTo
<1> QED
  BY <1>4, <1>7 DEF UpToFrom, longer, more

Joins(focus, q, joined, added) ==
  /\ q # <<>> /\ Len(joined) = Len(q)
  /\ \A i \in 1 .. Len(q) : i # Len(q) => joined[i] = q[i]
  /\ Units(focus, joined[Len(q)]) = Units(focus, q[Len(q)]) \o added

LEMMA UpToJoined ==
  ASSUME NEW focus, NEW pre, NEW q \in Seq(Records), NEW all \in Seq(Int),
         NEW joined \in Seq(Records), NEW added \in Seq(Int),
         Joins(focus, q, joined, added), UpTo(focus, pre, q, all)
  PROVE  UpToFrom(focus, pre[0], joined, all \o added)
<1> USE DEF Joins
<1> DEFINE n == Len(q)
           more == all \o added
           new == [i \in 0 .. n |-> IF i < n THEN pre[i] ELSE more]
<1>1. n \in Nat /\ n > 0 /\ q[n] \in Records
  OBVIOUS
<1>2. more \in Seq(Int) /\ Highs(all) <= Highs(more)
  BY HighsMore
<1>3. /\ pre \in [0 .. n -> Seq(Int)] /\ pre[n] = all
      /\ \A i \in 1 .. n : pre[i] = pre[i - 1] \o Units(focus, q[i])
      /\ \A i \in 0 .. n : Highs(pre[i]) <= Highs(all)
  BY DEF UpTo
<1>4. /\ new \in [0 .. n -> Seq(Int)] /\ new[n] = more /\ new[0] = pre[0]
      /\ \A i \in 0 .. n - 1 : new[i] = pre[i]
  <2> HIDE DEF n, more
  <2> QED
    BY <1>1, <1>2, <1>3
<1>5. more = pre[n - 1] \o Units(focus, joined[n])
  <2> DEFINE old == pre[n - 1]
             units == Units(focus, q[n])
  <2>1. all = old \o units
    <3>1. n \in 1 .. n
      BY <1>1
    <3> QED
      BY <1>3, <3>1
  <2>2. old \in Seq(Int) /\ units \in Seq(Int)
    <3>1. n - 1 \in 0 .. n
      BY <1>1
    <3> QED
      BY <1>1, <1>3, <3>1, UnitsTyped
  <2> HIDE DEF old, units
  <2>3. (old \o units) \o added = old \o (units \o added)
    <3>1. Reassociates(old, units, added)
      BY <2>2, Joined
    <3> QED
      BY <3>1 DEF Reassociates
  <2> QED
    BY <2>1, <2>3 DEF old, units
<1>6. Len(joined) = n /\ \A i \in 1 .. n - 1 : joined[i] = q[i]
  OBVIOUS
<1> HIDE DEF new, n, more
<1>7. \A i \in 1 .. n : new[i] = new[i - 1] \o Units(focus, joined[i])
  <2> SUFFICES ASSUME NEW i \in 1 .. n PROVE new[i] = new[i - 1] \o Units(focus, joined[i])
    OBVIOUS
  <2>1. i - 1 \in 0 .. n - 1 /\ new[i - 1] = pre[i - 1]
    BY <1>1, <1>4
  <2>2. CASE i = n
    BY <1>4, <1>5, <2>1, <2>2
  <2>3. CASE i # n
    <3>1. i \in 1 .. n - 1 /\ i \in 0 .. n - 1
      BY <1>1, <2>3
    <3> QED
      BY <1>3, <1>4, <1>6, <2>1, <3>1
  <2> QED
    BY <2>2, <2>3
<1>8. \A i \in 0 .. n : Highs(new[i]) <= Highs(more)
  <2> SUFFICES ASSUME NEW i \in 0 .. n PROVE Highs(new[i]) <= Highs(more)
    OBVIOUS
  <2>1. new[i] \in Seq(Int)
    BY <1>4
  <2>2. Highs(new[i]) \in Nat /\ Highs(all) \in Nat /\ Highs(more) \in Nat
    BY <1>2, <2>1, HighPlacesFinite
  <2>3. CASE i = n
    BY <1>4, <2>2, <2>3
  <2>4. CASE i # n
    <3>1. i \in 0 .. n - 1
      BY <1>1, <2>4
    <3>2. Highs(new[i]) <= Highs(all)
      BY <1>3, <1>4, <3>1
    <3> QED
      BY <1>2, <2>2, <3>2
  <2> QED
    BY <2>3, <2>4
<1>9. UpTo(focus, new, joined, more)
  BY <1>4, <1>6, <1>7, <1>8 DEF UpTo
<1> QED
  BY <1>4, <1>9 DEF UpToFrom, more

LEMMA UpToRead ==
  ASSUME NEW focus, NEW pre, NEW q \in Seq(Records), NEW all \in Seq(Int), q # <<>>,
         UpTo(focus, pre, q, all)
  PROVE  /\ \E new : UpTo(focus, new, Tail(q), all) /\ new[0] = pre[0] \o Units(focus, q[1])
         /\ pre[0] \in Seq(Int) /\ Highs(pre[0] \o Units(focus, q[1])) <= Highs(all)
<1> DEFINE n == Len(q) - 1
           rest == Tail(q)
           new == [i \in 0 .. n |-> pre[i + 1]]
<1>1. /\ n \in Nat /\ Len(q) = n + 1 /\ Len(rest) = n /\ \A i \in 1 .. n : rest[i] = q[i + 1]
  OBVIOUS
<1> HIDE DEF n, rest
<1>2. /\ pre \in [0 .. n + 1 -> Seq(Int)] /\ pre[n + 1] = all
      /\ \A i \in 1 .. n + 1 : pre[i] = pre[i - 1] \o Units(focus, q[i])
      /\ \A i \in 0 .. n + 1 : Highs(pre[i]) <= Highs(all)
  BY <1>1 DEF UpTo
<1>3. /\ new \in [0 .. n -> Seq(Int)] /\ new[n] = all /\ new[0] = pre[1]
      /\ \A i \in 0 .. n : new[i] = pre[i + 1]
  BY <1>1, <1>2
<1> HIDE DEF new
<1>4. \A i \in 1 .. n : new[i] = new[i - 1] \o Units(focus, rest[i])
  <2> SUFFICES ASSUME NEW i \in 1 .. n PROVE new[i] = new[i - 1] \o Units(focus, rest[i])
    OBVIOUS
  <2>1. i + 1 \in 1 .. n + 1 /\ i \in 0 .. n /\ i - 1 \in 0 .. n /\ (i + 1) - 1 = i /\ (i - 1) + 1 = i
    BY <1>1
  <2>2. pre[i + 1] = pre[i] \o Units(focus, q[i + 1])
    BY <1>2, <2>1
  <2> QED
    BY <1>1, <1>3, <2>1, <2>2
<1>5. \A i \in 0 .. n : Highs(new[i]) <= Highs(all)
  BY <1>1, <1>2, <1>3
<1>6. pre[1] = pre[0] \o Units(focus, q[1]) /\ pre[0] \in Seq(Int) /\ Highs(pre[1]) <= Highs(all)
  <2>1. 1 \in 1 .. n + 1 /\ 1 \in 0 .. n + 1 /\ 0 \in 0 .. n + 1 /\ 1 - 1 = 0
    BY <1>1
  <2> QED
    BY <1>2, <2>1
<1>7. UpTo(focus, new, rest, all)
  BY <1>1, <1>3, <1>4, <1>5 DEF UpTo
<1> QED
  BY <1>3, <1>6, <1>7 DEF rest

\* Nothing has been entered.
LEMMA NothingEntered ==
  /\ <<>> \in Seq(Int)
  /\ \A focus : \E pre : UpTo(focus, pre, <<>>, <<>>) /\ Agrees(pre[0], NothingPending, <<>>)
<1>1. <<>> \in Seq(Int)
  OBVIOUS
<1>2. ASSUME NEW focus
      PROVE  \E pre : UpTo(focus, pre, <<>>, <<>>) /\ Agrees(pre[0], NothingPending, <<>>)
  <2> DEFINE empty == <<>>
             pre == [i \in 0 .. 0 |-> empty]
  <2>1. empty \in Seq(Int) /\ Len(empty) = 0 /\ Highs(empty) \in Nat
    BY <1>1, HighPlacesFinite
  <2>2. pre \in [0 .. 0 -> Seq(Int)] /\ pre[0] = empty /\ \A i \in 0 .. 0 : pre[i] = empty
    BY <2>1
  <2> HIDE DEF pre, empty
  <2>3. UpTo(focus, pre, empty, empty)
    BY <2>1, <2>2 DEF UpTo
  <2>4. Comes(empty, <<>>, <<>>)
    <3>1. UnitByUnit(<<>>) = FirstUnitState
      BY Library!FoldEmpty DEF UnitByUnit
    <3> QED
      BY <3>1 DEF Comes, FirstUnitState, empty
  <2>5. Agrees(empty, NothingPending, <<>>)
    BY <1>1, <2>1, <2>4, NothingWaits
  <2> QED
    BY <2>2, <2>3, <2>5 DEF empty
<1> QED
  BY <1>1, <1>2
-----------------------------------------------------------------------------
(* The invariant.                                                          *)

LEMMA TextInit == WindowsInit => TextInv
<1> SUFFICES ASSUME WindowsInit PROVE TextInv
  OBVIOUS
<1>1. records = <<>> /\ typed = <<>> /\ decoded = <<>> /\ utf16State = NothingPending
  BY DEF WindowsInit
<1> QED
  BY <1>1, NothingEntered DEF TextInv

\* What is entered only adds to what was.
LEMMA FewBefore ==
  ASSUME typed \in Seq(Int), NEW added \in Seq(Int), typed' = typed \o added, FewHalves'
  PROVE  FewHalves
<1>1. Highs(typed) <= Highs(typed \o added) /\ Highs(typed) \in Nat
      /\ typed \o added \in Seq(Int)
  BY HighsMore, HighPlacesFinite
<1>2. Highs(typed \o added) \in Nat
  BY <1>1, HighPlacesFinite
<1>3. Highs(typed') <= MaxCount
  BY DEF FewHalves, Highs, HighPlaces
<1>4. Highs(typed) <= MaxCount
  BY <1>1, <1>2, <1>3, CountAssumption
<1> QED
  BY <1>4 DEF FewHalves, Highs, HighPlaces

\* A record in the buffer, and the code units it stands for.
LEMMA RecordEntered ==
  ASSUME TextInv, records \in Seq(Records), NEW r \in Records,
         records' = Append(records, r), typed' = typed \o Units(enableFocusEvents, r),
         UNCHANGED <<utf16State, decoded, enableFocusEvents>>
  PROVE  TextInv'
<1>1. PICK pre : /\ UpTo(enableFocusEvents, pre, records, typed)
                 /\ FewHalves => Agrees(pre[0], utf16State, decoded)
  BY DEF TextInv
<1>2. typed \in Seq(Int) /\ Units(enableFocusEvents, r) \in Seq(Int) /\ typed' \in Seq(Int)
  BY UnitsTyped DEF TextInv
<1>3. PICK new : /\ UpTo(enableFocusEvents, new, records', typed')
                 /\ new[0] = pre[0]
  <2>1. UpToFrom(enableFocusEvents, pre[0], Append(records, r), typed \o Units(enableFocusEvents, r))
    BY <1>1, <1>2, UpToAppended
  <2> QED
    BY <2>1 DEF UpToFrom
<1>4. FewHalves' => FewHalves
  BY <1>2, FewBefore
<1> QED
  BY <1>1, <1>2, <1>3, <1>4 DEF TextInv

\* The last record, changed.
LEMMA RepeatedTyped ==
  ASSUME NEW r \in KeyRecords, NEW more \in Nat
  PROVE  [r EXCEPT !.repeats = @ + more] \in Records
<1> DEFINE new == [r EXCEPT !.repeats = @ + more]
<1>1. new \in KeyRecords
  BY DEF KeyRecords
<1> HIDE DEF new
<1>2. new \in Records
  BY <1>1 DEF Records
<1> QED
  BY <1>2 DEF new

Replaces(q, n, new) ==
  /\ new \in Seq(Records) /\ Len(new) = Len(q)
  /\ \A i \in 1 .. Len(q) : i # n => new[i] = q[i]

LEMMA LastReplaced ==
  ASSUME NEW q \in Seq(Records), NEW n \in 1 .. Len(q), NEW r \in Records
  PROVE  Replaces(q, n, [q EXCEPT ![n] = r])
BY DEF Replaces

LEMMA KeyJoined ==
  ASSUME TextInv, records \in Seq(Records), NEW r \in Records, r.type = "key", Coalesces(r),
         records' = Buffer(r), typed' = typed \o Units(enableFocusEvents, r),
         UNCHANGED <<utf16State, decoded, enableFocusEvents>>
  PROVE  TextInv'
<1> DEFINE n == Len(records)
           added == Units(enableFocusEvents, r)
<1>1. PICK pre : /\ UpTo(enableFocusEvents, pre, records, typed)
                 /\ FewHalves => Agrees(pre[0], utf16State, decoded)
  BY DEF TextInv
<1>2. typed \in Seq(Int) /\ added \in Seq(Int) /\ typed' \in Seq(Int)
  BY UnitsTyped DEF TextInv
<1>3. /\ records # <<>> /\ n \in 1 .. n /\ records[n].type = "key" /\ r.down
      /\ records[n] = [r EXCEPT !.repeats = records[n].repeats]
      /\ records' = [records EXCEPT ![n].repeats = @ + r.repeats]
  BY DEF Coalesces, Last, Buffer
<1>4. records[n] \in KeyRecords /\ r \in KeyRecords
  BY <1>3 DEF Records
<1>5. /\ records' \in Seq(Records) /\ Len(records') = n
      /\ \A i \in 1 .. n : i # n => records'[i] = records[i]
  <2> DEFINE repeated == [records[n] EXCEPT !.repeats = @ + r.repeats]
  <2>1. repeated \in Records
    <3>1. r.repeats \in Nat
      BY <1>4 DEF KeyRecords
    <3> QED
      BY <1>4, <3>1, RepeatedTyped
  <2>2. records' = [records EXCEPT ![n] = repeated]
    BY <1>3
  <2>3. n \in 1 .. Len(records)
    BY <1>3
  <2> HIDE DEF repeated, n
  <2>4. Replaces(records, n, [records EXCEPT ![n] = repeated])
    BY <2>1, <2>3, LastReplaced
  <2>5. Replaces(records, n, records')
    BY <2>2, <2>4, Zenon
  <2> QED
    BY <2>5, Zenon DEF Replaces, n
<1>6. Units(enableFocusEvents, records'[n]) = Units(enableFocusEvents, records[n]) \o added
  <2> DEFINE old == records[n]
             new == records'[n]
             m == old.repeats
  <2>1. /\ new.type = "key" /\ new.down = r.down /\ new.unit = r.unit
        /\ new.repeats = m + r.repeats
        /\ old.down = r.down /\ old.unit = r.unit
        /\ m \in Nat /\ r.repeats \in Nat /\ r.unit \in Int
    <3>1. new = [old EXCEPT !.repeats = @ + r.repeats]
      BY <1>3
    <3>2. old = [r EXCEPT !.repeats = m] /\ old \in KeyRecords /\ r \in KeyRecords /\ m = old.repeats
      BY <1>3, <1>4
    <3> HIDE DEF new, old, m
    <3> QED
      BY <3>1, <3>2 DEF KeyRecords
  <2>2. CASE r.unit = 0
    BY <1>3, <2>1, <2>2 DEF Units
  <2>3. CASE r.unit # 0
    <3>1. /\ Units(enableFocusEvents, new) = Times(m + r.repeats, r.unit)
          /\ Units(enableFocusEvents, old) = Times(m, r.unit) /\ added = Times(r.repeats, r.unit)
      <4> HIDE DEF new, old, m
      <4>1. old.repeats = m
        BY DEF m
      <4> QED
        BY <1>3, <2>1, <2>3, <4>1 DEF Units, old
    <3> HIDE DEF new, old, m, added
    <3>2. Times(m + r.repeats, r.unit) = Times(m, r.unit) \o Times(r.repeats, r.unit)
      BY <2>1, TimesSum
    <3> QED
      BY <3>1, <3>2 DEF new, old
  <2> QED
    BY <2>2, <2>3
<1> HIDE DEF added
<1>7. PICK new : UpTo(enableFocusEvents, new, records', typed') /\ new[0] = pre[0]
  <2>1. Joins(enableFocusEvents, records, records', added)
    BY <1>3, <1>5, <1>6 DEF Joins
  <2>2. UpToFrom(enableFocusEvents, pre[0], records', typed \o added)
    BY <1>1, <1>2, <1>5, <2>1, UpToJoined
  <2> QED
    BY <2>2 DEF UpToFrom, added
<1>8. FewHalves' => FewHalves
  BY <1>2, FewBefore DEF added
<1> QED
  BY <1>1, <1>2, <1>7, <1>8 DEF TextInv

LEMMA KeyEntered ==
  ASSUME TextInv, records \in Seq(Records), NEW r \in Records, r.type = "key",
         records' = Buffer(r), typed' = typed \o Units(enableFocusEvents, r),
         UNCHANGED <<utf16State, decoded, enableFocusEvents>>
  PROVE  TextInv'
<1>1. CASE Coalesces(r)
  BY <1>1, KeyJoined
<1>2. CASE ~Coalesces(r)
  <2>1. records' = Append(records, r)
    BY <1>2 DEF Buffer
  <2> QED
    BY <2>1, RecordEntered
<1> QED
  BY <1>1, <1>2

\* One press, repeat or release of a key.
LEMMA OneKeyKeepsText ==
  ASSUME TextInv, records \in Seq(Records), NEW k \in Keys, NEW down \in BOOLEAN, NEW unit \in Nat,
         down \/ unit = 0, physical' \subseteq Keys, missed' \subseteq Keys,
         KeyReachesConsole(k, down, unit), UNCHANGED <<utf16State, decoded, enableFocusEvents>>
  PROVE  TextInv'
<1> DEFINE r == KeyRecord(k, down, 1, unit)
<1>1. r \in Records /\ r.type = "key" /\ r.down = down
  BY KeyRecordMade
<1>2. r.repeats = 1 /\ r.unit = unit
  BY DEF KeyRecord
<1>3. CASE ~here
  <2>1. UNCHANGED <<records, typed>>
    BY <1>3 DEF KeyReachesConsole
  <2> QED
    BY <2>1 DEF TextInv, FewHalves
<1>4. CASE here
  <2>1. records' = Buffer(r) /\ typed' = IF down /\ unit # 0 THEN Append(typed, unit) ELSE typed
    BY <1>4 DEF KeyReachesConsole
  <2> HIDE DEF r
  <2>2. Units(enableFocusEvents, r) = IF down /\ unit # 0 THEN <<unit>> ELSE <<>>
    <3>1. Times(1, unit) = <<unit>>
      BY DEF Times
    <3> QED
      BY <1>1, <1>2, <3>1 DEF Units
  <2>3. typed' = typed \o Units(enableFocusEvents, r)
    <3>1. typed \in Seq(Int) /\ unit \in Int
      BY DEF TextInv
    <3>2. typed \o <<unit>> = Append(typed, unit) /\ typed \o <<>> = typed
      BY <3>1
    <3> QED
      BY <2>1, <2>2, <3>2
  <2> QED
    BY <1>1, <2>1, <2>3, KeyEntered
<1> QED
  BY <1>3, <1>4

LEMMA PastedUnitsType == \A unit \in PastedUnits : unit # 0
<1>1. PastedUnits \subseteq 1 .. 2 ^ 16 - 1 /\ MaxRepeats \in 1 .. 2 ^ 16 - 1 /\ Unknown \notin ModifierKeys
  BY WindowsAssumption
<1> DEFINE Positive == Nat \ {0}
<1>2. \A n \in 1 .. 2 ^ 16 - 1 : n \in Positive
  OBVIOUS
<1> HIDE DEF Positive
<1>3. \A unit \in PastedUnits : unit \in Positive
  BY <1>1, <1>2
<1> QED
  BY <1>3 DEF Positive

LEMMA UserKeepsText ==
  ASSUME ModifierInv, ModifierInv', TextInv, User PROVE TextInv'
<1>1. UNCHANGED <<utf16State, decoded, enableFocusEvents>>
  BY DEF User, Press, AutoRepeat, Release, Paste, SwitchWindow, Act, backend
<1>2. records \in Seq(Records) /\ physical' \subseteq Keys /\ missed' \subseteq Keys
  BY DEF ModifierInv
<1>3. ASSUME NEW k \in Keys, Press(k) \/ AutoRepeat(k) PROVE TextInv'
  <2>1. UnitOf[k] \in Nat /\ KeyReachesConsole(k, TRUE, UnitOf[k])
    BY <1>3, Entered DEF Press, AutoRepeat
  <2> QED
    BY <1>1, <1>2, <2>1, OneKeyKeepsText
<1>4. ASSUME NEW k \in Keys, Release(k) PROVE TextInv'
  <2>1. KeyReachesConsole(k, FALSE, 0)
    BY <1>4 DEF Release
  <2> QED
    BY <1>1, <1>2, <2>1, OneKeyKeepsText
<1>5. ASSUME NEW unit \in PastedUnits, NEW repeats \in 1 .. MaxRepeats, Paste(unit, repeats)
      PROVE  TextInv'
  <2> DEFINE r == KeyRecord(Unknown, TRUE, repeats, unit)
  <2>1. records' = Buffer(r) /\ typed' = typed \o Times(repeats, unit)
    BY <1>5 DEF Paste
  <2>2. unit \in Nat /\ repeats \in Nat /\ unit # 0
    <3>1. unit \in Nat /\ repeats \in Nat
      BY Entered
    <3> QED
      BY <3>1, PastedUnitsType
  <2>3. r \in Records /\ r.type = "key" /\ r.down
    <3>1. Unknown \in Keys \cup {Unknown} /\ TRUE \in BOOLEAN
      OBVIOUS
    <3>2. r \in Records /\ r.type = "key" /\ r.down = TRUE
      BY <1>2, <2>2, <3>1, KeyRecordMade, Zenon
    <3> QED
      BY <3>2
  <2>4. r.repeats = repeats /\ r.unit = unit
    BY DEF KeyRecord
  <2> HIDE DEF r
  <2>5. Units(enableFocusEvents, r) = Times(repeats, unit)
    BY <2>2, <2>3, <2>4 DEF Units
  <2> QED
    BY <1>1, <1>2, <2>1, <2>3, <2>5, KeyEntered
<1>6. ASSUME SwitchWindow PROVE TextInv'
  <2> DEFINE r == [type |-> "focus", set |-> (here' = TRUE)]
  <2>1. /\ here' \in BOOLEAN /\ here' = ~here
        /\ records' = Append(records, [type |-> "focus", set |-> here'])
        /\ typed' = IF here /\ enableFocusEvents THEN Append(typed, 0) ELSE typed
    BY <1>6 DEF SwitchWindow
  <2>2. r \in Records /\ r.type = "focus" /\ records' = Append(records, r)
        /\ (r.set <=> ~here)
    BY <2>1 DEF Records
  <2> HIDE DEF r
  <2>3. Units(enableFocusEvents, r) = IF here /\ enableFocusEvents THEN <<0>> ELSE <<>>
    BY <2>2 DEF Units
  <2>4. typed' = typed \o Units(enableFocusEvents, r)
    <3>1. typed \in Seq(Int)
      BY DEF TextInv
    <3>2. typed \o <<0>> = Append(typed, 0) /\ typed \o <<>> = typed
      BY <3>1
    <3> QED
      BY <2>1, <2>3, <3>2
  <2> QED
    BY <1>1, <1>2, <2>2, <2>4, RecordEntered
<1> QED
  BY <1>3, <1>4, <1>5, <1>6 DEF User

\* A record that is read takes the decoder past its code units.
Decodes(r) ==
  \A s \in Seq(Int) :
    /\ Agrees(s, utf16State, decoded)
    /\ Len(UnitByUnit(s \o Units(enableFocusEvents, r)).queue) <= MaxCount
    => Agrees(s \o Units(enableFocusEvents, r), utf16State', decoded')

LEMMA RecordDecoded ==
  ASSUME TextInv, records \in Seq(Records), records # <<>>, records' = Tail(records),
         UNCHANGED <<typed, enableFocusEvents>>, Decodes(records[1])
  PROVE  TextInv'
<1> DEFINE added == Units(enableFocusEvents, records[1])
<1>1. PICK pre : /\ UpTo(enableFocusEvents, pre, records, typed)
                 /\ FewHalves => Agrees(pre[0], utf16State, decoded)
  BY DEF TextInv
<1>2. typed \in Seq(Int) /\ records[1] \in Records /\ added \in Seq(Int)
  BY UnitsTyped DEF TextInv
<1>3. /\ \E new : UpTo(enableFocusEvents, new, Tail(records), typed) /\ new[0] = pre[0] \o added
      /\ pre[0] \in Seq(Int) /\ Highs(pre[0] \o added) <= Highs(typed)
  BY <1>1, <1>2, UpToRead, Zenon
<1>4. PICK new : UpTo(enableFocusEvents, new, Tail(records), typed) /\ new[0] = pre[0] \o added
  BY <1>3
<1>5. ASSUME FewHalves PROVE Agrees(pre[0] \o added, utf16State', decoded')
  <2> DEFINE s == pre[0] \o added
             waiting == UnitByUnit(s).queue
  <2>1. s \in Seq(Int) /\ Highs(typed) <= MaxCount
    BY <1>2, <1>3, <1>5 DEF FewHalves, Highs, HighPlaces
  <2>2. /\ Len(waiting) <= Highs(s) /\ Highs(s) \in Nat /\ Highs(typed) \in Nat
        /\ UnitByUnit(s) \in UnitStates
    <3> HIDE DEF s
    <3>1. Len(waiting) <= Highs(s)
      BY <2>1, QueueShort
    <3>2. Highs(s) \in Nat /\ Highs(typed) \in Nat
      BY <1>2, <2>1, HighPlacesFinite
    <3>3. 0 \in Int
      OBVIOUS
    <3>4. UnitByUnit(s) \in UnitStates
      BY <2>1, <3>3, UnitsAppended, Zenon
    <3> QED
      BY <3>1, <3>2, <3>4
  <2>3. Len(waiting) \in Nat
    BY <2>2 DEF UnitStates
  <2>4. Len(waiting) <= MaxCount
    <3> DEFINE l == Len(waiting)
               few == Highs(s)
    <3>1. l \in Nat /\ few \in Nat /\ l <= few /\ few <= Highs(typed)
      BY <1>3, <2>2, <2>3
    <3> HIDE DEF l, few
    <3>2. l <= MaxCount
      BY <2>1, <2>2, <3>1, CountAssumption
    <3> QED
      BY <3>2 DEF l
  <2> QED
    BY <1>1, <1>3, <1>5, <2>4 DEF Decodes
<1>6. FewHalves' => FewHalves
  BY DEF FewHalves
<1> QED
  BY <1>2, <1>4, <1>5, <1>6 DEF TextInv

LEMMA ReadKeyKeepsText ==
  ASSUME ModifierInv, TextInv, ReadKey PROVE TextInv'
<1> DEFINE r == records[1]
           decoding == IF r.down /\ r.unit # 0
                       THEN DecodeRepeated(utf16State, r.unit, r.repeats)
                       ELSE Decoding(utf16State, <<>>)
<1>1. records \in Seq(Records) /\ records # <<>> /\ Head(records) = r /\ r.type = "key"
  BY DEF ModifierInv, ReadKey, Reading
<1>2. /\ records' = Tail(records) /\ UNCHANGED <<typed, enableFocusEvents>>
      /\ utf16State' = decoding.pending /\ decoded' = decoded \o decoding.output
  <2>1. utf16State' = decoding.pending /\ decoded' = decoded \o decoding.output
    BY <1>1, Zenon DEF ReadKey
  <2> QED
    BY <2>1 DEF ReadKey, Read
<1>3. r \in KeyRecords
  <2>1. r \in Records
    BY <1>1
  <2> QED
    BY <1>1, <2>1 DEF Records
<1>4. r.unit \in Nat /\ r.repeats \in Nat
  BY <1>3 DEF KeyRecords
<1>5. ASSUME NEW s \in Seq(Int), Agrees(s, utf16State, decoded),
             Len(UnitByUnit(s \o Units(enableFocusEvents, r)).queue) <= MaxCount
      PROVE  Agrees(s \o Units(enableFocusEvents, r), utf16State', decoded')
  <2>1. CASE r.down /\ r.unit # 0
    <3>1. Units(enableFocusEvents, r) = Times(r.repeats, r.unit)
      BY <1>1, <2>1 DEF Units
    <3>2. decoding = DecodeRepeated(utf16State, r.unit, r.repeats)
      BY <2>1
    <3> DEFINE unit == r.unit
               n == r.repeats
    <3>3. unit \in Nat /\ unit # 0 /\ n \in Nat
          /\ Len(UnitByUnit(s \o Times(n, unit)).queue) <= MaxCount
      BY <1>4, <1>5, <2>1, <3>1
    <3> HIDE DEF unit, n
    <3>4. LET d == DecodeRepeated(utf16State, unit, n)
          IN Agrees(s \o Times(n, unit), d.pending, decoded \o d.output)
      BY <1>5, <3>3, Repeats
    <3> QED
      BY <1>2, <3>1, <3>2, <3>4 DEF unit, n
  <2>2. CASE ~(r.down /\ r.unit # 0)
    <3>1. Units(enableFocusEvents, r) = <<>> /\ s \o <<>> = s
      BY <1>1, <2>2 DEF Units
    <3>2. decoding = [pending |-> utf16State, output |-> <<>>]
      BY <2>2 DEF Decoding
    <3>3. decoded \o <<>> = decoded
      BY <1>5 DEF Agrees
    <3> HIDE DEF decoding
    <3>4. utf16State' = utf16State /\ decoded' = decoded
      BY <1>2, <3>2, <3>3
    <3> QED
      BY <1>5, <3>1, <3>4
  <2> QED
    BY <2>1, <2>2
<1> HIDE DEF decoding
<1>6. Decodes(r)
  BY <1>5 DEF Decodes
<1> QED
  BY <1>1, <1>2, <1>6, RecordDecoded

LEMMA ReadFocusKeepsText ==
  ASSUME ModifierInv, TextInv, ReadFocus PROVE TextInv'
<1> DEFINE r == records[1]
<1>1. records \in Seq(Records) /\ records # <<>> /\ Head(records) = r /\ r.type = "focus"
  BY DEF ModifierInv, ReadFocus, Reading
<1>2. /\ records' = Tail(records) /\ UNCHANGED <<typed, enableFocusEvents, decoded>>
      /\ utf16State' = IF enableFocusEvents THEN PendingAfterFocus(r.set) ELSE utf16State
  BY <1>1 DEF ReadFocus, Read
<1>3. ASSUME NEW s \in Seq(Int), Agrees(s, utf16State, decoded)
      PROVE  Agrees(s \o Units(enableFocusEvents, r), utf16State', decoded')
  <2>1. CASE enableFocusEvents /\ ~r.set
    <3>1. Units(enableFocusEvents, r) = <<0>> /\ utf16State' = NothingPending
      BY <1>1, <1>2, <2>1 DEF Units, PendingAfterFocus
    <3> QED
      BY <1>2, <1>3, <3>1, FocusEmpties
  <2>2. CASE ~(enableFocusEvents /\ ~r.set)
    <3>1. Units(enableFocusEvents, r) = <<>> /\ utf16State' = utf16State /\ s \o <<>> = s
      BY <1>1, <1>2, <2>2 DEF Units, PendingAfterFocus
    <3> QED
      BY <1>2, <1>3, <3>1
  <2> QED
    BY <2>1, <2>2
<1>4. Decodes(r)
  BY <1>3 DEF Decodes
<1> QED
  BY <1>1, <1>2, <1>4, RecordDecoded

LEMMA TextStep ==
  ASSUME ModifierInv, ModifierInv', TextInv, [WindowsNext]_<<vars, windowsVars>> PROVE TextInv'
<1>1. ASSUME UNCHANGED <<records, typed, utf16State, decoded, enableFocusEvents>> PROVE TextInv'
  BY <1>1 DEF TextInv, FewHalves
<1>2. CASE BeginRead
  BY <1>1, <1>2 DEF BeginRead, keyboard, backend
<1>3. CASE HandOver
  BY <1>1, <1>3 DEF HandOver, keyboard
<1>4. CASE Begin
  <2>1. records' = <<>> /\ typed' = <<>> /\ decoded' = <<>> /\ utf16State' = NothingPending
    BY <1>4 DEF Begin
  <2> QED
    BY <2>1, NothingEntered DEF TextInv
<1>5. CASE Process
  BY <1>1, <1>5 DEF Process, windowsVars, keyboard, backend
<1>6. CASE UNCHANGED <<vars, windowsVars>>
  BY <1>1, <1>6 DEF windowsVars, keyboard, backend
<1> QED
  BY <1>2, <1>3, <1>4, <1>5, <1>6, UserKeepsText, ReadKeyKeepsText, ReadFocusKeepsText
  DEF WindowsNext

(***************************************************************************)
(* The text is that of the code units one by one, however the console has  *)
(* joined repeats and reads have cut them; for any code units and any      *)
(* limit of the counter that the halves do not exceed, and whatever fails. *)
(***************************************************************************)
THEOREM TextIsExact == WindowsSpec => []TextExact
<1>1. ASSUME TextInv PROVE TextExact
  <2> SUFFICES ASSUME Settled, FewHalves
               PROVE  /\ decoded = Characterwise.output
                      /\ utf16State.count = Len(Characterwise.queue)
    BY DEF TextExact
  <2>1. PICK pre : /\ UpTo(enableFocusEvents, pre, records, typed)
                   /\ Agrees(pre[0], utf16State, decoded)
    BY <1>1 DEF TextInv
  <2>2. records = <<>> /\ Len(<<>>) = 0
    BY DEF Settled
  <2>3. pre[0] = typed
    BY <2>1, <2>2 DEF UpTo
  <2>4. Characterwise = UnitByUnit(typed)
    BY <1>1, UnitsFold DEF Characterwise, TextInv, FirstUnitState
  <2>5. Characterwise = [queue |-> Times(utf16State.count, utf16State.high), output |-> decoded]
    BY <2>1, <2>3, <2>4 DEF Agrees, Waiting
  <2>6. utf16State.count \in Nat
    BY <2>1 DEF Agrees, Pendings
  <2>7. Len(Times(utf16State.count, utf16State.high)) = utf16State.count
    BY <2>6, TimesFacts DEF TimesFact
  <2> QED
    BY <2>5, <2>7
<1>2. ModifierInv /\ ModifierInv' /\ TextInv /\ [WindowsNext]_<<vars, windowsVars>> => TextInv'
  BY TextStep
<1>3. ModifierInv /\ [WindowsNext]_<<vars, windowsVars>> => ModifierInv'
  BY ModifierStep
<1> QED
  BY <1>1, <1>2, <1>3, ModifierInit, TextInit, PTL DEF WindowsSpec
=============================================================================
