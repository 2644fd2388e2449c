------------------------ MODULE EscapeParser_proofs ------------------------
(***************************************************************************)
(* Proofs that the parser's buffer stays bounded, that only a lone Escape  *)
(* is delayed, that what is recognised does not depend on how read() cuts  *)
(* the bytes, and that keystrokes yield what they mean, for every input.   *)
(* For the first two only the number of bytes that a round uses matters;   *)
(* the others rest on tokens: what begins a series of bytes does not       *)
(* change with the bytes that follow.                                      *)
(***************************************************************************)
EXTENDS EscapeParserProperties, Utf8_proofs

\* The types that the proofs need.
Types ==
  /\ buffer \in Seq(Byte)
  /\ wire \in Seq(Byte)
  /\ consumed \in Nat
  /\ consumed <= Len(buffer)
  /\ escapePending \in BOOLEAN /\ expired \in BOOLEAN
  /\ pc \in {"idle", "parse", "force", "flush", "drain"}

\* During a parse the delay can only be running for its first byte: the first
\* round sees an Escape, and either restarts the delay or ends it.
PendingAtFirst ==
  Parsing /\ escapePending => consumed = 0 /\ buffer # <<>> /\ buffer[1] = ESC

BufferInv ==
  /\ Types
  /\ pc \in {"idle", "drain"} => consumed = 0
  /\ BufferBounded
  /\ PendingIsLoneEscape
  /\ PendingAtFirst
  /\ expired => escapePending
-----------------------------------------------------------------------------
\* What is left to parse.
LEMMA RestFacts ==
  ASSUME Types
  PROVE  /\ Rest \in Seq(Byte)
         /\ Len(Rest) = Len(buffer) - consumed
         /\ consumed = 0 => Rest = buffer
         /\ Rest # <<>> => Tail(Rest) \in Seq(Byte) /\ Len(Tail(Rest)) = Len(Rest) - 1
  <1>1. Rest \in Seq(Byte) /\ Len(Rest) = Len(buffer) - consumed
    BY DEF Types, Rest
  <1>2. consumed = 0 => Rest = buffer
    BY DEF Types, Rest
  <1>3. Rest # <<>> => Tail(Rest) \in Seq(Byte) /\ Len(Tail(Rest)) = Len(Rest) - 1
    BY <1>1
  <1> QED BY <1>1, <1>2, <1>3
-----------------------------------------------------------------------------
\* A round that uses bytes ends the delay, or finds that none is running.
LEMMA UseKeeps ==
  ASSUME BufferInv, Parsing, NEW n \in Nat, n >= 1, n <= Len(Rest),
         NEW pulses, Use(n, pulses),
         PendingCleared \/ (PendingKept /\ ~escapePending)
  PROVE  BufferInv'
  <1>1. Types
    BY DEF BufferInv
  <1>2. consumed + n <= Len(buffer)
    BY <1>1, RestFacts DEF Types
  <1>3. escapePending' = FALSE /\ expired' = FALSE
    BY DEF PendingCleared, PendingKept, BufferInv, Types
  <1>4. pc' = pc /\ pc \notin {"idle", "drain"}
    BY DEF Use, Parsing, Forced
  <1>5. Types'
    <2>1. buffer' = buffer /\ wire' = wire /\ consumed' = consumed + n
      BY DEF Use, terminal
    <2>2. consumed' \in Nat /\ consumed' <= Len(buffer')
      BY <1>1, <1>2, <2>1 DEF Types
    <2> QED
      BY <1>1, <1>3, <1>4, <2>1, <2>2 DEF Types, Byte
  <1> QED
    BY <1>3, <1>4, <1>5
    DEF BufferInv, BufferBounded, PendingIsLoneEscape, PendingAtFirst

\* A round that ends the loop leaves less than a whole sequence, and the delay
\* running exactly for a lone Escape.
LEMMA StopKeeps ==
  ASSUME BufferInv, Parsing, Stop, Len(Rest) < MaxSequence,
         escapePending' \in BOOLEAN, expired' \in BOOLEAN,
         expired' => escapePending',
         escapePending' <=> Rest = <<ESC>>
  PROVE  BufferInv'
  <1>1. Types
    BY DEF BufferInv
  <1>2. pc' \in {"idle", "drain"} /\ consumed' = 0 /\ buffer' = Rest
    BY DEF Stop
  <1>3. ~Parsing'
    BY <1>2 DEF Parsing, Forced
  <1>4. Types'
    BY <1>1, <1>2, RestFacts DEF Types, Stop, terminal
  <1> QED
    BY <1>2, <1>3, <1>4
    DEF BufferInv, BufferBounded, PendingIsLoneEscape, PendingAtFirst

\* Once a round has something else than an Escape before it, or nothing, the
\* delay is not running.
LEMMA NotPending ==
  ASSUME BufferInv, Parsing, Rest = <<>> \/ Rest[1] # ESC
  PROVE  escapePending = FALSE
  BY RestFacts DEF BufferInv, Types, PendingAtFirst
-----------------------------------------------------------------------------
LEMMA RoundsUseKeep ==
  ASSUME BufferInv,
         LoneEscape \/ CsiSequence \/ CsiRecovered \/ Ss3Sequence
           \/ AltCharacter \/ EscapeRecovered \/ ControlKey \/ Character
  PROVE  BufferInv'
  <1>0. Types /\ Len(Rest) \in Nat /\ Rest \in Seq(Byte)
    BY RestFacts DEF BufferInv
  <1>1. CASE LoneEscape
    BY <1>0, <1>1, UseKeeps DEF LoneEscape, AtEscape
  <1>2. CASE CsiSequence
    <2>1. PICK i \in Finals : Use(i, ParseCsi(SubSeq(Rest, 1, i)))
      BY <1>2 DEF CsiSequence
    <2>2. i \in Nat /\ i >= 1 /\ i <= Len(Rest)
      BY <2>1, ParserAssumption DEF Finals
    <2> QED
      BY <1>2, <2>1, <2>2, UseKeeps DEF CsiSequence, AfterEscape, AtEscape
  <1>3. CASE CsiRecovered
    BY <1>0, <1>3, UseKeeps DEF CsiRecovered, AfterEscape, AtEscape
  <1>4. CASE Ss3Sequence
    BY <1>0, <1>4, UseKeeps DEF Ss3Sequence, AfterEscape, AtEscape
  <1>5. CASE AltCharacter
    <2>1. AltDecoded.length \in 1 .. Len(Tail(Rest)) /\ Len(Tail(Rest)) = Len(Rest) - 1
      BY <1>0, <1>5, RestFacts, DecodeLength
      DEF AltCharacter, AfterEscape, AtEscape, AltDecoded
    <2> DEFINE n == 1 + AltDecoded.length
    <2>2. n \in Nat /\ n >= 1 /\ n <= Len(Rest)
      BY <1>0, <2>1
    <2> QED
      BY <1>5, <2>2, UseKeeps DEF AltCharacter, AfterEscape, AtEscape
  <1>6. CASE EscapeRecovered
    BY <1>0, <1>6, UseKeeps DEF EscapeRecovered, Unfinished, AfterEscape, AtEscape
  <1>7. CASE ControlKey
    <2>1. Rest[1] # ESC /\ Len(Rest) >= 1 /\ Parsing
      BY <1>0, <1>7 DEF ControlKey, ControlBytes, ESC
    <2>2. ~escapePending
      BY <2>1, NotPending
    <2> QED
      BY <1>0, <1>7, <2>1, <2>2, UseKeeps DEF ControlKey
  <1>8. CASE Character
    <2>1. Rest[1] # ESC /\ Parsing
      BY <1>8 DEF Character, AtText
    <2>2. ~escapePending
      BY <2>1, NotPending
    <2>3. Decoded.length \in 1 .. Len(Rest)
      BY <1>0, <1>8, DecodeLength DEF Character, Decoded
    <2>4. Decoded.length \in Nat /\ Decoded.length >= 1 /\ Decoded.length <= Len(Rest)
      BY <1>0, <2>3
    <2> QED
      BY <1>8, <2>1, <2>2, <2>4, UseKeeps DEF Character
  <1> QED
    BY <1>1, <1>2, <1>3, <1>4, <1>5, <1>6, <1>7, <1>8

LEMMA RoundsStopKeep ==
  ASSUME BufferInv,
         DelayEscape \/ CsiAwaited \/ SequenceAwaited
           \/ CharacterAwaited \/ Exhausted
  PROVE  BufferInv'
  <1>0. /\ Types /\ Len(Rest) \in Nat /\ Rest \in Seq(Byte)
        /\ MaxSequence \in Nat /\ MaxSequence >= 5
        /\ expired => escapePending
    BY RestFacts, ParserAssumption DEF BufferInv
  <1>1. CASE DelayEscape
    <2>1. Rest = <<ESC>> /\ Parsing /\ Len(Rest) < MaxSequence
      BY <1>0, <1>1 DEF DelayEscape, AtEscape
    <2>2. escapePending' = TRUE /\ expired' \in BOOLEAN
      BY <1>0, <1>1 DEF DelayEscape, Types
    <2> QED
      BY <1>1, <2>1, <2>2, StopKeeps DEF DelayEscape
  <1>2. CASE CsiAwaited
    <2>1. Parsing /\ Rest # <<ESC>> /\ Len(Rest) < MaxSequence
      BY <1>2 DEF CsiAwaited, AfterEscape, AtEscape, WithinBound
    <2> QED
      BY <1>2, <2>1, StopKeeps DEF CsiAwaited, PendingCleared
  <1>3. CASE SequenceAwaited
    <2>1. Parsing /\ Rest # <<>> /\ Len(Rest) > 1
      BY <1>3 DEF SequenceAwaited, Unfinished, AfterEscape, AtEscape
    <2>2. ~AltDecoded.complete => Len(Tail(Rest)) < 4
      BY <1>0, <2>1, RestFacts, DecodeLength DEF AltDecoded
    <2>3. Len(Rest) = 2 \/ Len(Tail(Rest)) < 4
      BY <1>3, <2>2 DEF SequenceAwaited, Unfinished
    <2>4. Len(Rest) < MaxSequence /\ Rest # <<ESC>>
      BY <1>0, <2>1, <2>3, RestFacts
    <2> QED
      BY <1>3, <2>1, <2>4, StopKeeps DEF SequenceAwaited, PendingCleared
  <1>4. CASE CharacterAwaited
    <2>1. Parsing /\ Rest[1] # ESC
      BY <1>4 DEF CharacterAwaited, AtText
    <2>2. Len(Rest) < 4
      BY <1>0, <1>4, DecodeLength DEF CharacterAwaited, Decoded
    <2>3. Len(Rest) < MaxSequence /\ Rest # <<ESC>>
      BY <1>0, <2>1, <2>2
    <2>4. escapePending' = FALSE /\ expired' = FALSE
      BY <1>0, <1>4, <2>1, NotPending DEF CharacterAwaited, PendingKept, Types
    <2> QED
      BY <1>4, <2>1, <2>3, <2>4, StopKeeps DEF CharacterAwaited
  <1>5. CASE Exhausted
    <2>1. Parsing /\ Rest = <<>>
      BY <1>5 DEF Exhausted
    <2>2. escapePending' = FALSE /\ expired' = FALSE
      BY <1>0, <1>5, <2>1, NotPending DEF Exhausted, PendingKept, Types
    <2>3. Len(Rest) < MaxSequence /\ Rest # <<ESC>>
      BY <1>0, <2>1
    <2> QED
      BY <1>5, <2>1, <2>2, <2>3, StopKeeps DEF Exhausted
  <1> QED
    BY <1>1, <1>2, <1>3, <1>4, <1>5
-----------------------------------------------------------------------------
LEMMA EmptySequence ==
  << >> \in Seq(Byte) /\ Len(<< >>) = 0 /\ << >> # <<ESC>>
  OBVIOUS

LEMMA InitBuffer == Init => BufferInv
  <1> SUFFICES ASSUME Init PROVE BufferInv
    OBVIOUS
  <1>1. Types
    <2>1. buffer \in Seq(Byte) /\ wire \in Seq(Byte)
      BY EmptySequence, Zenon DEF Init
    <2>2. consumed \in Nat /\ Len(buffer) = 0 /\ consumed = 0
      BY EmptySequence DEF Init
    <2>3. /\ escapePending \in BOOLEAN /\ expired \in BOOLEAN
          /\ pc \in {"idle", "parse", "force", "flush", "drain"}
      BY DEF Init
    <2> QED
      BY <2>1, <2>2, <2>3 DEF Types
  <1> QED
    BY <1>1, EmptySequence, ParserAssumption
    DEF Init, BufferInv, BufferBounded, PendingIsLoneEscape,
        PendingAtFirst, Parsing, Forced

LEMMA DrainKeeps ==
  ASSUME BufferInv, Drain \/ Drained
  PROVE  BufferInv'
  <1>0. Types
    BY DEF BufferInv
  <1>1. CASE Drain
    <2>1. /\ pc = "drain" /\ pc' = pc /\ wire' = wire
          /\ consumed' = consumed /\ consumed = 0
          /\ escapePending' = escapePending /\ expired' = expired
      BY <1>1 DEF Drain, terminal, BufferInv
    <2> DEFINE n == IF DecodeNext(buffer).complete THEN DecodeNext(buffer).length ELSE 1
    <2>2. n \in Nat /\ buffer' = SubSeq(buffer, n + 1, Len(buffer))
      BY <1>0, <1>1, DecodeLength DEF Drain, Types
    <2>3. buffer' \in Seq(Byte)
      BY <1>0, <2>2 DEF Types
    <2>4. Types'
      BY <1>0, <2>1, <2>3 DEF Types, Byte
    <2> QED
      BY <2>1, <2>4
      DEF BufferInv, BufferBounded, PendingIsLoneEscape, PendingAtFirst, Parsing, Forced
  <1>2. CASE Drained
    <2>1. /\ pc' = "idle" /\ buffer' = <<>> /\ wire' = wire
          /\ buffer = <<>>
          /\ consumed' = consumed /\ consumed = 0
          /\ escapePending' = FALSE /\ expired' = FALSE
      BY <1>2 DEF Drained, PendingCleared, terminal, BufferInv
    <2>2. Types'
      BY <1>0, <2>1 DEF Types, Byte
    <2> QED
      BY <2>1, <2>2, ParserAssumption
      DEF BufferInv, BufferBounded, PendingIsLoneEscape, PendingAtFirst, Parsing, Forced
  <1> QED
    BY <1>1, <1>2

LEMMA CallersKeep ==
  ASSUME BufferInv,
         (\E k \in Keystrokes : Send(k)) \/ Feed \/ Elapse \/ FlushExpired
           \/ Flush \/ Reset
  PROVE  BufferInv'
  <1>0. Types
    BY DEF BufferInv
  <1>1. CASE \E k \in Keystrokes : Send(k)
    <2>1. PICK k \in Keystrokes : Send(k)
      BY <1>1
    <2>2. wire' \in Seq(Byte)
      BY <1>0, <2>1, ParserAssumption DEF Send, Types, Byte
    <2>3. /\ buffer' = buffer /\ consumed' = consumed /\ pc' = pc
          /\ escapePending' = escapePending /\ expired' = expired
      BY <2>1 DEF Send
    <2>4. Types'
      BY <1>0, <2>2, <2>3 DEF Types, Byte
    <2> QED
      BY <2>3, <2>4
      DEF BufferInv, BufferBounded, PendingIsLoneEscape, PendingAtFirst, Parsing, Forced
  <1>2. CASE Feed
    <2>1. PICK n \in 1 .. MaxPiece :
            /\ n <= Len(wire)
            /\ buffer' = buffer \o SubSeq(wire, 1, n)
            /\ wire' = SubSeq(wire, n + 1, Len(wire))
      BY <1>2 DEF Feed
    <2>2. n \in Nat /\ n >= 1
      BY <2>1, ParserAssumption
    <2>3. /\ pc = "idle" /\ pc' = "parse"
          /\ consumed' = consumed /\ consumed = 0
          /\ escapePending' = escapePending /\ expired' = expired
      BY <1>2 DEF Feed, BufferInv
    <2>4. buffer' \in Seq(Byte) /\ wire' \in Seq(Byte)
      BY <1>0, <2>1, <2>2 DEF Types
    <2>5. Types'
      BY <1>0, <2>3, <2>4 DEF Types, Byte
    <2>6. escapePending' => buffer' # <<>> /\ buffer'[1] = ESC
      <3>1. escapePending' => buffer = <<ESC>>
        BY <2>3 DEF BufferInv, PendingIsLoneEscape
      <3>2. SubSeq(wire, 1, n) \in Seq(Byte)
        BY <1>0, <2>1, <2>2 DEF Types
      <3>3. buffer = <<ESC>> => Len(buffer) = 1 /\ buffer[1] = ESC
        OBVIOUS
      <3>4. buffer \in Seq(Byte)
        BY <1>0 DEF Types
      <3>5. Len(buffer) = 1 => buffer' # <<>> /\ buffer'[1] = buffer[1]
        <4> DEFINE t == SubSeq(wire, 1, n)
        <4>1. Len(t) \in Nat /\ Len(buffer \o t) = Len(buffer) + Len(t)
          BY <3>2, <3>4, ConcatProperties
        <4>2. Len(buffer) = 1 => (buffer \o t)[1] = buffer[1]
          BY <3>2, <3>4, <4>1, ConcatProperties
        <4> QED
          BY <2>1, <4>1, <4>2
      <3> QED
        BY <3>1, <3>3, <3>5
    <2> QED
      BY <2>3, <2>5, <2>6
      DEF BufferInv, BufferBounded, PendingIsLoneEscape, PendingAtFirst
  <1>3. CASE Elapse
    <2>1. /\ buffer' = buffer /\ consumed' = consumed /\ pc' = pc /\ wire' = wire
          /\ escapePending' = escapePending /\ expired' = TRUE /\ escapePending
      BY <1>3 DEF Elapse, terminal
    <2>2. Types'
      BY <1>0, <2>1 DEF Types, Byte
    <2> QED
      BY <2>1, <2>2
      DEF BufferInv, BufferBounded, PendingIsLoneEscape, PendingAtFirst, Parsing, Forced
  <1>4. CASE FlushExpired
    <2>1. /\ pc = "idle" /\ pc' = "force" /\ wire' = wire
          /\ buffer' = buffer /\ consumed' = consumed /\ consumed = 0
          /\ escapePending' = escapePending /\ expired' = expired
      BY <1>4 DEF FlushExpired, terminal, BufferInv
    <2>2. Types'
      BY <1>0, <2>1 DEF Types, Byte
    <2>3. escapePending => buffer # <<>> /\ buffer[1] = ESC
      BY <2>1 DEF BufferInv, PendingIsLoneEscape
    <2> QED
      BY <2>1, <2>2, <2>3
      DEF BufferInv, BufferBounded, PendingIsLoneEscape, PendingAtFirst
  <1>5. CASE Flush
    <2>1. /\ pc = "idle" /\ pc' = "flush" /\ wire' = wire
          /\ buffer' = buffer /\ consumed' = consumed /\ consumed = 0
          /\ escapePending' = escapePending /\ expired' = expired
      BY <1>5 DEF Flush, terminal, BufferInv
    <2>2. Types'
      BY <1>0, <2>1 DEF Types, Byte
    <2>3. escapePending => buffer # <<>> /\ buffer[1] = ESC
      BY <2>1 DEF BufferInv, PendingIsLoneEscape
    <2> QED
      BY <2>1, <2>2, <2>3
      DEF BufferInv, BufferBounded, PendingIsLoneEscape, PendingAtFirst
  <1>6. CASE Reset
    <2>1. /\ pc = "idle" /\ pc' = "idle" /\ wire' = <<>>
          /\ buffer' = <<>> /\ consumed' = 0
          /\ escapePending' = FALSE /\ expired' = FALSE
      BY <1>6 DEF Reset, PendingCleared, BufferInv
    <2>2. Types'
      <3>1. buffer' \in Seq(Byte) /\ wire' \in Seq(Byte) /\ Len(buffer') = 0
        BY <2>1, EmptySequence, Zenon DEF Byte
      <3>2. /\ consumed' = 0
            /\ escapePending' \in BOOLEAN /\ expired' \in BOOLEAN
            /\ pc' \in {"idle", "parse", "force", "flush", "drain"}
        BY <2>1
      <3> QED
        BY <3>1, <3>2 DEF Types, Byte
    <2> QED
      BY <2>1, <2>2, ParserAssumption, EmptySequence
      DEF BufferInv, BufferBounded, PendingIsLoneEscape, PendingAtFirst, Parsing, Forced
  <1> QED
    BY <1>1, <1>2, <1>3, <1>4, <1>5, <1>6

LEMMA StutterKeeps ==
  ASSUME BufferInv, UNCHANGED vars
  PROVE  BufferInv'
  <1>1. /\ buffer' = buffer /\ consumed' = consumed /\ pc' = pc /\ wire' = wire
        /\ escapePending' = escapePending /\ expired' = expired
    BY DEF vars
  <1>2. Types'
    BY <1>1 DEF BufferInv, Types, Byte
  <1> QED
    BY <1>1, <1>2
    DEF BufferInv, BufferBounded, PendingIsLoneEscape, PendingAtFirst, Parsing, Forced

\* The buffer's invariant, for all input and every cut of it.
THEOREM BufferInvariant == Spec => []BufferInv
  <1>1. BufferInv /\ [Next]_vars => BufferInv'
    BY RoundsUseKeep, RoundsStopKeep, DrainKeeps, CallersKeep, StutterKeeps
    DEF Next, Round
  <1> QED
    BY InitBuffer, <1>1, PTL DEF Spec

\* Between two calls the buffer holds less than the longest sequence, whatever
\* the terminal sends (EscapeSequenceParser.cpp:388-402).
THEOREM BufferStaysBounded == Spec => []BufferBounded
  <1>1. BufferInv => BufferBounded
    BY DEF BufferInv
  <1> QED
    BY BufferInvariant, <1>1, PTL

\* The delay runs exactly while a lone Escape is kept
\* (EscapeSequenceParser.cpp:364-376), whatever the terminal sends.
THEOREM OnlyEscapeIsDelayed == Spec => []PendingIsLoneEscape
  <1>1. BufferInv => PendingIsLoneEscape
    BY DEF BufferInv
  <1> QED
    BY BufferInvariant, <1>1, PTL
-----------------------------------------------------------------------------
(* The types of all variables.                                             *)

\* Events, each of a kind with what goes with it.
Tagged(s) ==
  \E S : s \in Seq(S) /\ \A e \in S : IsEvent(e)

TypeInv ==
  /\ Tagged(events)
  /\ sent \in Seq(Keystrokes)
  /\ cut \in BOOLEAN

LEMMA TaggedConcat ==
  ASSUME NEW s, NEW t, Tagged(s), Tagged(t)
  PROVE  Tagged(s \o t)
  <1>1. PICK S : s \in Seq(S) /\ \A e \in S : IsEvent(e)
    BY DEF Tagged
  <1>2. PICK T : t \in Seq(T) /\ \A e \in T : IsEvent(e)
    BY DEF Tagged
  <1>3. s \in Seq(S \cup T) /\ t \in Seq(S \cup T)
    BY <1>1, <1>2
  <1>4. s \o t \in Seq(S \cup T)
    BY <1>3
  <1> QED
    BY <1>1, <1>2, <1>4 DEF Tagged

LEMMA TaggedNothing == Tagged(<< >>)
  <1> DEFINE S == {}
  <1>1. << >> \in Seq(S) /\ \A e \in S : IsEvent(e)
    OBVIOUS
  <1> HIDE DEF S
  <1> QED
    BY <1>1 DEF Tagged

\* What the rounds hand over is tagged.
LEMMA TaggedPulse ==
  ASSUME NEW k, IsKey(k), NEW m \in SUBSET Modifier
  PROVE  Tagged(Pulse(k, m))
  <1> DEFINE S == {KeyEvent("KeyDown", k, m), KeyEvent("KeyUp", k, m)}
  <1>1. Pulse(k, m) \in Seq(S)
    BY DEF Pulse
  <1>2. \A e \in S : IsEvent(e)
    BY DEF KeyEvent, IsEvent
  <1> HIDE DEF S
  <1> QED
    BY <1>1, <1>2 DEF Tagged

LEMMA TaggedFocus ==
  ASSUME NEW type \in {"FocusGained", "FocusLost"}
  PROVE  Tagged(Focus(type))
  <1> DEFINE S == {KeyEvent(type, <<"none">>, {})}
  <1>1. Focus(type) \in Seq(S)
    BY DEF Focus
  <1>2. \A e \in S : IsEvent(e)
    BY DEF KeyEvent, IsEvent
  <1> HIDE DEF S
  <1> QED
    BY <1>1, <1>2 DEF Tagged

LEMMA TaggedCharacter ==
  ASSUME NEW c \in Nat, IsScalar(c), NEW m \in SUBSET Modifier
  PROVE  Tagged(CharacterPulse(c, m))
  <1> DEFINE all == m \cup (IF IsShifted(c) THEN {"shift"} ELSE {})
             k == <<"character", c>>
             S == {KeyEvent("KeyDown", k, all), KeyEvent("KeyUp", k, all),
                   KeyEvent("Text", k, all)}
  <1>1. all \in SUBSET Modifier
    BY DEF Modifier
  <1>2. CharacterPulse(c, m) \in Seq(S)
    BY DEF CharacterPulse, Pulse
  <1>3. IsCharacter(k) /\ IsKey(k)
    BY DEF IsCharacter, IsKey
  <1>4. \A e \in S : IsEvent(e)
    <2> HIDE DEF all, k
    <2> QED
      BY <1>1, <1>3 DEF KeyEvent, IsEvent
  <1> HIDE DEF S
  <1> QED
    BY <1>2, <1>4 DEF Tagged

LEMMA TaggedEscape == Tagged(EscapePulse)
  <1>1. IsKey(<<"Escape">>) /\ {} \in SUBSET Modifier
    BY DEF IsKey
  <1> QED
    BY <1>1, TaggedPulse DEF EscapePulse

LEMMA TaggedControl ==
  ASSUME NEW b \in ControlBytes
  PROVE  Tagged(ControlPulse(b))
  <1>1. /\ {} \in SUBSET Modifier
        /\ {"control"} \cup (IF b \in {30, 31} THEN {"shift"} ELSE {}) \in SUBSET Modifier
    BY DEF Modifier
  <1>2. IsKey(<<"Enter">>) /\ IsKey(<<"Tab">>) /\ IsKey(<<"Backspace">>)
    BY DEF IsKey
  <1>3. b \notin {8, 9, 10, 13, 127} => IsKey(<<"control", b>>)
    BY DEF IsKey
  <1> QED
    BY <1>1, <1>2, <1>3, TaggedPulse DEF ControlPulse

LEMMA TaggedSs3 ==
  ASSUME NEW b
  PROVE  Tagged(ParseSs3(b))
  <1>1. {} \in SUBSET Modifier /\ (b \in KeyFinals => IsKey(<<"final", b>>))
    BY DEF IsKey
  <1> QED
    BY <1>1, TaggedPulse, TaggedNothing DEF ParseSs3

LEMMA TaggedCsi ==
  ASSUME NEW s
  PROVE  Tagged(ParseCsi(s))
  <1> DEFINE final == s[Len(s)]
             body == SubSeq(s, 3, Len(s) - 1)
             p == Parameters(body)
  <1>1. Modifiers(p[2]) \in SUBSET Modifier
    BY DEF Modifiers, Modifier
  <1>2. Tagged(Focus("FocusGained")) /\ Tagged(Focus("FocusLost"))
    BY TaggedFocus
  <1> HIDE DEF p, final, body
  <1>3. /\ p[1] \in TildeCodes => IsKey(<<"tilde", p[1]>>)
        /\ final \in KeyFinals => IsKey(<<"final", final>>)
    BY DEF IsKey
  <1>4. /\ p[1] \in TildeCodes => Tagged(Pulse(<<"tilde", p[1]>>, Modifiers(p[2])))
        /\ final \in KeyFinals => Tagged(Pulse(<<"final", final>>, Modifiers(p[2])))
    BY <1>1, <1>3, TaggedPulse
  <1> QED
    BY <1>2, <1>4, TaggedNothing DEF ParseCsi, p, final, body

LEMMA TypeInit == Init => TypeInv
  <1>1. << >> \in Seq(Keystrokes)
    OBVIOUS
  <1> QED
    BY <1>1, TaggedNothing DEF Init, TypeInv

LEMMA TypeNext == BufferInv /\ TypeInv /\ [Next]_vars => TypeInv'
  <1> SUFFICES ASSUME BufferInv, TypeInv, [Next]_vars PROVE TypeInv'
    OBVIOUS
  <1> USE DEF TypeInv
  <1>0. Types /\ Rest \in Seq(Byte) /\ buffer \in Seq(Byte)
    BY RestFacts DEF BufferInv, Types
  <1>1. {} \in SUBSET Modifier /\ {"alt"} \in SUBSET Modifier
    BY DEF Modifier
  <1>2. ASSUME NEW n, NEW pulses, Tagged(pulses), Use(n, pulses) PROVE TypeInv'
    BY <1>2, TaggedConcat DEF Use, terminal
  <1>3. CASE LoneEscape \/ CsiRecovered \/ EscapeRecovered
    BY <1>2, <1>3, TaggedEscape DEF LoneEscape, CsiRecovered, EscapeRecovered
  <1>4. CASE CsiSequence
    BY <1>2, <1>4, TaggedCsi DEF CsiSequence
  <1>5. CASE Ss3Sequence
    BY <1>2, <1>5, TaggedSs3 DEF Ss3Sequence
  <1>6. CASE AltCharacter
    <2>1. Tail(Rest) \in Seq(Byte)
      BY <1>0, <1>6, RestFacts DEF AltCharacter, AfterEscape, AtEscape
    <2>2. AltDecoded.character \in Nat /\ IsScalar(AltDecoded.character)
      BY <2>1, DecodeScalar DEF AltDecoded
    <2>3. Tagged(CharacterPulse(AltDecoded.character, {"alt"}))
      BY <1>1, <2>2, TaggedCharacter
    <2> QED
      BY <1>2, <1>6, <2>3 DEF AltCharacter
  <1>7. CASE ControlKey
    BY <1>2, <1>7, TaggedControl DEF ControlKey
  <1>8. CASE Character
    <2>1. Decoded.character \in Nat /\ IsScalar(Decoded.character)
      BY <1>0, DecodeScalar DEF Decoded
    <2>2. Tagged(CharacterPulse(Decoded.character, {}))
      BY <1>1, <2>1, TaggedCharacter
    <2> QED
      BY <1>2, <1>8, <2>2 DEF Character
  <1>9. CASE DelayEscape \/ CsiAwaited \/ SequenceAwaited \/ CharacterAwaited \/ Exhausted
    BY <1>9 DEF DelayEscape, CsiAwaited, SequenceAwaited, CharacterAwaited, Exhausted, Stop,
                terminal
  <1>10. CASE Drain
    <2> DEFINE c == DecodeNext(buffer).character
    <2>1. c \in Nat /\ IsScalar(c)
      BY <1>0, DecodeScalar
    <2>2. events' = events \o CharacterPulse(c, {})
      BY <1>10 DEF Drain
    <2> HIDE DEF c
    <2>3. Tagged(CharacterPulse(c, {}))
      BY <1>1, <2>1, TaggedCharacter
    <2> QED
      BY <1>10, <2>2, <2>3, TaggedConcat DEF Drain, terminal
  <1>11. CASE \E k \in Keystrokes : Send(k)
    BY <1>11 DEF Send
  <1>12. CASE Feed \/ Elapse \/ FlushExpired \/ Flush \/ Drained
    BY <1>12 DEF Feed, Elapse, FlushExpired, Flush, Drained, terminal
  <1>13. CASE Reset
    <2>1. << >> \in Seq(Keystrokes)
      OBVIOUS
    <2> QED
      BY <1>13, <2>1, TaggedNothing DEF Reset
  <1>14. CASE UNCHANGED vars
    BY <1>14 DEF vars
  <1> QED
    BY <1>3, <1>4, <1>5, <1>6, <1>7, <1>8, <1>9, <1>10, <1>11, <1>12, <1>13, <1>14
    DEF Next, Round

\* Every variable keeps its type, and every event is of one of its kinds, with
\* a key or a character that the parser knows; between two calls nothing of the
\* buffer is used, and a parse never uses more bytes than there are.
THEOREM TypeCorrect == Spec => []TypeOK
  <1>1. BufferInv /\ TypeInv => TypeOK
    <2> SUFFICES ASSUME BufferInv, TypeInv PROVE TypeOK
      OBVIOUS
    <2>1. consumed \in 0 .. Len(buffer)
      BY DEF BufferInv, Types
    <2>2. \A i \in DOMAIN events : IsEvent(events[i])
      BY DEF TypeInv, Tagged
    <2> QED
      BY <2>1, <2>2 DEF BufferInv, Types, TypeInv, TypeOK, Byte
  <1>2. Spec => []TypeInv
    BY BufferInvariant, TypeInit, TypeNext, PTL DEF Spec
  <1> QED
    BY <1>1, <1>2, BufferInvariant, PTL
-----------------------------------------------------------------------------
(* The same bytes say the same, however they are cut: tokens.              *)

AtCsi(s) == s[1] = ESC /\ Len(s) > 1 /\ s[2] = 91
AtSs3(s) == s[1] = ESC /\ Len(s) > 1 /\ s[2] = 79
AtAlt(s) == s[1] = ESC /\ Len(s) > 1 /\ s[2] \notin {79, 91}
AtPlain(s) == s[1] \notin ControlBytes \cup {ESC}

\* A few facts about numbers.
LEMMA OneOrMore == \A n \in Nat : (n >= 1 => n = 1 \/ n > 1) /\ (n > 1 => n = 2 \/ n > 2)
  OBVIOUS

LEMMA Within ==
  ASSUME NEW n \in Nat
  PROVE  \A m \in Nat : \A i \in 3 .. m : i <= n => i \in 1 .. n
  OBVIOUS

\* Where a CSI sequence may end, and where it ends.
Ending(s, i) == i \in 3 .. MaxSequence /\ i <= Len(s) /\ s[i] \in 64 .. 126
Ends(s, n) == Ending(s, n) /\ \A i \in Nat : Ending(s, i) => n <= i
Closed(s) == {n \in 3 .. MaxSequence : Ends(s, n)}

LEMMA ClosedAt ==
  ASSUME NEW s \in Seq(Byte), NEW n, Ends(s, n)
  PROVE  n \in Nat /\ Closed(s) = {n} /\ (CHOOSE i \in Closed(s) : TRUE) = n
<1>1. n \in Nat /\ n \in 3 .. MaxSequence
  BY ParserAssumption DEF Ends, Ending
<1>2. Closed(s) = {n}
  BY <1>1, ParserAssumption DEF Closed, Ends, Ending
<1>3. \A i : i \in Closed(s) <=> i = n
  BY <1>2
<1>4. (CHOOSE i \in Closed(s) : TRUE) \in Closed(s)
  BY <1>2, Zenon
<1> QED BY <1>1, <1>2, <1>4

\* What FirstToken() finds, case by case.
LEMMA TokenCases ==
  ASSUME NEW s \in Seq(Byte), s # << >>
  PROVE  /\ s[1] \in ControlBytes => FirstToken(s) = Token(1, ControlPulse(s[1]))
         /\ \A n : AtCsi(s) /\ Ends(s, n) => FirstToken(s) = Token(n, ParseCsi(SubSeq(s, 1, n)))
         /\ AtCsi(s) /\ Closed(s) = {} /\ Len(s) >= MaxSequence =>
              FirstToken(s) = Token(1, EscapePulse)
         /\ AtCsi(s) /\ Closed(s) = {} /\ Len(s) < MaxSequence => FirstToken(s) = Unclear
         /\ AtSs3(s) /\ Len(s) > 2 => FirstToken(s) = Token(3, ParseSs3(s[3]))
         /\ AtSs3(s) /\ Len(s) = 2 => FirstToken(s) = Unclear
         /\ AtAlt(s) /\ DecodeNext(Tail(s)).complete =>
              FirstToken(s) = Token(1 + DecodeNext(Tail(s)).length,
                                    CharacterPulse(DecodeNext(Tail(s)).character, {"alt"}))
         /\ AtAlt(s) /\ ~DecodeNext(Tail(s)).complete => FirstToken(s) = Unclear
         /\ s[1] = ESC /\ Len(s) = 1 => FirstToken(s) = Unclear
         /\ AtPlain(s) /\ DecodeNext(s).complete =>
              FirstToken(s) = Token(DecodeNext(s).length,
                                    CharacterPulse(DecodeNext(s).character, {}))
         /\ AtPlain(s) /\ ~DecodeNext(s).complete => FirstToken(s) = Unclear
<1> DEFINE second == IF Len(s) > 1 THEN s[2] ELSE -1
           alt == DecodeNext(Tail(s))
           plain == DecodeNext(s)
           body == {i \in 3 .. MaxSequence : i <= Len(s)}
           closed == {i \in body : s[i] \in 64 .. 126 /\ \A j \in body : s[j] \in 64 .. 126 => i <= j}
           n == CHOOSE i \in closed : TRUE
           csi == Token(n, ParseCsi(SubSeq(s, 1, n)))
<1>0. Len(s) \in Nat /\ Len(s) >= 1 /\ s[1] \in Byte /\ (Len(s) > 1 => s[2] \in Byte)
      /\ MaxSequence \in Nat
  BY ParserAssumption
<1>1. FirstToken(s) =
        CASE s[1] \in ControlBytes -> Token(1, ControlPulse(s[1]))
          [] s[1] = ESC /\ second = 91 /\ closed # {} -> csi
          [] s[1] = ESC /\ second = 91 /\ closed = {} /\ Len(s) >= MaxSequence ->
               Token(1, EscapePulse)
          [] s[1] = ESC /\ second = 79 /\ Len(s) > 2 -> Token(3, ParseSs3(s[3]))
          [] s[1] = ESC /\ second \notin {-1, 79, 91} /\ alt.complete ->
               Token(1 + alt.length, CharacterPulse(alt.character, {"alt"}))
          [] s[1] \notin ControlBytes \cup {ESC} /\ plain.complete ->
               Token(plain.length, CharacterPulse(plain.character, {}))
          [] OTHER -> Unclear
  BY DEF FirstToken
<1>2. closed = Closed(s)
  BY <1>0 DEF Closed, Ends, Ending
<1>3. ESC \notin ControlBytes
  BY DEF ESC, ControlBytes
<1>4. /\ second = 91 <=> Len(s) > 1 /\ s[2] = 91
      /\ second = 79 <=> Len(s) > 1 /\ s[2] = 79
      /\ second \notin {-1, 79, 91} <=> Len(s) > 1 /\ s[2] \notin {79, 91}
  BY <1>0, ByteIsNat
<1>5. ASSUME NEW m, Ends(s, m)
      PROVE  closed # {} /\ csi = Token(m, ParseCsi(SubSeq(s, 1, m)))
  <2>1. Closed(s) = {m} /\ (CHOOSE i \in Closed(s) : TRUE) = m
    BY <1>5, ClosedAt
  <2> QED BY <1>2, <2>1
<1> DEFINE t == FirstToken(s)
<1> HIDE DEF second, alt, plain, closed, csi, t
<1>6. s[1] \in ControlBytes => FirstToken(s) = Token(1, ControlPulse(s[1]))
  BY <1>1, <1>3, Zenon
<1>7. s[1] = ESC =>
        FirstToken(s) =
          CASE second = 91 /\ closed # {} -> csi
            [] second = 91 /\ closed = {} /\ Len(s) >= MaxSequence -> Token(1, EscapePulse)
            [] second = 79 /\ Len(s) > 2 -> Token(3, ParseSs3(s[3]))
            [] second \notin {-1, 79, 91} /\ alt.complete ->
                 Token(1 + alt.length, CharacterPulse(alt.character, {"alt"}))
            [] OTHER -> Unclear
  BY <1>1, <1>3
<1>8. AtPlain(s) =>
        FirstToken(s) = IF plain.complete
                        THEN Token(plain.length, CharacterPulse(plain.character, {}))
                        ELSE Unclear
  BY <1>1 DEF AtPlain
<1>9. \A m : AtCsi(s) /\ Ends(s, m) => FirstToken(s) = Token(m, ParseCsi(SubSeq(s, 1, m)))
  BY <1>4, <1>5, <1>7 DEF AtCsi
<1>10. AtCsi(s) /\ Closed(s) = {} =>
         FirstToken(s) = IF Len(s) >= MaxSequence THEN Token(1, EscapePulse) ELSE Unclear
  BY <1>2, <1>4, <1>7 DEF AtCsi
<1>11. AtSs3(s) => FirstToken(s) = IF Len(s) > 2 THEN Token(3, ParseSs3(s[3])) ELSE Unclear
  BY <1>4, <1>7 DEF AtSs3
<1>12. AtAlt(s) =>
         FirstToken(s) = IF alt.complete
                         THEN Token(1 + alt.length, CharacterPulse(alt.character, {"alt"}))
                         ELSE Unclear
  BY <1>4, <1>7 DEF AtAlt
<1>13. s[1] = ESC /\ Len(s) = 1 => FirstToken(s) = Unclear
  <2>1. Len(s) = 1 => second = -1
    BY DEF second
  <2> QED BY <1>7, <2>1
<1> QED BY <1>0, <1>6, <1>8, <1>9, <1>10, <1>11, <1>12, <1>13 DEF alt, plain

LEMMA TokenForms ==
  /\ \A n, e : Token(n, e).length = n /\ Token(n, e).events = e
  /\ Unclear.length = 0 /\ Unclear.events = << >>
  BY DEF Token, Unclear

\* A series begins in one of these ways.
LEMMA Beginnings ==
  ASSUME NEW s \in Seq(Byte), s # << >>
  PROVE  /\ Len(s) \in Nat /\ Len(s) >= 1 /\ s[1] \in Byte
         /\ s[1] \in ControlBytes \/ AtCsi(s) \/ AtSs3(s) \/ AtAlt(s)
              \/ (s[1] = ESC /\ Len(s) = 1) \/ AtPlain(s)
         /\ AtCsi(s) => Closed(s) = {} \/ \E n : Ends(s, n)
         /\ Tail(s) \in Seq(Byte) /\ Len(Tail(s)) = Len(s) - 1
<1>1. Len(s) \in Nat /\ Len(s) >= 1 /\ s[1] \in Byte
  OBVIOUS
<1>2. Tail(s) \in Seq(Byte) /\ Len(Tail(s)) = Len(s) - 1
  OBVIOUS
<1>3. s[1] \in ControlBytes \/ AtCsi(s) \/ AtSs3(s) \/ AtAlt(s)
              \/ (s[1] = ESC /\ Len(s) = 1) \/ AtPlain(s)
  <2>1. CASE s[1] = ESC
    <3>1. Len(s) = 1 \/ Len(s) > 1
      BY <1>1, OneOrMore, Zenon
    <3>2. s[2] = 91 \/ s[2] = 79 \/ s[2] \notin {79, 91}
      OBVIOUS
    <3> QED BY <2>1, <3>1, <3>2 DEF AtCsi, AtSs3, AtAlt
  <2>2. CASE s[1] # ESC
    BY <2>2 DEF AtPlain
  <2> QED BY <2>1, <2>2
<1>4. Closed(s) = {} \/ \E n : Ends(s, n)
  BY DEF Closed
<1> QED BY <1>1, <1>2, <1>3, <1>4

\* A token uses bytes that are there.
LEMMA TokenLength ==
  ASSUME NEW s \in Seq(Byte), s # << >>
  PROVE  FirstToken(s).length \in Nat /\ FirstToken(s).length <= Len(s)
<1>0. Len(s) \in Nat /\ Len(s) >= 1 /\ Tail(s) \in Seq(Byte) /\ Len(Tail(s)) = Len(s) - 1
  BY Beginnings
<1>1. CASE s[1] \in ControlBytes
  BY <1>0, <1>1, TokenCases, TokenForms
<1>2. CASE AtCsi(s)
  <2>1. CASE \E n : Ends(s, n)
    <3>1. PICK n : Ends(s, n)
      BY <2>1
    <3>2. n \in Nat /\ n <= Len(s)
      BY <3>1, ClosedAt DEF Ends, Ending
    <3>3. FirstToken(s) = Token(n, ParseCsi(SubSeq(s, 1, n)))
      BY <1>2, <3>1, TokenCases
    <3> QED BY <3>2, <3>3, TokenForms
  <2>2. CASE Closed(s) = {}
    <3>1. FirstToken(s) = Token(1, EscapePulse) \/ FirstToken(s) = Unclear
      BY <1>0, <1>2, <2>2, TokenCases, ParserAssumption
    <3> QED BY <1>0, <3>1, TokenForms
  <2> QED BY <1>2, <2>1, <2>2, Beginnings
<1>3. CASE AtSs3(s)
  <2>1. CASE Len(s) > 2
    <3>1. FirstToken(s) = Token(3, ParseSs3(s[3]))
      BY <1>3, <2>1, TokenCases
    <3> QED BY <1>0, <2>1, <3>1, TokenForms
  <2>2. CASE ~(Len(s) > 2)
    <3>1. Len(s) = 2
      BY <1>0, <1>3, <2>2 DEF AtSs3
    <3>2. FirstToken(s) = Unclear
      BY <1>3, <3>1, TokenCases
    <3> QED BY <1>0, <3>2, TokenForms
  <2> QED BY <2>1, <2>2
<1>4. CASE AtAlt(s)
  <2> DEFINE d == DecodeNext(Tail(s))
  <2>1. CASE d.complete
    <3>1. d.length \in 1 .. Len(Tail(s))
      BY <1>0, <2>1, DecodeLength
    <3>2. FirstToken(s) = Token(1 + d.length, CharacterPulse(d.character, {"alt"}))
      BY <1>4, <2>1, TokenCases
    <3>3. FirstToken(s).length = 1 + d.length
      BY <3>2, TokenForms
    <3> HIDE DEF d
    <3> QED BY <1>0, <3>1, <3>3
  <2>2. CASE ~d.complete
    <3>1. FirstToken(s) = Unclear
      BY <1>4, <2>2, TokenCases
    <3> QED BY <1>0, <3>1, TokenForms
  <2> QED BY <2>1, <2>2
<1>5. CASE s[1] = ESC /\ Len(s) = 1
  BY <1>0, <1>5, TokenCases, TokenForms
<1>6. CASE AtPlain(s)
  <2> DEFINE d == DecodeNext(s)
  <2>1. CASE d.complete
    <3>1. d.length \in 1 .. Len(s)
      BY <1>0, <2>1, DecodeLength
    <3>2. FirstToken(s) = Token(d.length, CharacterPulse(d.character, {}))
      BY <1>6, <2>1, TokenCases
    <3>3. FirstToken(s).length = d.length
      BY <3>2, TokenForms
    <3> HIDE DEF d
    <3> QED BY <1>0, <3>1, <3>3
  <2>2. CASE ~d.complete
    <3>1. FirstToken(s) = Unclear
      BY <1>6, <2>2, TokenCases
    <3> QED BY <1>0, <3>1, TokenForms
  <2> QED BY <2>1, <2>2
<1> QED BY <1>1, <1>2, <1>3, <1>4, <1>5, <1>6, Beginnings

\* A token, once it is there, does not change with the bytes that follow.
LEMMA TokenStable ==
  ASSUME NEW s \in Seq(Byte), NEW t \in Seq(Byte), s # << >>, Starts(t, s),
         FirstToken(s).length # 0
  PROVE  t # << >> /\ FirstToken(t) = FirstToken(s)
<1>0. /\ Len(s) \in Nat /\ Len(t) \in Nat /\ Len(s) <= Len(t) /\ Len(s) >= 1
      /\ \A i \in 1 .. Len(s) : t[i] = s[i]
  BY StartsWith, Beginnings
<1>1. t # << >> /\ t[1] = s[1] /\ (Len(s) > 1 => t[2] = s[2] /\ Len(t) > 1)
  BY <1>0
<1>2. CASE s[1] \in ControlBytes
  BY <1>1, <1>2, TokenCases
<1>3. CASE AtCsi(s)
  <2>1. AtCsi(t)
    BY <1>1, <1>3 DEF AtCsi
  <2>2. \A i \in Nat : Ending(s, i) => Ending(t, i)
    <3> SUFFICES ASSUME NEW i \in Nat, Ending(s, i) PROVE Ending(t, i)
      OBVIOUS
    <3>1. i \in 3 .. MaxSequence /\ i <= Len(s)
      BY DEF Ending
    <3>2. i \in 1 .. Len(s)
      BY <1>0, <3>1, Within, ParserAssumption, Zenon
    <3>3. t[i] = s[i] /\ i <= Len(t)
      <4>1. \A a, b, c \in Nat : a <= b /\ b <= c => a <= c
        OBVIOUS
      <4> QED BY <1>0, <3>1, <3>2, <4>1, Zenon
    <3> QED BY <3>1, <3>3 DEF Ending
  <2>3. ASSUME NEW i \in Nat, i <= Len(s), Ending(t, i) PROVE Ending(s, i)
    <3>1. i \in 3 .. MaxSequence
      BY <2>3 DEF Ending
    <3>2. i \in 1 .. Len(s)
      BY <1>0, <2>3, <3>1, Within, ParserAssumption, Zenon
    <3>3. t[i] = s[i]
      BY <1>0, <3>2, Zenon
    <3> QED BY <2>3, <3>1, <3>3 DEF Ending
  <2>4. CASE \E n : Ends(s, n)
    <3>1. PICK n : Ends(s, n)
      BY <2>4
    <3>2. n \in Nat /\ Ending(s, n) /\ n <= Len(s)
      BY <3>1, ClosedAt DEF Ends, Ending
    <3>3. Ends(t, n)
      <4>1. ASSUME NEW i \in Nat, Ending(t, i) PROVE n <= i
        <5>1. CASE i <= Len(s)
          BY <2>3, <3>1, <4>1, <5>1 DEF Ends
        <5>2. CASE ~(i <= Len(s))
          BY <1>0, <3>2, <5>2
        <5> QED BY <5>1, <5>2
      <4> QED BY <2>2, <3>2, <4>1 DEF Ends
    <3>4. SubSeq(t, 1, n) = SubSeq(s, 1, n)
      <4> DEFINE p == SubSeq(t, 1, n)
                 q == SubSeq(s, 1, n)
      <4>1. /\ p \in Seq(Byte) /\ q \in Seq(Byte) /\ Len(p) = n /\ Len(q) = n
            /\ \A i \in 1 .. n : p[i] = t[i] /\ q[i] = s[i]
        BY <1>0, <3>2
      <4> HIDE DEF p, q
      <4>2. \A i \in 1 .. Len(p) : p[i] = q[i]
        BY <1>0, <3>2, <4>1
      <4>3. p = q
        BY <4>1, <4>2, SeqEqual
      <4> QED BY <4>3 DEF p, q
    <3>5. FirstToken(s) = Token(n, ParseCsi(SubSeq(s, 1, n)))
      BY <1>3, <3>1, TokenCases
    <3>6. FirstToken(t) = Token(n, ParseCsi(SubSeq(t, 1, n)))
      BY <1>1, <2>1, <3>3, TokenCases
    <3> QED BY <1>1, <3>4, <3>5, <3>6
  <2>5. CASE Closed(s) = {}
    <3>1. Len(s) >= MaxSequence
      BY <1>0, <1>3, <2>5, TokenCases, TokenForms, ParserAssumption
    <3>2. \A i \in Nat : Ending(t, i) <=> Ending(s, i)
      BY <1>0, <2>2, <2>3, <3>1, ParserAssumption DEF Ending
    <3>3. Closed(t) = {}
      <4>1. ASSUME NEW n \in 3 .. MaxSequence, Ends(t, n) PROVE Ends(s, n)
        <5>1. n \in Nat
          BY ParserAssumption
        <5> QED BY <3>2, <4>1, <5>1 DEF Ends
      <4> QED BY <2>5, <4>1 DEF Closed
    <3>4. Len(t) >= MaxSequence
      BY <1>0, <3>1, ParserAssumption
    <3> QED BY <1>1, <1>3, <2>1, <2>5, <3>1, <3>3, <3>4, TokenCases
  <2> QED BY <1>3, <2>4, <2>5, Beginnings
<1>4. CASE AtSs3(s)
  <2>1. Len(s) > 2
    <3>1. Len(s) = 2 => FirstToken(s) = Unclear
      BY <1>4, TokenCases
    <3>2. Len(s) # 2
      BY <3>1, TokenForms
    <3>3. Len(s) > 1
      BY <1>4 DEF AtSs3
    <3> QED BY <1>0, <3>2, <3>3, OneOrMore, Zenon
  <2>2. AtSs3(t) /\ Len(t) > 2 /\ t[3] = s[3]
    BY <1>0, <1>1, <1>4, <2>1 DEF AtSs3
  <2> QED BY <1>1, <1>4, <2>1, <2>2, TokenCases
<1>5. CASE AtAlt(s)
  <2>1. DecodeNext(Tail(s)).complete
    BY <1>5, TokenCases, TokenForms
  <2>2. AtAlt(t)
    BY <1>1, <1>5 DEF AtAlt
  <2>3. Tail(s) \in Seq(Byte) /\ Tail(t) \in Seq(Byte) /\ Starts(Tail(t), Tail(s))
    <3> DEFINE p == Tail(s)
               q == Tail(t)
    <3>1. /\ p \in Seq(Byte) /\ q \in Seq(Byte) /\ Len(p) = Len(s) - 1 /\ Len(q) = Len(t) - 1
          /\ \A i \in 1 .. Len(s) - 1 : p[i] = s[i + 1]
          /\ \A i \in 1 .. Len(t) - 1 : q[i] = t[i + 1]
      BY <1>0, <1>1
    <3> HIDE DEF p, q
    <3>2. \A i \in 1 .. Len(p) : q[i] = p[i]
      BY <1>0, <3>1
    <3>3. Starts(q, p)
      BY <1>0, <3>1, <3>2, StartsWith
    <3> QED BY <3>1, <3>3 DEF p, q
  <2>4. DecodeNext(Tail(t)) = DecodeNext(Tail(s))
    BY <2>1, <2>3, DecodeStable
  <2> QED BY <1>1, <1>5, <2>1, <2>2, <2>4, TokenCases
<1>6. CASE s[1] = ESC /\ Len(s) = 1
  BY <1>6, TokenCases, TokenForms
<1>7. CASE AtPlain(s)
  <2>1. DecodeNext(s).complete
    BY <1>7, TokenCases, TokenForms
  <2>2. DecodeNext(t) = DecodeNext(s)
    BY <2>1, DecodeStable
  <2>3. AtPlain(t)
    BY <1>1, <1>7 DEF AtPlain
  <2> QED BY <1>1, <1>7, <2>1, <2>2, <2>3, TokenCases
<1> QED BY <1>2, <1>3, <1>4, <1>5, <1>6, <1>7, Beginnings

\* Its events are key presses and releases, text and focus reports.
LEMMA TokenTagged ==
  ASSUME NEW s \in Seq(Byte), s # << >>
  PROVE  Tagged(FirstToken(s).events)
<1>0. {} \in SUBSET Modifier /\ {"alt"} \in SUBSET Modifier /\ Tagged(Unclear.events)
  BY TaggedNothing, TokenForms DEF Modifier
<1>1. CASE s[1] \in ControlBytes
  BY <1>1, TokenCases, TokenForms, TaggedControl
<1>2. CASE AtCsi(s)
  <2>1. CASE \E n : Ends(s, n)
    <3>1. PICK n : Ends(s, n)
      BY <2>1
    <3>2. FirstToken(s) = Token(n, ParseCsi(SubSeq(s, 1, n)))
      BY <1>2, <3>1, TokenCases
    <3> QED BY <3>2, TokenForms, TaggedCsi
  <2>2. CASE Closed(s) = {}
    <3>1. FirstToken(s) = Token(1, EscapePulse) \/ FirstToken(s) = Unclear
      BY <1>2, <2>2, TokenCases, ParserAssumption
    <3> QED BY <1>0, <3>1, TaggedEscape, TokenForms
  <2> QED BY <1>2, <2>1, <2>2, Beginnings
<1>3. CASE AtSs3(s)
  <2>1. FirstToken(s) = Token(3, ParseSs3(s[3])) \/ FirstToken(s) = Unclear
    <3>1. Len(s) > 2 \/ Len(s) = 2
      <4>1. Len(s) \in Nat
        BY Beginnings
      <4>2. Len(s) > 1
        BY <1>3 DEF AtSs3
      <4> QED BY <4>1, <4>2, OneOrMore, Zenon
    <3> QED BY <1>3, <3>1, TokenCases
  <2> QED BY <1>0, <2>1, TokenForms, TaggedSs3
<1>4. CASE AtAlt(s)
  <2>1. \/ FirstToken(s) = Unclear
        \/ FirstToken(s) = Token(1 + DecodeNext(Tail(s)).length,
                                 CharacterPulse(DecodeNext(Tail(s)).character, {"alt"}))
    BY <1>4, TokenCases
  <2>2. Tail(s) \in Seq(Byte)
    OBVIOUS
  <2>3. DecodeNext(Tail(s)).character \in Nat /\ IsScalar(DecodeNext(Tail(s)).character)
    BY <2>2, DecodeScalar
  <2>4. Tagged(CharacterPulse(DecodeNext(Tail(s)).character, {"alt"}))
    BY <1>0, <2>3, TaggedCharacter
  <2> QED BY <1>0, <2>1, <2>4, TokenForms
<1>5. CASE s[1] = ESC /\ Len(s) = 1
  BY <1>0, <1>5, TokenCases
<1>6. CASE AtPlain(s)
  <2>1. \/ FirstToken(s) = Unclear
        \/ FirstToken(s) = Token(DecodeNext(s).length, CharacterPulse(DecodeNext(s).character, {}))
    BY <1>6, TokenCases
  <2>2. DecodeNext(s).character \in Nat /\ IsScalar(DecodeNext(s).character)
    BY DecodeScalar
  <2>3. Tagged(CharacterPulse(DecodeNext(s).character, {}))
    BY <1>0, <2>2, TaggedCharacter
  <2> QED BY <1>0, <2>1, <2>3, TokenForms
<1> QED BY <1>1, <1>2, <1>3, <1>4, <1>5, <1>6, Beginnings
-----------------------------------------------------------------------------
(* The same bytes say the same, however they are cut: series of tokens.    *)

EventsOf(s) == {FirstToken(s).events[i] : i \in DOMAIN FirstToken(s).events}
Event == UNION {EventsOf(s) : s \in Seq(Byte) \ {<< >>}}

\* What a series of bytes comes to: events, and the bytes that are kept.
Outcome == [events : Seq(Event), rest : Seq(Byte)]
Nothing(s) == [events |-> << >>, rest |-> s]
Behind(e, r) == [r EXCEPT !.events = e \o @]

TokenOf(s) == IF s = << >> THEN Unclear ELSE FirstToken(s)

LEMMA EventsTyped ==
  ASSUME NEW s \in Seq(Byte)
  PROVE  /\ TokenOf(s).events \in Seq(Event)
         /\ TokenOf(s).length \in Nat /\ TokenOf(s).length <= Len(s)
<1>1. CASE s = << >>
  <2>1. << >> \in Seq(Event) /\ Len(s) = 0
    BY <1>1
  <2>2. TokenOf(s).length = 0 /\ TokenOf(s).events = << >>
    BY <1>1, TokenForms DEF TokenOf
  <2> QED BY <2>1, <2>2
<1>2. CASE s # << >>
  <2> DEFINE e == FirstToken(s).events
  <2>1. PICK S : e \in Seq(S)
    BY <1>2, TokenTagged DEF Tagged
  <2>2. EventsOf(s) \subseteq Event
    BY <1>2 DEF Event
  <2>3. \A i \in DOMAIN e : e[i] \in EventsOf(s)
    BY DEF EventsOf
  <2> HIDE DEF e
  <2>4. Len(e) \in Nat /\ DOMAIN e = 1 .. Len(e) /\ e = [i \in 1 .. Len(e) |-> e[i]]
    BY <2>1
  <2>5. e \in Seq(Event)
    BY <2>2, <2>3, <2>4
  <2> QED BY <1>2, <2>5, TokenLength DEF TokenOf, e
<1> QED BY <1>1, <1>2

LEMMA OutcomeForms ==
  /\ \A s \in Seq(Byte) : /\ Nothing(s) \in Outcome
                          /\ Nothing(s).events = << >> /\ Nothing(s).rest = s
  /\ \A e \in Seq(Event), r \in Outcome :
       /\ Behind(e, r) \in Outcome
       /\ Behind(e, r).events = e \o r.events /\ Behind(e, r).rest = r.rest
  /\ \A r \in Outcome : r.events \in Seq(Event) /\ r.rest \in Seq(Byte)
  /\ \A q \in Outcome, r \in Outcome : q.events = r.events /\ q.rest = r.rest => q = r
<1>1. ASSUME NEW s \in Seq(Byte)
      PROVE  Nothing(s) \in Outcome /\ Nothing(s).events = << >> /\ Nothing(s).rest = s
  BY DEF Nothing, Outcome
<1>2. ASSUME NEW e \in Seq(Event), NEW r \in Outcome
      PROVE  /\ Behind(e, r) \in Outcome
             /\ Behind(e, r).events = e \o r.events /\ Behind(e, r).rest = r.rest
  <2>1. e \o r.events \in Seq(Event)
    BY DEF Outcome
  <2> QED BY <2>1 DEF Behind, Outcome
<1>3. \A r \in Outcome : r.events \in Seq(Event) /\ r.rest \in Seq(Byte)
  BY DEF Outcome
<1>4. \A q \in Outcome, r \in Outcome : q.events = r.events /\ q.rest = r.rest => q = r
  BY DEF Outcome
<1> QED BY <1>1, <1>2, <1>3, <1>4

LEMMA BehindTwice ==
  ASSUME NEW d \in Seq(Event), NEW e \in Seq(Event), NEW r \in Outcome
  PROVE  Behind(d, Behind(e, r)) = Behind(d \o e, r) /\ d \o e \in Seq(Event)
<1>1. d \o e \in Seq(Event)
  OBVIOUS
<1>2. d \o (e \o r.events) = (d \o e) \o r.events
  <2>1. r.events \in Seq(Event)
    BY OutcomeForms
  <2> DEFINE f == r.events
  <2>2. f \in Seq(Event)
    BY <2>1
  <2> HIDE DEF f
  <2>3. d \o (e \o f) = (d \o e) \o f
    BY <2>2
  <2> QED BY <2>3 DEF f
<1>3. Behind(e, r) \in Outcome /\ Behind(e, r).events = e \o r.events /\ Behind(e, r).rest = r.rest
  BY OutcomeForms
<1> DEFINE b == Behind(e, r)
           p == Behind(d, b)
           f == d \o e
           q == Behind(f, r)
<1>4. p \in Outcome /\ p.events = d \o b.events /\ p.rest = b.rest
  <2> HIDE DEF b
  <2>1. b \in Outcome
    BY <1>3 DEF b
  <2> QED BY <2>1, OutcomeForms
<1>5. q \in Outcome /\ q.events = f \o r.events /\ q.rest = r.rest
  <2>1. f \in Seq(Event)
    BY <1>1
  <2> HIDE DEF f
  <2> QED BY <2>1, OutcomeForms
<1>6. p.events = q.events /\ p.rest = q.rest
  <2> HIDE DEF p, q
  <2> QED BY <1>2, <1>3, <1>4, <1>5
<1> HIDE DEF p, q
<1>7. p = q
  BY <1>4, <1>5, <1>6, OutcomeForms, Zenon
<1> QED BY <1>1, <1>7 DEF p, q

LEMMA BehindNothing ==
  ASSUME NEW e \in Seq(Event), NEW r \in Outcome, NEW s \in Seq(Byte)
  PROVE  /\ Behind(<< >>, r) = r
         /\ Behind(e, Nothing(s)).events = e /\ Behind(e, Nothing(s)).rest = s
<1>1. << >> \in Seq(Event) /\ e \o << >> = e
  OBVIOUS
<1>2. << >> \o r.events = r.events
  <2>1. \A f \in Seq(Event) : << >> \o f = f
    OBVIOUS
  <2> QED BY <2>1, OutcomeForms
<1>3. Behind(<< >>, r) = r
  <2> DEFINE q == Behind(<< >>, r)
  <2>1. q \in Outcome /\ q.events = << >> \o r.events /\ q.rest = r.rest
    BY <1>1, OutcomeForms
  <2> HIDE DEF q
  <2>2. q.events = r.events
    BY <1>2, <2>1
  <2>3. q = r
    BY <2>1, <2>2, OutcomeForms, Zenon
  <2> QED BY <2>3 DEF q
<1>4. Behind(e, Nothing(s)).events = e /\ Behind(e, Nothing(s)).rest = s
  <2> DEFINE r0 == Nothing(s)
  <2>1. r0 \in Outcome /\ r0.events = << >> /\ r0.rest = s
    BY OutcomeForms
  <2> HIDE DEF r0
  <2>2. Behind(e, r0).events = e \o r0.events /\ Behind(e, r0).rest = r0.rest
    BY <2>1, OutcomeForms
  <2>3. Behind(e, r0).events = e /\ Behind(e, r0).rest = s
    BY <1>1, <2>1, <2>2
  <2> QED BY <2>3 DEF r0
<1> QED BY <1>3, <1>4

Tokens == [s \in Seq(Byte) |-> IF TokenOf(s).length = 0 THEN 1 ELSE TokenOf(s).length]
Yielding == [p \in Seq(Byte) \X Outcome |->
               IF TokenOf(p[1]).length = 0 THEN Nothing(p[1])
               ELSE Behind(TokenOf(p[1]).events, p[2])]

LEMMA TokensTyped ==
  Eats(Tokens, Byte) /\ Yielding \in [Seq(Byte) \X Outcome -> Outcome]
<1>1. ASSUME NEW s \in Seq(Byte)
      PROVE  /\ Tokens[s] \in Nat
             /\ s # << >> => Tokens[s] >= 1 /\ Tokens[s] <= Len(s)
  <2>1. TokenOf(s).length \in Nat /\ TokenOf(s).length <= Len(s)
    BY EventsTyped
  <2>2. Len(s) \in Nat /\ (s # << >> => 1 <= Len(s))
    OBVIOUS
  <2>3. Tokens[s] = IF TokenOf(s).length = 0 THEN 1 ELSE TokenOf(s).length
    BY DEF Tokens
  <2> QED BY <2>1, <2>2, <2>3
<1>2. ASSUME NEW s \in Seq(Byte), NEW r \in Outcome
      PROVE  Nothing(s) \in Outcome /\ Behind(TokenOf(s).events, r) \in Outcome
  BY EventsTyped, OutcomeForms
<1>3. Tokens \in [Seq(Byte) -> Nat]
  BY <1>1 DEF Tokens
<1> QED BY <1>1, <1>2, <1>3 DEF Eats, Yielding

LEMMA WholeScans ==
  ASSUME NEW t \in Seq(Byte)
  PROVE  \E f : Scans(f, Outcome, t, Nothing(<< >>), Tokens, Yielding) /\ Whole(t) = f[1]
<1> DEFINE n == Len(t)
           Part(i, from) ==
             IF TokenOf(Suffix(t, i)).length = 0 THEN Nothing(Suffix(t, i))
             ELSE Behind(TokenOf(Suffix(t, i)).events, from[i + TokenOf(Suffix(t, i)).length])
           P(from) == from = [i \in 1 .. n + 1 |-> Part(i, from)]
           c == CHOOSE from : P(from)
<1>1. n \in Nat /\ << >> \in Seq(Byte) /\ Nothing(<< >>) \in Outcome
  BY OutcomeForms
<1>2. Whole(t) = c[1]
  BY DEF Whole, Suffix, TokenOf, Nothing, Behind
<1>3. PICK f : Scans(f, Outcome, t, Nothing(<< >>), Tokens, Yielding)
  BY <1>1, TokensTyped, ScanExists
<1>4. ASSUME NEW i \in 1 .. n
      PROVE  /\ f[i] = Part(i, f)
             /\ TokenOf(Suffix(t, i)).length # 0 =>
                  Tokens[Suffix(t, i)] = TokenOf(Suffix(t, i)).length
  <2>1. i \in 1 .. Len(t) + 1 /\ ~(i > Len(t))
    BY <1>1
  <2> DEFINE s == Suffix(t, i)
             k == Tokens[s]
  <2>2. s \in Seq(Byte) /\ s # << >> /\ Len(s) = n + 1 - i
    BY <2>1, SuffixFacts
  <2>3. f[i] = Yielding[<<s, f[i + k]>>]
    BY <1>3, <2>1 DEF Scans
  <2> HIDE DEF s
  <2>4. k = IF TokenOf(s).length = 0 THEN 1 ELSE TokenOf(s).length
    BY <2>2 DEF Tokens
  <2>5. i + k \in 1 .. n + 1
    <3>1. k \in Nat /\ k >= 1 /\ k <= n + 1 - i
      BY <2>2, TokensTyped DEF Eats
    <3> HIDE DEF k
    <3> QED BY <1>1, <3>1
  <2> HIDE DEF k
  <2>6. f[i + k] \in Outcome
    BY <1>3, <2>5 DEF Scans
  <2>7. f[i] = IF TokenOf(s).length = 0 THEN Nothing(s) ELSE Behind(TokenOf(s).events, f[i + k])
    BY <2>2, <2>3, <2>6 DEF Yielding
  <2>8. f[i] = IF TokenOf(s).length = 0 THEN Nothing(s)
               ELSE Behind(TokenOf(s).events, f[i + TokenOf(s).length])
    BY <2>4, <2>7
  <2> QED BY <2>4, <2>8 DEF s, k
<1>5. Part(n + 1, f) = Nothing(<< >>) /\ \A g : Part(n + 1, g) = Nothing(<< >>)
  <2>1. Suffix(t, n + 1) = << >>
    BY <1>1, SuffixFacts
  <2>2. TokenOf(<< >>).length = 0
    BY TokenForms DEF TokenOf
  <2> QED BY <2>1, <2>2
<1>6. P(f)
  <2>1. f = [i \in 1 .. n + 1 |-> f[i]]
    BY <1>3 DEF Scans
  <2>2. f[n + 1] = Nothing(<< >>)
    <3>1. n + 1 \in 1 .. Len(t) + 1 /\ n + 1 > Len(t)
      BY <1>1
    <3> QED BY <1>3, <3>1 DEF Scans
  <2>3. \A i \in 1 .. n + 1 : i = n + 1 \/ i \in 1 .. n
    BY <1>1
  <2> HIDE DEF Part
  <2>4. \A i \in 1 .. n + 1 : f[i] = Part(i, f)
    BY <1>4, <1>5, <2>2, <2>3
  <2> QED BY <2>1, <2>4
<1>7. P(c)
  <2> HIDE DEF P
  <2> QED BY <1>6, Zenon
<1> HIDE DEF c
<1>8. \A i \in 1 .. n + 1 : c[i] = Part(i, c)
  <2> HIDE DEF Part
  <2> QED BY <1>7
<1>9. c[n + 1] = Nothing(<< >>)
  <2>1. n + 1 \in 1 .. n + 1
    BY <1>1
  <2> HIDE DEF Part
  <2> QED BY <1>5, <1>8, <2>1
<1>10. \A i \in 1 .. n :
         LET w == i + Tokens[Suffix(t, i)] IN c[w] = f[w] => c[i] = f[i]
  <2> SUFFICES ASSUME NEW i \in 1 .. n, c[i + Tokens[Suffix(t, i)]] = f[i + Tokens[Suffix(t, i)]]
               PROVE  c[i] = f[i]
    OBVIOUS
  <2>1. c[i] = Part(i, c)
    <3>1. i \in 1 .. n + 1
      BY <1>1
    <3> HIDE DEF Part
    <3> QED BY <1>8, <3>1
  <2>2. Part(i, c) = Part(i, f)
    <3> DEFINE s == Suffix(t, i)
    <3> HIDE DEF s
    <3>1. CASE TokenOf(s).length = 0
      BY <3>1 DEF s
    <3>2. CASE TokenOf(s).length # 0
      <4>1. c[i + TokenOf(s).length] = f[i + TokenOf(s).length]
        BY <1>4, <3>2 DEF s
      <4> QED BY <4>1 DEF s
    <3> QED BY <3>1, <3>2
  <2>3. f[i] = Part(i, f)
    BY <1>4
  <2> HIDE DEF Part
  <2> QED BY <2>1, <2>2, <2>3
<1>11. \A i \in 1 .. Len(t) + 1 : c[i] = f[i]
  <2>1. SameSteps(f, c, t, Nothing(<< >>), Tokens)
    BY <1>9, <1>10 DEF SameSteps
  <2>2. SameValues(f, c, t)
    <3> HIDE DEF n, P
    <3> QED BY <1>1, <1>3, <2>1, TokensTyped, ScanUnique
  <2> QED BY <2>2 DEF SameValues
<1>12. 1 \in 1 .. Len(t) + 1
  BY <1>1
<1> QED BY <1>2, <1>3, <1>11, <1>12

LEMMA WholeStep ==
  ASSUME NEW t \in Seq(Byte)
  PROVE  /\ Whole(t) \in Outcome
         /\ TokenOf(t).length = 0 => Whole(t) = Nothing(t)
         /\ TokenOf(t).length # 0 =>
              Whole(t) = Behind(TokenOf(t).events, Whole(Suffix(t, 1 + TokenOf(t).length)))
<1> DEFINE base == Nothing(<< >>)
<1>0. base \in Outcome
  BY OutcomeForms
<1>1. PICK f : Scans(f, Outcome, t, base, Tokens, Yielding) /\ Whole(t) = f[1]
  BY WholeScans
<1>2. 1 \in 1 .. Len(t) + 1
  OBVIOUS
<1>3. Whole(t) \in Outcome
  BY <1>1, <1>2 DEF Scans
<1>4. CASE t = << >>
  <2>1. TokenOf(t).length = 0
    BY <1>4, TokenForms DEF TokenOf
  <2>2. Whole(t) = base
    <3> HIDE DEF base
    <3> QED BY <1>1, <1>4, ScanOfNone
  <2> QED BY <1>3, <1>4, <2>1, <2>2
<1>5. CASE t # << >>
  <2> DEFINE u == Suffix(t, 1 + Tokens[t])
  <2>1. Tokens[t] \in Nat /\ Tokens[t] >= 1 /\ Tokens[t] <= Len(t)
        /\ Tokens[t] = IF TokenOf(t).length = 0 THEN 1 ELSE TokenOf(t).length
    BY <1>5, TokensTyped DEF Eats, Tokens
  <2>2. u \in Seq(Byte)
    <3>1. 1 + Tokens[t] \in 1 .. Len(t) + 1
      BY <2>1
    <3> QED BY <3>1, SuffixFacts
  <2>3. PICK g : Scans(g, Outcome, u, base, Tokens, Yielding) /\ Whole(u) = g[1]
    <3> HIDE DEF u
    <3> QED BY <2>2, WholeScans
  <2>4. f[1] = Yielding[<<t, g[1]>>] /\ g[1] \in Outcome
    <3>1. Scans(g, Outcome, Suffix(t, 1 + Tokens[t]), base, Tokens, Yielding)
      BY <2>3
    <3> HIDE DEF base
    <3> QED BY <1>0, <1>1, <1>5, <3>1, TokensTyped, ScanStep
  <2>5. Whole(t) = IF TokenOf(t).length = 0 THEN Nothing(t) ELSE Behind(TokenOf(t).events, g[1])
    BY <1>1, <2>4 DEF Yielding
  <2>6. TokenOf(t).length # 0 => Whole(u) = Whole(Suffix(t, 1 + TokenOf(t).length))
    BY <2>1
  <2> QED BY <1>3, <2>3, <2>5, <2>6
<1> QED BY <1>4, <1>5

\* What more bytes add to what a series said already.
LEMMA WholeAppended ==
  ASSUME NEW p \in Seq(Byte)
  PROVE  \A x \in Seq(Byte) :
           Whole(x \o p) = Behind(Whole(x).events, Whole(Whole(x).rest \o p))
<1> DEFINE Same(x) == Whole(x \o p) = Behind(Whole(x).events, Whole(Whole(x).rest \o p))
           K == {m \in Nat : \A x \in Seq(Byte) : Len(x) <= m => Same(x)}
<1>1. ASSUME NEW x \in Seq(Byte), TokenOf(x).length = 0 PROVE Same(x)
  <2>1. Whole(x) = Nothing(x)
    BY <1>1, WholeStep
  <2>2. Whole(x).events = << >> /\ Whole(x).rest = x
    BY <2>1, OutcomeForms
  <2>3. x \o p \in Seq(Byte)
    OBVIOUS
  <2>4. Whole(x \o p) \in Outcome
    BY <2>3, WholeStep
  <2>5. Behind(<< >>, Whole(x \o p)) = Whole(x \o p)
    <3>1. << >> \in Seq(Event)
      OBVIOUS
    <3> QED BY <2>4, <3>1, BehindNothing
  <2> QED BY <2>2, <2>5
<1>2. ASSUME NEW x \in Seq(Byte), TokenOf(x).length # 0,
             \A y \in Seq(Byte) : Len(y) < Len(x) => Same(y)
      PROVE  Same(x)
  <2> DEFINE t == x \o p
             n == TokenOf(x).length
             e == TokenOf(x).events
             u == Suffix(x, 1 + n)
  <2>1. x # << >> /\ FirstToken(x) = TokenOf(x)
    BY <1>2, TokenForms DEF TokenOf
  <2>2. n \in Nat /\ n <= Len(x) /\ e \in Seq(Event)
    BY EventsTyped
  <2>3. t \in Seq(Byte) /\ Starts(t, x)
    BY Appended
  <2>4. t # << >> /\ FirstToken(t) = FirstToken(x)
    <3> HIDE DEF t
    <3> QED BY <1>2, <2>1, <2>3, TokenStable
  <2>5. TokenOf(t) = TokenOf(x)
    BY <2>1, <2>4 DEF TokenOf
  <2>6. 1 + n \in 1 .. Len(x) + 1 /\ n >= 1
    <3> HIDE DEF n
    <3>1. n # 0
      BY <1>2 DEF n
    <3> QED BY <2>2, <3>1
  <2>7. u \in Seq(Byte) /\ Len(u) = Len(x) + 1 - (1 + n)
    <3> HIDE DEF n
    <3> QED BY <2>6, SuffixFacts
  <2>8. Suffix(t, 1 + n) = u \o p
    <3> HIDE DEF n
    <3> QED BY <2>6, Longer
  <2>9. Same(u)
    <3>1. Len(u) < Len(x)
      <4> HIDE DEF u, n
      <4>1. Len(x) \in Nat
        OBVIOUS
      <4> QED BY <2>2, <2>6, <2>7, <4>1
    <3> HIDE DEF u, Same
    <3> QED BY <1>2, <2>7, <3>1
  <2>10. Whole(x) = Behind(e, Whole(u))
    BY <1>2, WholeStep
  <2>11. Whole(t) = Behind(e, Whole(u \o p))
    <3> HIDE DEF t, u
    <3>1. Whole(t) = Behind(TokenOf(t).events, Whole(Suffix(t, 1 + TokenOf(t).length)))
      BY <1>2, <2>3, <2>5, WholeStep
    <3> QED BY <2>5, <2>8, <3>1
  <2> DEFINE w == Whole(u)
             rest == Whole(w.rest \o p)
  <2>12. w \in Outcome
    <3> HIDE DEF u
    <3> QED BY <2>7, WholeStep
  <2>13. w.events \in Seq(Event) /\ w.rest \in Seq(Byte)
    <3> HIDE DEF w
    <3> QED BY <2>12, OutcomeForms
  <2>14. rest \in Outcome
    <3>1. w.rest \o p \in Seq(Byte)
      <4> DEFINE r == w.rest
      <4>1. r \in Seq(Byte)
        BY <2>13
      <4> HIDE DEF r
      <4>2. r \o p \in Seq(Byte)
        BY <4>1
      <4> QED BY <4>2 DEF r
    <3> QED BY <3>1, WholeStep
  <2>15. Whole(x).events = e \o w.events /\ Whole(x).rest = w.rest
    <3>1. Whole(x) = Behind(e, w)
      BY <2>10
    <3> HIDE DEF w, e
    <3> QED BY <2>2, <2>12, <3>1, OutcomeForms
  <2>16. Whole(t) = Behind(e, Behind(w.events, rest))
    BY <2>9, <2>11
  <2>17. Behind(e, Behind(w.events, rest)) = Behind(e \o w.events, rest)
    <3> DEFINE d == w.events
    <3>1. d \in Seq(Event)
      BY <2>13
    <3> HIDE DEF d, rest, e
    <3>2. Behind(e, Behind(d, rest)) = Behind(e \o d, rest)
      BY <2>2, <2>14, <3>1, BehindTwice
    <3> QED BY <3>2 DEF d
  <2> HIDE DEF w, e
  <2> QED BY <2>15, <2>16, <2>17
<1>3. 0 \in K
  <2> SUFFICES ASSUME NEW x \in Seq(Byte), Len(x) <= 0 PROVE Same(x)
    OBVIOUS
  <2>1. TokenOf(x).length = 0
    <3>1. x = << >>
      OBVIOUS
    <3> QED BY <3>1, TokenForms DEF TokenOf
  <2> HIDE DEF Same
  <2> QED BY <1>1, <2>1
<1>4. ASSUME NEW m \in Nat, m \in K PROVE m + 1 \in K
  <2> SUFFICES ASSUME NEW x \in Seq(Byte), Len(x) <= m + 1 PROVE Same(x)
    OBVIOUS
  <2> HIDE DEF Same
  <2>1. \A y \in Seq(Byte) : Len(y) < Len(x) => Same(y)
    <3> SUFFICES ASSUME NEW y \in Seq(Byte), Len(y) < Len(x) PROVE Same(y)
      OBVIOUS
    <3>1. Len(y) \in Nat /\ Len(x) \in Nat
      OBVIOUS
    <3>2. Len(y) <= m
      BY <3>1
    <3> QED BY <1>4, <3>2
  <2> QED BY <1>1, <1>2, <2>1
<1> HIDE DEF K
<1>5. \A m \in Nat : m \in K
  BY <1>3, <1>4, Induction
<1>6. ASSUME NEW x \in Seq(Byte) PROVE Same(x)
  <2>1. Len(x) \in Nat /\ Len(x) <= Len(x)
    OBVIOUS
  <2> HIDE DEF Same
  <2> QED BY <1>5, <2>1 DEF K
<1> QED BY <1>6
-----------------------------------------------------------------------------
(* The same bytes say the same, however they are cut: what is read.        *)

\* What was sent has been read or is on the wire.
StreamInv ==
  /\ sent \in Seq(Seq(Byte))
  /\ FlattenSeq(sent) = BytesRead \o wire
  /\ BytesRead \in Seq(Byte)

\* As long as no parse was forced, the events and what is left come to what all
\* the bytes read come to, and what a parse leaves begins with no token.
ReadInv ==
  ~cut => /\ pc \in {"idle", "parse"}
          /\ events \in Seq(Event)
          /\ Whole(BytesRead) = Behind(events, Whole(Rest))
          /\ pc = "idle" => TokenOf(buffer).length = 0

LEMMA CutAt ==
  ASSUME NEW a \in Seq(Byte), NEW b \in Seq(Byte)
  PROVE  SubSeq(a \o b, 1, Len(a \o b) - Len(b)) = a
<1> DEFINE t == a \o b
           p == SubSeq(t, 1, Len(t) - Len(b))
<1>1. /\ t \in Seq(Byte) /\ Len(t) = Len(a) + Len(b) /\ Len(a) \in Nat /\ Len(b) \in Nat
      /\ \A i \in 1 .. Len(a) : t[i] = a[i]
  BY Concatenated
<1> HIDE DEF t
<1>2. Len(t) - Len(b) = Len(a) /\ Len(a) <= Len(t)
  BY <1>1
<1>3. /\ p \in Seq(Byte) /\ Len(p) = Len(a) /\ \A i \in 1 .. Len(a) : p[i] = t[i]
  BY <1>1, <1>2
<1> HIDE DEF p
<1>4. \A i \in 1 .. Len(p) : p[i] = a[i]
  BY <1>1, <1>3
<1>5. p = a
  BY <1>3, <1>4, SeqEqual
<1> QED BY <1>5 DEF p, t

\* The bytes that have been read are those before the wire's.
LEMMA ReadAt ==
  ASSUME NEW a \in Seq(Byte), wire \in Seq(Byte), FlattenSeq(sent) = a \o wire
  PROVE  BytesRead = a
  BY CutAt DEF BytesRead

LEMMA ReadAtNext ==
  ASSUME NEW a \in Seq(Byte), wire' \in Seq(Byte), FlattenSeq(sent') = a \o wire'
  PROVE  BytesRead' = a
  BY CutAt DEF BytesRead

\* What happens to the two when bytes are read, and otherwise.
Reads(p) == wire' \in Seq(Byte) /\ wire = p \o wire' /\ sent' = sent

LEMMA Halves ==
  ASSUME NEW w \in Seq(Byte), NEW n \in Nat, n <= Len(w)
  PROVE  /\ SubSeq(w, 1, n) \in Seq(Byte) /\ SubSeq(w, n + 1, Len(w)) \in Seq(Byte)
         /\ w = SubSeq(w, 1, n) \o SubSeq(w, n + 1, Len(w))
<1> DEFINE p == SubSeq(w, 1, n)
<1>1. /\ p \in Seq(Byte) /\ Len(p) = n /\ Len(w) \in Nat
      /\ \A i \in 1 .. n : p[i] = w[i]
  OBVIOUS
<1> HIDE DEF p
<1>2. Starts(w, p)
  BY <1>1, StartsWith
<1>3. w = p \o Suffix(w, 1 + Len(p))
  BY <1>1, <1>2, StartAndRest
<1>4. Suffix(w, 1 + Len(p)) = SubSeq(w, n + 1, Len(w))
  <2>1. 1 + Len(p) = n + 1
    BY <1>1
  <2> QED BY <2>1 DEF Suffix
<1>5. SubSeq(w, n + 1, Len(w)) \in Seq(Byte)
  BY <1>1
<1> QED BY <1>1, <1>3, <1>4, <1>5 DEF p

LEMMA FeedReads ==
  ASSUME Types, Feed
  PROVE  \E p \in Seq(Byte) : Reads(p) /\ buffer' = buffer \o p
<1>1. PICK n \in 1 .. MaxPiece :
        /\ n <= Len(wire)
        /\ buffer' = buffer \o SubSeq(wire, 1, n)
        /\ wire' = SubSeq(wire, n + 1, Len(wire))
  BY DEF Feed
<1>2. n \in Nat /\ wire \in Seq(Byte) /\ sent' = sent
  BY <1>1, ParserAssumption DEF Types, Feed
<1>3. /\ SubSeq(wire, 1, n) \in Seq(Byte) /\ SubSeq(wire, n + 1, Len(wire)) \in Seq(Byte)
      /\ wire = SubSeq(wire, 1, n) \o SubSeq(wire, n + 1, Len(wire))
  BY <1>1, <1>2, Halves
<1> QED BY <1>1, <1>2, <1>3 DEF Reads

LEMMA StreamFacts ==
  ASSUME StreamInv, Types
  PROVE  wire \in Seq(Byte) /\ sent \in Seq(Seq(Byte)) /\ BytesRead \in Seq(Byte)
         /\ FlattenSeq(sent) = BytesRead \o wire
  BY DEF StreamInv, Types

LEMMA StreamRead ==
  ASSUME StreamInv, Types, NEW p \in Seq(Byte), Reads(p)
  PROVE  StreamInv' /\ BytesRead' = BytesRead \o p
<1> DEFINE b == BytesRead
           w == wire'
           a == b \o p
<1>1. /\ b \in Seq(Byte) /\ w \in Seq(Byte) /\ sent' = sent /\ sent \in Seq(Seq(Byte))
      /\ FlattenSeq(sent') = b \o (p \o w)
  BY StreamFacts DEF Reads
<1> HIDE DEF b, w
<1>2. b \o (p \o w) = a \o w /\ a \in Seq(Byte)
  BY <1>1
<1> HIDE DEF a
<1>3. FlattenSeq(sent') = a \o wire' /\ wire' \in Seq(Byte)
  BY <1>1, <1>2 DEF w
<1>4. BytesRead' = a
  BY <1>2, <1>3, ReadAtNext
<1>5. StreamInv'
  BY <1>1, <1>2, <1>3, <1>4 DEF StreamInv
<1> QED BY <1>4, <1>5 DEF a, b

LEMMA StreamSent ==
  ASSUME StreamInv, Types, NEW k \in Keystrokes, Send(k)
  PROVE  StreamInv' /\ BytesRead' = BytesRead
<1> DEFINE b == BytesRead
<1>1. k \in Seq(Byte) /\ sent' = Append(sent, k) /\ wire' = wire \o k
  BY ParserAssumption DEF Send, Byte
<1>2. b \in Seq(Byte) /\ wire \in Seq(Byte) /\ sent \in Seq(Seq(Byte))
      /\ FlattenSeq(sent) = b \o wire
  BY StreamFacts
<1> HIDE DEF b
<1>3. sent' \in Seq(Seq(Byte)) /\ wire' \in Seq(Byte)
  BY <1>1, <1>2
<1>4. FlattenSeq(sent') = FlattenSeq(sent) \o k
  BY <1>1, <1>2, Flattened
<1>5. (b \o wire) \o k = b \o (wire \o k)
  BY <1>1, <1>2
<1>6. FlattenSeq(sent') = b \o wire'
  BY <1>1, <1>2, <1>4, <1>5
<1>7. BytesRead' = b
  BY <1>2, <1>3, <1>6, ReadAtNext
<1>8. StreamInv'
  BY <1>2, <1>3, <1>6, <1>7 DEF StreamInv
<1> QED BY <1>7, <1>8 DEF b

LEMMA StreamNew ==
  /\ wire = << >> /\ sent = << >> => StreamInv /\ BytesRead = << >>
  /\ wire' = << >> /\ sent' = << >> => StreamInv' /\ BytesRead' = << >>
<1>1. /\ << >> \in Seq(Seq(Byte)) /\ << >> \in Seq(Byte) /\ << >> \o << >> = << >>
      /\ FlattenSeq(<< >>) = << >>
  <2>1. << >> \in Seq(Seq(Byte)) /\ << >> \in Seq(Byte) /\ << >> \o << >> = << >>
    OBVIOUS
  <2> QED BY <2>1, Flattened
<1>2. ASSUME wire = << >>, sent = << >> PROVE StreamInv /\ BytesRead = << >>
  <2>1. BytesRead = << >>
    BY <1>1, <1>2, ReadAt
  <2> QED BY <1>1, <1>2, <2>1 DEF StreamInv
<1>3. ASSUME wire' = << >>, sent' = << >> PROVE StreamInv' /\ BytesRead' = << >>
  <2>1. BytesRead' = << >>
    BY <1>1, <1>3, ReadAtNext
  <2> QED BY <1>1, <1>3, <2>1 DEF StreamInv
<1> QED BY <1>2, <1>3

LEMMA StreamKept ==
  ASSUME StreamInv, wire' = wire, sent' = sent
  PROVE  StreamInv' /\ BytesRead' = BytesRead
<1>1. BytesRead' = BytesRead
  BY DEF BytesRead
<1> QED BY <1>1 DEF StreamInv

LEMMA RoundKeepsStream ==
  ASSUME Round
  PROVE  wire' = wire /\ sent' = sent /\ cut' = cut
  BY DEF Round, Use, Stop, terminal, DelayEscape, LoneEscape, CsiSequence, CsiRecovered,
         CsiAwaited, Ss3Sequence, AltCharacter, EscapeRecovered, SequenceAwaited, ControlKey,
         Character, CharacterAwaited, Exhausted, Drain, Drained
-----------------------------------------------------------------------------
\* A round takes the token that is first, or finds none and ends the parse.
Takes ==
  /\ TokenOf(Rest).length # 0
  /\ Use(TokenOf(Rest).length, TokenOf(Rest).events)
FindsNone == TokenOf(Rest).length = 0 /\ Stop

LEMMA RoundTakes ==
  ASSUME Types, Round, pc = "parse"
  PROVE  Takes \/ FindsNone
<1>0. Rest \in Seq(Byte) /\ ~Forced /\ MaxSequence \in Nat
  BY RestFacts, ParserAssumption DEF Forced
<1> DEFINE s == Rest
<1>1. ASSUME s # << >>, NEW n, NEW e, FirstToken(s) = Token(n, e), n # 0, Use(n, e)
      PROVE  Takes
  <2>1. TokenOf(Rest) = Token(n, e)
    BY <1>1 DEF TokenOf
  <2> QED BY <1>1, <2>1, TokenForms DEF Takes
<1>2. ASSUME s = << >> \/ FirstToken(s) = Unclear, Stop
      PROVE  FindsNone
  <2>1. TokenOf(Rest) = Unclear
    BY <1>2 DEF TokenOf
  <2> QED BY <1>2, <2>1, TokenForms DEF FindsNone
<1>3. s # << >> => Len(s) \in Nat /\ Len(s) >= 1
  BY <1>0
<1>4. CASE DelayEscape
  <2>1. s # << >> /\ s[1] = ESC /\ Len(s) = 1 /\ Stop
    BY <1>4 DEF DelayEscape, AtEscape
  <2> HIDE DEF s
  <2> QED BY <1>0, <1>2, <2>1, TokenCases DEF s
<1>5. CASE CsiSequence
  <2>1. PICK n \in Finals : /\ \A i \in Finals : n <= i
                            /\ Use(n, ParseCsi(SubSeq(Rest, 1, n)))
    BY <1>5 DEF CsiSequence
  <2>2. s # << >> /\ AtCsi(s)
    BY <1>5 DEF CsiSequence, AfterEscape, AtEscape, AtCsi
  <2>3. Ends(s, n)
    BY <2>1 DEF Finals, Ends, Ending
  <2>4. n # 0
    BY <2>1, ParserAssumption DEF Finals
  <2>5. FirstToken(s) = Token(n, ParseCsi(SubSeq(s, 1, n)))
    BY <1>0, <2>2, <2>3, TokenCases
  <2> QED BY <1>1, <2>1, <2>2, <2>4, <2>5
<1>6. ASSUME Finals = {} PROVE Closed(s) = {}
  BY <1>0, <1>6 DEF Finals, Closed, Ends, Ending
<1>7. CASE CsiRecovered
  <2>1. s # << >> /\ AtCsi(s) /\ Closed(s) = {} /\ Use(1, EscapePulse)
    BY <1>6, <1>7 DEF CsiRecovered, AfterEscape, AtEscape, AtCsi
  <2>2. Len(s) >= MaxSequence
    BY <1>0, <1>3, <1>7, <2>1 DEF CsiRecovered, WithinBound
  <2>3. FirstToken(s) = Token(1, EscapePulse)
    BY <1>0, <2>1, <2>2, TokenCases
  <2> QED BY <1>1, <2>1, <2>3
<1>8. CASE CsiAwaited
  <2>1. s # << >> /\ AtCsi(s) /\ Closed(s) = {} /\ Stop /\ Len(s) < MaxSequence
    BY <1>6, <1>8 DEF CsiAwaited, AfterEscape, AtEscape, AtCsi, WithinBound
  <2>2. FirstToken(s) = Unclear
    BY <1>0, <2>1, TokenCases
  <2> QED BY <1>2, <2>1, <2>2
<1>9. CASE Ss3Sequence
  <2>1. s # << >> /\ AtSs3(s) /\ Len(s) > 2 /\ Use(3, ParseSs3(s[3]))
    BY <1>9 DEF Ss3Sequence, AfterEscape, AtEscape, AtSs3
  <2>2. FirstToken(s) = Token(3, ParseSs3(s[3]))
    BY <1>0, <2>1, TokenCases
  <2> QED BY <1>1, <2>1, <2>2
<1>10. CASE AltCharacter
  <2> DEFINE d == DecodeNext(Tail(s))
  <2>1. s # << >> /\ AtAlt(s) /\ d.complete
        /\ Use(1 + d.length, CharacterPulse(d.character, {"alt"}))
    BY <1>10 DEF AltCharacter, AfterEscape, AtEscape, AtAlt, AltDecoded
  <2>2. Tail(s) \in Seq(Byte)
    BY <1>0, <2>1, Beginnings
  <2>3. 1 + d.length # 0
    <3>1. d.length \in 1 .. Len(Tail(s))
      BY <2>1, <2>2, DecodeLength
    <3> HIDE DEF d
    <3> QED BY <3>1
  <2>4. FirstToken(s) = Token(1 + d.length, CharacterPulse(d.character, {"alt"}))
    BY <1>0, <2>1, TokenCases
  <2> HIDE DEF d
  <2> QED BY <1>1, <2>1, <2>3, <2>4
<1>11. CASE SequenceAwaited
  <2>1. s # << >> /\ Stop
        /\ ((AtSs3(s) /\ Len(s) = 2) \/ (AtAlt(s) /\ ~DecodeNext(Tail(s)).complete))
    BY <1>11 DEF SequenceAwaited, Unfinished, AfterEscape, AtEscape, AtSs3, AtAlt, AltDecoded
  <2>2. FirstToken(s) = Unclear
    BY <1>0, <2>1, TokenCases
  <2> QED BY <1>2, <2>1, <2>2
<1>12. CASE ControlKey
  <2>1. s # << >> /\ s[1] \in ControlBytes /\ Use(1, ControlPulse(s[1]))
    BY <1>12 DEF ControlKey
  <2>2. FirstToken(s) = Token(1, ControlPulse(s[1]))
    BY <1>0, <2>1, TokenCases
  <2> QED BY <1>1, <2>1, <2>2
<1>13. CASE Character
  <2> DEFINE d == DecodeNext(s)
  <2>1. s # << >> /\ AtPlain(s) /\ d.complete
        /\ Use(d.length, CharacterPulse(d.character, {}))
    BY <1>13 DEF Character, AtText, AtPlain, Decoded
  <2>2. d.length # 0
    <3>1. d.length \in 1 .. Len(s)
      BY <1>0, <2>1, DecodeLength
    <3> HIDE DEF d
    <3> QED BY <3>1
  <2>3. FirstToken(s) = Token(d.length, CharacterPulse(d.character, {}))
    BY <1>0, <2>1, TokenCases
  <2> HIDE DEF d
  <2> QED BY <1>1, <2>1, <2>2, <2>3
<1>14. CASE CharacterAwaited
  <2>1. s # << >> /\ AtPlain(s) /\ ~DecodeNext(s).complete /\ Stop
    BY <1>14 DEF CharacterAwaited, AtText, AtPlain, Decoded
  <2>2. FirstToken(s) = Unclear
    BY <1>0, <2>1, TokenCases
  <2> QED BY <1>2, <2>1, <2>2
<1>15. CASE Exhausted
  BY <1>2, <1>15 DEF Exhausted
<1>16. CASE LoneEscape \/ EscapeRecovered \/ Drain \/ Drained
  BY <1>0, <1>16 DEF LoneEscape, EscapeRecovered, Drain, Drained
<1> QED BY <1>4, <1>5, <1>7, <1>8, <1>9, <1>10, <1>11, <1>12, <1>13, <1>14, <1>15, <1>16 DEF Round

\* The bytes read come to the events so far and what is left.
SoFar == events \in Seq(Event) /\ Whole(BytesRead) = Behind(events, Whole(Rest))

LEMMA TakesKeeps ==
  ASSUME Types, SoFar, BytesRead' = BytesRead, Takes
  PROVE  SoFar'
<1> DEFINE n == TokenOf(Rest).length
           e == TokenOf(Rest).events
           u == Suffix(Rest, 1 + n)
<1>1. Rest \in Seq(Byte) /\ n \in Nat /\ n <= Len(Rest) /\ e \in Seq(Event) /\ n # 0
  BY RestFacts, EventsTyped DEF Takes
<1>2. consumed' = consumed + n /\ events' = events \o e /\ buffer' = buffer
  BY DEF Takes, Use
<1>3. Rest' = u /\ u \in Seq(Byte)
  <2> DEFINE k == consumed + 1
  <2>1. buffer \in Seq(Byte) /\ consumed \in Nat /\ consumed <= Len(buffer) /\ Len(buffer) \in Nat
    BY DEF Types
  <2>2. Rest = Suffix(buffer, k) /\ Rest' = Suffix(buffer, consumed + n + 1)
    BY <1>2 DEF Rest, Suffix
  <2>3. Len(Rest) = Len(buffer) - consumed
    BY RestFacts
  <2> HIDE DEF n
  <2>4. k \in 1 .. Len(buffer) + 1 /\ 1 + n \in 1 .. Len(buffer) + 2 - k
        /\ k + (1 + n) - 1 = consumed + n + 1 /\ 1 + n \in 1 .. Len(Rest) + 1
    BY <1>1, <2>1, <2>3
  <2> HIDE DEF k
  <2> DEFINE j == 1 + n
  <2>5. j \in 1 .. Len(buffer) + 2 - k /\ j \in 1 .. Len(Rest) + 1 /\ k + j - 1 = consumed + n + 1
    BY <2>4
  <2> HIDE DEF j
  <2>6. Suffix(Suffix(buffer, k), j) = Suffix(buffer, k + j - 1)
    BY <2>1, <2>4, <2>5, SuffixOfSuffix
  <2>7. Suffix(Rest, j) \in Seq(Byte)
    BY <1>1, <2>5, SuffixFacts
  <2> QED BY <2>2, <2>5, <2>6, <2>7 DEF j
<1>4. Whole(Rest) = Behind(e, Whole(u))
  BY <1>1, WholeStep
<1> HIDE DEF e, u
<1>5. Whole(u) \in Outcome
  BY <1>3, WholeStep
<1>6. Behind(events, Behind(e, Whole(u))) = Behind(events \o e, Whole(u))
      /\ events \o e \in Seq(Event)
  <2>1. events \in Seq(Event)
    BY DEF SoFar
  <2> QED BY <1>1, <1>5, <2>1, BehindTwice
<1>7. Whole(BytesRead)' = Whole(BytesRead) /\ Whole(Rest)' = Whole(u)
  BY <1>3
<1> QED BY <1>2, <1>4, <1>6, <1>7 DEF SoFar

LEMMA ReadNext ==
  ASSUME BufferInv, StreamInv, ReadInv, [Next]_vars
  PROVE  StreamInv' /\ ReadInv'
<1>0. Types /\ (pc \in {"idle", "drain"} => consumed = 0)
  BY DEF BufferInv
<1>1. CASE Round
  <2>1. wire' = wire /\ sent' = sent /\ cut' = cut
    BY <1>1, RoundKeepsStream
  <2>2. StreamInv' /\ BytesRead' = BytesRead
    BY <2>1, StreamKept
  <2>3. ASSUME ~cut' PROVE ReadInv'
    <3>1. ~cut /\ pc = "parse" /\ SoFar
      <4>1. ~cut /\ pc \in {"idle", "parse"} /\ SoFar
        BY <2>1, <2>3 DEF ReadInv, SoFar
      <4>2. pc # "idle"
        BY <1>1
        DEF Round, DelayEscape, LoneEscape, CsiSequence, CsiRecovered, CsiAwaited, Ss3Sequence,
            AltCharacter, EscapeRecovered, SequenceAwaited, ControlKey, Character,
            CharacterAwaited, Exhausted, Drain, Drained, AfterEscape, AtEscape, Unfinished,
            AtText, Parsing, Forced
      <4> QED BY <4>1, <4>2
    <3>2. CASE Takes
      <4>1. SoFar'
        BY <1>0, <2>2, <3>1, <3>2, TakesKeeps
      <4>2. pc' = "parse"
        BY <3>1, <3>2 DEF Takes, Use
      <4> QED BY <4>1, <4>2 DEF ReadInv, SoFar
    <3>3. CASE FindsNone
      <4>1. buffer' = Rest /\ consumed' = 0 /\ pc' = "idle" /\ events' = events
        BY <3>1, <3>3 DEF FindsNone, Stop
      <4>2. Rest \in Seq(Byte)
        BY <1>0, RestFacts
      <4>3. Rest' = Rest
        <5> DEFINE r == Rest
        <5>1. Rest' = SubSeq(r, 1, Len(r))
          BY <4>1 DEF Rest
        <5>2. r \in Seq(Byte)
          BY <4>2
        <5> HIDE DEF r
        <5>3. SubSeq(r, 1, Len(r)) = r
          BY <5>2
        <5> QED BY <5>1, <5>3 DEF r
      <4>4. SoFar'
        BY <2>2, <3>1, <4>1, <4>3 DEF SoFar
      <4>5. TokenOf(buffer)'.length = 0
        BY <3>3, <4>1 DEF FindsNone
      <4> QED BY <4>1, <4>4, <4>5 DEF ReadInv, SoFar
    <3> QED BY <1>0, <1>1, <3>1, <3>2, <3>3, RoundTakes
  <2> QED BY <2>2, <2>3 DEF ReadInv
<1>2. CASE \E k \in Keystrokes : Send(k)
  <2>1. PICK k \in Keystrokes : Send(k)
    BY <1>2
  <2>2. StreamInv' /\ BytesRead' = BytesRead
    BY <1>0, <2>1, StreamSent
  <2>3. UNCHANGED <<buffer, consumed, pc, events, cut>>
    BY <2>1 DEF Send
  <2>4. Rest' = Rest
    BY <2>3 DEF Rest
  <2> QED BY <2>2, <2>3, <2>4 DEF ReadInv
<1>3. CASE Feed
  <2>1. PICK p \in Seq(Byte) : Reads(p) /\ buffer' = buffer \o p
    BY <1>0, <1>3, FeedReads
  <2>2. StreamInv' /\ BytesRead' = BytesRead \o p
    BY <1>0, <2>1, StreamRead
  <2>3. pc = "idle" /\ pc' = "parse" /\ consumed' = consumed /\ events' = events /\ cut' = cut
    BY <1>3 DEF Feed
  <2>4. ASSUME ~cut' PROVE SoFar'
    <3>1. SoFar /\ TokenOf(buffer).length = 0
      BY <2>3, <2>4 DEF ReadInv, SoFar
    <3>2. Rest = buffer /\ Rest' = buffer \o p /\ buffer \in Seq(Byte)
      <4>1. Rest = buffer /\ buffer \in Seq(Byte) /\ consumed' = 0
        BY <1>0, <2>3, RestFacts DEF Types
      <4>2. buffer \o p \in Seq(Byte)
        BY <4>1
      <4>3. Rest' = buffer \o p
        <5> DEFINE t == buffer \o p
        <5>1. t \in Seq(Byte) /\ Rest' = SubSeq(t, 1, Len(t))
          BY <2>1, <4>1, <4>2 DEF Rest
        <5> HIDE DEF t
        <5>2. SubSeq(t, 1, Len(t)) = t
          BY <5>1
        <5> QED BY <5>1, <5>2 DEF t
      <4> QED BY <4>1, <4>3
    <3>3. Whole(BytesRead) = Behind(events, Nothing(buffer)) /\ events \in Seq(Event)
      BY <3>1, <3>2, WholeStep DEF SoFar
    <3>4. Whole(BytesRead).events = events /\ Whole(BytesRead).rest = buffer
      <4>1. Nothing(buffer) \in Outcome
        BY <3>2, OutcomeForms
      <4> QED BY <3>2, <3>3, <4>1, BehindNothing
    <3>5. BytesRead \in Seq(Byte)
      BY DEF StreamInv
    <3>6. Whole(BytesRead \o p) = Behind(events, Whole(buffer \o p))
      BY <3>4, <3>5, WholeAppended
    <3> QED BY <2>2, <2>3, <3>2, <3>3, <3>6 DEF SoFar
  <2> QED BY <2>2, <2>3, <2>4 DEF ReadInv, SoFar
<1>4. CASE Elapse
  <2>1. UNCHANGED <<buffer, consumed, pc, events, cut, wire, sent>>
    BY <1>4 DEF Elapse, terminal
  <2>2. StreamInv' /\ BytesRead' = BytesRead
    BY <2>1, StreamKept
  <2>3. Rest' = Rest
    BY <2>1 DEF Rest
  <2> QED BY <2>1, <2>2, <2>3 DEF ReadInv
<1>5. CASE FlushExpired \/ Flush
  <2>1. wire' = wire /\ sent' = sent /\ cut'
    BY <1>5 DEF FlushExpired, Flush, terminal
  <2>2. StreamInv'
    BY <2>1, StreamKept
  <2> QED BY <2>1, <2>2 DEF ReadInv
<1>6. CASE Reset
  <2>1. /\ wire' = << >> /\ sent' = << >> /\ buffer' = << >> /\ events' = << >>
        /\ consumed' = consumed /\ consumed = 0 /\ pc' = "idle"
    BY <1>0, <1>6 DEF Reset
  <2>2. StreamInv' /\ BytesRead' = << >>
    BY <2>1, StreamNew
  <2>3. Rest' = << >> /\ TokenOf(<< >>).length = 0 /\ TokenOf(buffer)'.length = 0
    BY <2>1, TokenForms DEF Rest, TokenOf
  <2>4. << >> \in Seq(Event) /\ << >> \in Seq(Byte)
    OBVIOUS
  <2>5. Whole(<< >>) = Behind(<< >>, Whole(<< >>))
    <3>1. Whole(<< >>) \in Outcome
      BY <2>4, WholeStep
    <3> QED BY <2>4, <3>1, BehindNothing
  <2> QED BY <2>1, <2>2, <2>3, <2>4, <2>5 DEF ReadInv
<1>7. CASE UNCHANGED vars
  <2>1. UNCHANGED <<buffer, consumed, pc, events, cut, wire, sent>>
    BY <1>7 DEF vars
  <2>2. StreamInv' /\ BytesRead' = BytesRead
    BY <2>1, StreamKept
  <2>3. Rest' = Rest
    BY <2>1 DEF Rest
  <2> QED BY <2>1, <2>2, <2>3 DEF ReadInv
<1> QED BY <1>1, <1>2, <1>3, <1>4, <1>5, <1>6, <1>7 DEF Next

LEMMA ReadStarts == Init => StreamInv /\ ReadInv
<1> SUFFICES ASSUME Init PROVE StreamInv /\ ReadInv
  OBVIOUS
<1>1. /\ wire = << >> /\ sent = << >> /\ buffer = << >> /\ events = << >>
      /\ consumed = 0 /\ pc = "idle"
  BY DEF Init
<1>2. StreamInv /\ BytesRead = << >>
  BY <1>1, StreamNew
<1>3. Rest = << >> /\ TokenOf(buffer).length = 0
  BY <1>1, TokenForms DEF Rest, TokenOf
<1>4. << >> \in Seq(Event) /\ << >> \in Seq(Byte)
  OBVIOUS
<1>5. Whole(<< >>) = Behind(<< >>, Whole(<< >>))
  <2>1. Whole(<< >>) \in Outcome
    BY <1>4, WholeStep
  <2> QED BY <1>4, <2>1, BehindNothing
<1> QED BY <1>1, <1>2, <1>3, <1>4, <1>5 DEF ReadInv

\* "Reads may be split at any byte boundary": between two calls, as long as no
\* parse was forced, the events and the bytes that are kept are those of all
\* the bytes read, parsed at once (EscapeSequenceParser.cpp:354-469).
THEOREM Pieces == Spec => []PiecesDoNotMatter
<1>1. ASSUME BufferInv, StreamInv, ReadInv PROVE PiecesDoNotMatter
  <2> SUFFICES ASSUME pc = "idle", ~cut
               PROVE  events = Whole(BytesRead).events /\ buffer = Whole(BytesRead).rest
    BY DEF PiecesDoNotMatter
  <2>1. Types /\ consumed = 0
    BY <1>1 DEF BufferInv
  <2>2. Rest = buffer /\ buffer \in Seq(Byte)
    BY <2>1, RestFacts DEF Types
  <2>3. /\ events \in Seq(Event) /\ Whole(BytesRead) = Behind(events, Whole(buffer))
        /\ TokenOf(buffer).length = 0
    BY <1>1, <2>2 DEF ReadInv
  <2>4. Whole(buffer) = Nothing(buffer)
    BY <2>2, <2>3, WholeStep
  <2>5. Nothing(buffer) \in Outcome
    BY <2>2, OutcomeForms
  <2> QED BY <2>2, <2>3, <2>4, <2>5, BehindNothing
<1>2. StreamInv /\ ReadInv /\ BufferInv /\ [Next]_vars => (StreamInv /\ ReadInv)'
  BY ReadNext
<1>3. Spec => [](StreamInv /\ ReadInv)
  BY <1>2, ReadStarts, BufferInvariant, PTL DEF Spec
<1> QED BY <1>1, <1>3, BufferInvariant, PTL
-----------------------------------------------------------------------------
(* What keystrokes say.                                                    *)

\* The numbers of a CSI sequence: the fold of parseParameter().
AddingDigits == [p \in Int \X Int |-> AddDigit(p[1], p[2])]
Number(token) == FoldLeft(AddDigit, 0, token)

LEMMA AddDigitTyped ==
  /\ AddingDigits \in [Int \X Int -> Int]
  /\ \A v \in Int, b \in Int : AddingDigits[<<v, b>>] = AddDigit(v, b)
<1>1. \A v \in Int, b \in Int : AddDigit(v, b) \in Int
  BY DEF AddDigit
<1> QED BY <1>1 DEF AddingDigits

LEMMA AddDigitFolds ==
  ASSUME NEW seq \in Seq(Int)
  PROVE  Number(seq) = Fold(AddingDigits, 0, seq)
<1> DEFINE n == Len(seq)
           Body(it) == [s \in SUBSET (1 .. n) |->
                          IF s = {} THEN 0 ELSE AddDigit(it[s \ {Max(s)}], seq[Max(s)])]
           P(it) == it = Body(it)
           c == CHOOSE it : P(it)
<1>0. n \in Nat /\ DOMAIN seq = 1 .. n /\ 0 \in Int
  OBVIOUS
<1>1. Number(seq) = c[1 .. n]
  BY <1>0 DEF Number, FoldLeft, MapThenFoldSet
<1>3. PICK d : Iterates(d, AddingDigits, 0, seq, n) /\ Fold(AddingDigits, 0, seq) = d[1 .. n]
  BY FoldIterates
<1>4. ValuesIn(d, Int, n)
  BY <1>0, <1>3, AddDigitTyped, IteratesTyped
<1>5. P(d)
  <2>1. ASSUME NEW s \in SUBSET (1 .. n), s # {} PROVE Max(s) \in s
    BY <1>0, <2>1, MaxMember
  <2>2. ASSUME NEW s \in SUBSET (1 .. n), s # {}
        PROVE  AddingDigits[<<d[s \ {Max(s)}], seq[Max(s)]>>]
                 = AddDigit(d[s \ {Max(s)}], seq[Max(s)])
    <3>1. Max(s) \in 1 .. n /\ s \ {Max(s)} \in SUBSET (1 .. n)
      BY <2>1, <2>2
    <3>2. d[s \ {Max(s)}] \in Int /\ seq[Max(s)] \in Int
      BY <1>0, <1>4, <3>1 DEF ValuesIn
    <3> QED BY AddDigitTyped, <3>2
  <2> QED BY <1>3, <2>2 DEF Iterates
<1>6. P(c)
  <2> HIDE DEF P
  <2> QED BY <1>5, Zenon
<1> HIDE DEF c
<1>7. c[1 .. 0] = 0
  BY <1>6
<1>8. \A k \in 1 .. n : c[1 .. k] = AddDigit(c[1 .. k - 1], seq[k])
  <2> SUFFICES ASSUME NEW k \in 1 .. n PROVE c[1 .. k] = AddDigit(c[1 .. k - 1], seq[k])
    OBVIOUS
  <2>1. k \in Nat /\ k > 0 /\ 1 .. k \in SUBSET (1 .. n)
    BY <1>0
  <2>2. Max(1 .. k) = k /\ (1 .. k) \ {Max(1 .. k)} = 1 .. k - 1 /\ 1 .. k # {}
    BY <2>1, MaxInterval
  <2>3. c[1 .. k] = AddDigit(c[(1 .. k) \ {Max(1 .. k)}], seq[Max(1 .. k)])
    BY <1>6, <2>1, <2>2
  <2> QED BY <2>2, <2>3
<1>9. Steps(d, AddingDigits, 0, seq, n)
  BY <1>0, <1>3, IteratesSteps
<1>10. \A k \in 1 .. n : c[1 .. k - 1] = d[1 .. k - 1] => c[1 .. k] = d[1 .. k]
  <2> SUFFICES ASSUME NEW k \in 1 .. n, c[1 .. k - 1] = d[1 .. k - 1] PROVE c[1 .. k] = d[1 .. k]
    OBVIOUS
  <2>1. d[1 .. k - 1] \in Int /\ seq[k] \in Int
    BY <1>0, <1>4 DEF ValuesIn
  <2>2. c[1 .. k] = AddDigit(d[1 .. k - 1], seq[k])
    BY <1>8
  <2>3. d[1 .. k] = AddingDigits[<<d[1 .. k - 1], seq[k]>>]
    BY <1>9 DEF Steps
  <2> QED BY AddDigitTyped, <2>1, <2>2, <2>3
<1> QED BY <1>0, <1>1, <1>3, <1>7, <1>9, <1>10, Agree DEF Steps

\* No digit counts as zero, and one as itself.
LEMMA OneDigit ==
  /\ ParseParameter(<< >>) = 0
  /\ \A d \in 0 .. 9 : ParseParameter(<<48 + d>>) = d
<1>1. Number(<< >>) = 0
  <2>1. << >> \in Seq(Int)
    OBVIOUS
  <2> QED BY <2>1, AddDigitFolds, FoldEmpty
<1>2. ASSUME NEW d \in 0 .. 9 PROVE Number(<<48 + d>>) = d
  <2>1. << >> \in Seq(Int) /\ <<48 + d>> \in Seq(Int) /\ <<48 + d>> = Append(<< >>, 48 + d)
        /\ 48 + d \in Int /\ 0 \in Int
    OBVIOUS
  <2>2. Number(<<48 + d>>) = Fold(AddingDigits, 0, Append(<< >>, 48 + d))
    BY <2>1, AddDigitFolds
  <2>3. Fold(AddingDigits, 0, Append(<< >>, 48 + d))
          = AddingDigits[<<Fold(AddingDigits, 0, << >>), 48 + d>>]
    <3>1. ASSUME NEW token \in Seq(Int), NEW b \in Int
          PROVE  Fold(AddingDigits, 0, Append(token, b))
                   = AddingDigits[<<Fold(AddingDigits, 0, token), b>>]
      BY FoldAppend
    <3> QED BY <2>1, <3>1
  <2>4. Fold(AddingDigits, 0, << >>) = 0
    BY FoldEmpty
  <2>5. AddingDigits[<<0, 48 + d>>] = AddDigit(0, 48 + d)
    BY <2>1, AddDigitTyped
  <2>6. AddDigit(0, 48 + d) = d
    BY DEF AddDigit
  <2> QED BY <2>2, <2>3, <2>4, <2>5, <2>6
<1>3. \A token : ParseParameter(token) = IF Number(token) < 0 THEN 0 ELSE Number(token)
  BY DEF ParseParameter, Number
<1>4. \A d \in 0 .. 9 : d \in Int /\ ~(d < 0)
  OBVIOUS
<1> QED BY <1>1, <1>2, <1>3, <1>4

LEMMA SubSeqOfOne ==
  ASSUME NEW S, NEW s \in Seq(S), NEW i \in 1 .. Len(s)
  PROVE  SubSeq(s, i, i) = <<s[i]>>
<1> DEFINE p == SubSeq(s, i, i)
           q == <<s[i]>>
<1>1. p \in Seq(S) /\ Len(p) = 1 /\ p[1] = s[i]
  OBVIOUS
<1>2. q \in Seq(S) /\ Len(q) = 1 /\ q[1] = s[i]
  OBVIOUS
<1> HIDE DEF p, q
<1>3. \A j \in 1 .. Len(p) : p[j] = q[j]
  BY <1>1, <1>2
<1>4. p = q
  BY <1>1, <1>2, <1>3, SeqEqual
<1> QED BY <1>4 DEF p, q

\* Nothing between the semicolons, one digit, or two parameters of one digit.
LEMMA ShortParameters ==
  /\ Parameters(<< >>) = <<0, 1>>
  /\ \A d \in 0 .. 9 : Parameters(<<48 + d>>) = <<d, 1>>
  /\ \A d, e \in 0 .. 9 : Parameters(<<48 + d, 59, 48 + e>>) = <<d, e>>
<1> DEFINE Semicolons(s) == {i \in 1 .. Len(s) : s[i] = 59}
           Cut(s) == IF Semicolons(s) # {} THEN Min(Semicolons(s)) ELSE 0
           First(s) == IF Cut(s) = 0 THEN s ELSE SubSeq(s, 1, Cut(s) - 1)
           Both(d, e) == <<48 + d, 59, 48 + e>>
           Text(body) == IF body # << >> /\ body[1] \in {60, 62, 63} THEN Tail(body) ELSE body
<1>1. \A body :
        Parameters(body) =
          <<ParseParameter(First(Text(body))),
            IF Cut(Text(body)) = 0 THEN 1
            ELSE ParseParameter(First(SubSeq(Text(body), Cut(Text(body)) + 1, Len(Text(body)))))>>
  BY DEF Parameters, SelectInSeq
<1>2. Cut(<< >>) = 0 /\ Text(<< >>) = << >>
  OBVIOUS
<1>3. ASSUME NEW d \in 0 .. 9 PROVE Cut(<<48 + d>>) = 0 /\ Text(<<48 + d>>) = <<48 + d>>
  <2> DEFINE s == <<48 + d>>
  <2>1. Len(s) = 1 /\ s[1] = 48 + d /\ s # << >>
    OBVIOUS
  <2> HIDE DEF s
  <2>2. Semicolons(s) = {}
    BY <2>1
  <2>3. Cut(s) = 0 /\ Text(s) = s
    BY <2>1, <2>2
  <2> QED BY <2>3 DEF s
<1>4. ASSUME NEW d \in 0 .. 9, NEW e \in 0 .. 9
      PROVE  /\ Cut(Both(d, e)) = 2 /\ Text(Both(d, e)) = Both(d, e)
             /\ First(Both(d, e)) = <<48 + d>>
             /\ SubSeq(Both(d, e), 3, Len(Both(d, e))) = <<48 + e>>
  <2> DEFINE s == Both(d, e)
  <2>1. Len(s) = 3 /\ s[1] = 48 + d /\ s[2] = 59 /\ s[3] = 48 + e /\ s # << >> /\ s \in Seq(Int)
    OBVIOUS
  <2> HIDE DEF s
  <2>2. SubSeq(s, 1, 1) = <<48 + d>> /\ SubSeq(s, 3, 3) = <<48 + e>>
    BY <2>1, SubSeqOfOne
  <2>3. Semicolons(s) = {2}
    BY <2>1
  <2>4. Min({2}) = 2
    BY DEF Min
  <2>5. Cut(s) = 2 /\ Text(s) = s
    <3>1. Cut(s) = 2
      <4> HIDE DEF Semicolons
      <4> QED BY <2>3, <2>4
    <3>2. s[1] \notin {60, 62, 63}
      BY <2>1
    <3> QED BY <3>1, <3>2
  <2>6. First(s) = SubSeq(s, 1, 1)
    <3> HIDE DEF Cut
    <3>1. 2 - 1 = 1 /\ 2 # 0
      OBVIOUS
    <3> QED BY <2>5, <3>1
  <2> QED BY <2>1, <2>2, <2>5, <2>6 DEF s
<1> HIDE DEF Cut, Text, Semicolons
<1>5. Parameters(<< >>) = <<0, 1>>
  <2>1. First(Text(<< >>)) = << >>
    BY <1>2
  <2> QED BY <1>1, <1>2, <2>1, OneDigit
<1>6. ASSUME NEW d \in 0 .. 9 PROVE Parameters(<<48 + d>>) = <<d, 1>>
  <2>1. First(Text(<<48 + d>>)) = <<48 + d>> /\ Cut(Text(<<48 + d>>)) = 0
    BY <1>3
  <2> HIDE DEF First
  <2> QED BY <1>1, <2>1, OneDigit
<1>7. ASSUME NEW d \in 0 .. 9, NEW e \in 0 .. 9
      PROVE  Parameters(<<48 + d, 59, 48 + e>>) = <<d, e>>
  <2> DEFINE s == Both(d, e)
  <2>1. /\ Text(s) = s /\ Cut(s) = 2
        /\ First(s) = <<48 + d>> /\ SubSeq(s, 3, Len(s)) = <<48 + e>>
    <3> HIDE DEF First, Both
    <3> QED BY <1>4
  <2>2. First(<<48 + e>>) = <<48 + e>>
    BY <1>3
  <2> HIDE DEF First, Both, s
  <2>3. Parameters(s) = <<ParseParameter(First(s)), ParseParameter(First(SubSeq(s, 3, Len(s))))>>
    BY <1>1, <2>1
  <2>4. Parameters(s) = <<ParseParameter(<<48 + d>>), ParseParameter(<<48 + e>>)>>
    BY <2>1, <2>2, <2>3
  <2> QED BY <2>4, OneDigit DEF s, Both
<1> QED BY <1>5, <1>6, <1>7

LEMMA FewModifiers == Modifiers(1) = {} /\ Modifiers(6) = {"shift", "control"}
<1> DEFINE Bit(bits, d) == (bits \div d) % 2 = 1
<1>1. \A parameter \in Nat : LET bits == IF parameter < 1 THEN 0 ELSE parameter - 1 IN
        /\ Modifiers(parameter) \subseteq {"shift", "alt", "control", "super"}
        /\ "shift" \in Modifiers(parameter) <=> Bit(bits, 1)
        /\ "alt" \in Modifiers(parameter) <=> Bit(bits, 2)
        /\ "control" \in Modifiers(parameter) <=> Bit(bits, 4)
        /\ "super" \in Modifiers(parameter) <=> Bit(bits, 8)
  BY DEF Modifiers
<1>2. ~Bit(0, 1) /\ ~Bit(0, 2) /\ ~Bit(0, 4) /\ ~Bit(0, 8)
  OBVIOUS
<1>3. Bit(5, 1) /\ ~Bit(5, 2) /\ Bit(5, 4) /\ ~Bit(5, 8)
  OBVIOUS
<1> HIDE DEF Bit
<1>4. /\ Modifiers(1) \subseteq {"shift", "alt", "control", "super"}
      /\ Modifiers(6) \subseteq {"shift", "alt", "control", "super"}
      /\ "shift" \notin Modifiers(1) /\ "alt" \notin Modifiers(1)
      /\ "control" \notin Modifiers(1) /\ "super" \notin Modifiers(1)
      /\ "shift" \in Modifiers(6) /\ "alt" \notin Modifiers(6)
      /\ "control" \in Modifiers(6) /\ "super" \notin Modifiers(6)
  <2>1. 1 \in Nat /\ 6 \in Nat /\ (IF 1 < 1 THEN 0 ELSE 1 - 1) = 0 /\ (IF 6 < 1 THEN 0 ELSE 6 - 1) = 5
    OBVIOUS
  <2> QED BY <1>1, <1>2, <1>3, <2>1
<1> QED BY <1>4

\* A keystroke is one token, with these events.
Means(k, e) == k \in Seq(Byte) /\ k # << >> /\ FirstToken(k) = Token(Len(k), e)

\* A key's sequence: ESC [, a body without a final byte, and the final byte.
IsCsi(k, n, body) ==
  /\ k \in Seq(Byte) /\ n \in Nat /\ Len(k) = n /\ n >= 3 /\ n <= MaxSequence
  /\ k[1] = 27 /\ k[2] = 91 /\ k[n] \in 64 .. 126
  /\ \A i \in Nat : i >= 3 /\ i < n => k[i] < 64
  /\ SubSeq(k, 3, n - 1) = body

Tilde == 126

LEMMA CsiKey ==
  ASSUME NEW k, NEW n, NEW body, IsCsi(k, n, body)
  PROVE  /\ k # << >>
         /\ body = << >> /\ k[n] = 79 => FirstToken(k) = Token(n, Focus("FocusLost"))
         /\ k[n] = Tilde /\ Parameters(body)[1] \in TildeCodes =>
              FirstToken(k) = Token(n, Pulse(<<"tilde", Parameters(body)[1]>>,
                                             Modifiers(Parameters(body)[2])))
         /\ k[n] \in KeyFinals =>
              FirstToken(k) = Token(n, Pulse(<<"final", k[n]>>, Modifiers(Parameters(body)[2])))
<1>0. /\ k \in Seq(Byte) /\ n \in Nat /\ Len(k) = n /\ n >= 3 /\ n <= MaxSequence
      /\ k[1] = 27 /\ k[2] = 91 /\ k[n] \in 64 .. 126
      /\ SubSeq(k, 3, n - 1) = body
  BY DEF IsCsi
<1>1. k # << >> /\ AtCsi(k)
  BY <1>0 DEF AtCsi, ESC
<1>2. Ends(k, n)
  <2>1. Ending(k, n)
    BY <1>0, ParserAssumption DEF Ending
  <2>2. ASSUME NEW i \in Nat, Ending(k, i) PROVE n <= i
    <3>1. i >= 3 /\ i <= n /\ k[i] \in 64 .. 126
      BY <1>0, <2>2, ParserAssumption DEF Ending
    <3>2. i < n => k[i] < 64
      BY <3>1 DEF IsCsi
    <3>3. ~(k[i] \in 64 .. 126 /\ k[i] < 64)
      OBVIOUS
    <3>4. ~(i < n)
      BY <3>1, <3>2, <3>3, Zenon
    <3>5. i \in Nat /\ n \in Nat
      BY <1>0
    <3> HIDE <2>2
    <3> QED BY <3>4, <3>5
  <2> QED BY <2>1, <2>2 DEF Ends
<1>3. FirstToken(k) = Token(n, ParseCsi(SubSeq(k, 1, n)))
  BY <1>0, <1>1, <1>2, TokenCases
<1>4. SubSeq(k, 1, n) = k
  BY <1>0
<1> DEFINE p == Parameters(body)
<1>5. ParseCsi(k) =
        CASE body = << >> /\ k[n] = 73 -> Focus("FocusGained")
          [] body = << >> /\ k[n] = 79 -> Focus("FocusLost")
          [] k[n] = 126 /\ p[1] \in TildeCodes -> Pulse(<<"tilde", p[1]>>, Modifiers(p[2]))
          [] k[n] \in KeyFinals -> Pulse(<<"final", k[n]>>, Modifiers(p[2]))
          [] OTHER -> << >>
  BY <1>0 DEF ParseCsi
<1> HIDE DEF p
<1>6. body = << >> /\ k[n] = 79 => ParseCsi(k) = Focus("FocusLost")
  <2>1. 79 \notin KeyFinals
    BY DEF KeyFinals
  <2> QED BY <1>5, <2>1
<1>7. k[n] = 126 /\ p[1] \in TildeCodes => ParseCsi(k) = Pulse(<<"tilde", p[1]>>, Modifiers(p[2]))
  <2>1. 126 \notin KeyFinals
    BY DEF KeyFinals
  <2> QED BY <1>5, <2>1
<1>8. k[n] \in KeyFinals => ParseCsi(k) = Pulse(<<"final", k[n]>>, Modifiers(p[2]))
  <2>1. 73 \notin KeyFinals /\ 79 \notin KeyFinals /\ 126 \notin KeyFinals
    BY DEF KeyFinals
  <2> QED BY <1>5, <2>1
<1> QED BY <1>1, <1>3, <1>4, <1>6, <1>7, <1>8 DEF p, Tilde

\* The keys that are named by the final byte, and by the first parameter.
LEMMA KeyOfFinal ==
  ASSUME NEW k, NEW n, NEW body, IsCsi(k, n, body), k[n] \in KeyFinals
  PROVE  Means(k, Pulse(<<"final", k[n]>>, Modifiers(Parameters(body)[2])))
<1>1. k \in Seq(Byte) /\ Len(k) = n
  BY DEF IsCsi
<1>2. k # << >> /\ FirstToken(k) = Token(n, Pulse(<<"final", k[n]>>, Modifiers(Parameters(body)[2])))
  BY CsiKey, Zenon
<1> QED BY <1>1, <1>2 DEF Means

LEMMA KeyOfTilde ==
  ASSUME NEW k, NEW n, NEW body,
         IsCsi(k, n, body), k[n] = Tilde, Parameters(body)[1] \in TildeCodes
  PROVE  Means(k, Pulse(<<"tilde", Parameters(body)[1]>>, Modifiers(Parameters(body)[2])))
<1>1. k \in Seq(Byte) /\ Len(k) = n
  BY DEF IsCsi
<1>2. k # << >> /\ FirstToken(k) = Token(n, Pulse(<<"tilde", Parameters(body)[1]>>,
                                                 Modifiers(Parameters(body)[2])))
  BY CsiKey, Zenon
<1> QED BY <1>1, <1>2 DEF Means

LEMMA LostByFinal ==
  ASSUME NEW k, NEW n, IsCsi(k, n, << >>), k[n] = 79
  PROVE  Means(k, Focus("FocusLost"))
<1>1. k \in Seq(Byte) /\ Len(k) = n
  BY DEF IsCsi
<1>2. k # << >> /\ FirstToken(k) = Token(n, Focus("FocusLost"))
  BY CsiKey
<1> QED BY <1>1, <1>2 DEF Means

LEMMA SubSeqOfThree ==
  ASSUME NEW S, NEW s \in Seq(S), NEW i \in Nat, i >= 1, i + 2 <= Len(s)
  PROVE  SubSeq(s, i, i + 2) = <<s[i], s[i + 1], s[i + 2]>>
<1> DEFINE p == SubSeq(s, i, i + 2)
           q == <<s[i], s[i + 1], s[i + 2]>>
<1>1. p \in Seq(S) /\ Len(p) = 3 /\ p[1] = s[i] /\ p[2] = s[i + 1] /\ p[3] = s[i + 2]
  OBVIOUS
<1>2. q \in Seq(S) /\ Len(q) = 3 /\ q[1] = s[i] /\ q[2] = s[i + 1] /\ q[3] = s[i + 2]
  OBVIOUS
<1> HIDE DEF p, q
<1>3. \A j \in 1 .. 3 : j = 1 \/ j = 2 \/ j = 3
  OBVIOUS
<1>4. \A j \in 1 .. Len(p) : p[j] = q[j]
  BY <1>1, <1>2, <1>3
<1>5. p = q
  BY <1>1, <1>2, <1>4, SeqEqual
<1> QED BY <1>5 DEF p, q

LEMMA KeyUpMeans == Means(<<27, 91, 65>>, Pulse(<<"final", 65>>, {}))
<1> DEFINE k == <<27, 91, 65>>
<1>1. /\ k \in Seq(Byte) /\ Len(k) = 3 /\ k[1] = 27 /\ k[2] = 91 /\ k[3] = 65
      /\ SubSeq(k, 3, 2) = << >>
  BY DEF Byte
<1> HIDE DEF k
<1>2. IsCsi(k, 3, << >>)
  <2>1. 3 \in Nat /\ 3 >= 3 /\ 3 <= MaxSequence /\ 65 \in 64 .. 126 /\ 3 - 1 = 2
    BY ParserAssumption
  <2>2. \A i \in Nat : ~(i >= 3 /\ i < 3)
    OBVIOUS
  <2> QED BY <1>1, <2>1, <2>2, Zenon DEF IsCsi
<1>3. 65 \in KeyFinals
  BY DEF KeyFinals
<1>4. Modifiers(Parameters(<< >>)[2]) = {}
  BY ShortParameters, FewModifiers
<1>5. Means(k, Pulse(<<"final", 65>>, {}))
  <2>1. k[3] \in KeyFinals
    BY <1>1, <1>3
  <2>2. Means(k, Pulse(<<"final", k[3]>>, Modifiers(Parameters(<< >>)[2])))
    BY <1>2, <2>1, KeyOfFinal, Zenon
  <2> QED BY <1>1, <1>4, <2>2
<1> QED BY <1>5 DEF k

LEMMA KeyRightMeans ==
  ASSUME MaxSequence >= 6
  PROVE  Means(<<27, 91, 49, 59, 54, 67>>, Pulse(<<"final", 67>>, {"shift", "control"}))
<1> DEFINE k == <<27, 91, 49, 59, 54, 67>>
           body == <<49, 59, 54>>
<1>1. k \in Seq(Byte) /\ Len(k) = 6 /\ k[1] = 27 /\ k[2] = 91 /\ k[3] = 49 /\ k[4] = 59
      /\ k[5] = 54 /\ k[6] = 67
  BY DEF Byte
<1>2. SubSeq(k, 3, 5) = body
  <2> HIDE DEF k
  <2>1. 3 \in Nat /\ 3 >= 1 /\ 3 + 2 <= Len(k) /\ 3 + 1 = 4 /\ 3 + 2 = 5
    BY <1>1
  <2>2. SubSeq(k, 3, 3 + 2) = <<k[3], k[3 + 1], k[3 + 2]>>
    <3>1. ASSUME NEW s \in Seq(Byte), NEW i \in Nat, i >= 1, i + 2 <= Len(s)
          PROVE  SubSeq(s, i, i + 2) = <<s[i], s[i + 1], s[i + 2]>>
      BY <3>1, SubSeqOfThree
    <3> QED BY <1>1, <2>1, <3>1
  <2> QED BY <1>1, <2>1, <2>2
<1>3. Parameters(body)[2] = 6
  <2>1. 1 \in 0 .. 9 /\ 6 \in 0 .. 9 /\ body = <<48 + 1, 59, 48 + 6>>
    OBVIOUS
  <2>2. Parameters(body) = <<1, 6>>
    <3> HIDE DEF body
    <3> QED BY <2>1, ShortParameters
  <2> QED BY <2>2
<1> HIDE DEF k, body
<1>4. IsCsi(k, 6, body)
  <2>1. 6 \in Nat /\ 6 >= 3 /\ 6 <= MaxSequence /\ 67 \in 64 .. 126 /\ 6 - 1 = 5
    OBVIOUS
  <2>2. ASSUME NEW i \in Nat, i >= 3, i < 6 PROVE k[i] < 64
    <3>1. i = 3 \/ i = 4 \/ i = 5
      BY <2>2
    <3>2. k[3] < 64 /\ k[4] < 64 /\ k[5] < 64
      BY <1>1
    <3> QED BY <3>1, <3>2, Zenon
  <2> QED BY <1>1, <1>2, <2>1, <2>2, Zenon DEF IsCsi
<1>5. 67 \in KeyFinals
  BY DEF KeyFinals
<1>6. Modifiers(Parameters(body)[2]) = {"shift", "control"}
  BY <1>3, FewModifiers
<1>7. Means(k, Pulse(<<"final", 67>>, {"shift", "control"}))
  <2>1. k[6] \in KeyFinals
    BY <1>1, <1>5
  <2>2. Means(k, Pulse(<<"final", k[6]>>, Modifiers(Parameters(body)[2])))
    BY <1>4, <2>1, KeyOfFinal, Zenon
  <2> QED BY <1>1, <1>6, <2>2
<1> QED BY <1>7 DEF k

LEMMA KeyDeleteMeans == Means(<<27, 91, 51, 126>>, Pulse(<<"tilde", 3>>, {}))
<1> DEFINE k == <<27, 91, 51, 126>>
           body == <<51>>
<1>1. k \in Seq(Byte) /\ Len(k) = 4 /\ k[1] = 27 /\ k[2] = 91 /\ k[3] = 51 /\ k[4] = 126
  BY DEF Byte
<1>2. SubSeq(k, 3, 3) = body
  <2> HIDE DEF k
  <2>1. 3 \in 1 .. Len(k)
    BY <1>1
  <2>2. SubSeq(k, 3, 3) = <<k[3]>>
    <3>1. k \in Seq(Byte)
      BY <1>1
    <3> QED BY <2>1, <3>1, SubSeqOfOne, Zenon
  <2> QED BY <1>1, <2>2
<1>3. Parameters(body) = <<3, 1>>
  <2>1. 3 \in 0 .. 9 /\ 48 + 3 = 51
    OBVIOUS
  <2> QED BY <2>1, ShortParameters
<1>4. Parameters(body)[1] = 3 /\ Parameters(body)[2] = 1
  BY <1>3
<1> HIDE DEF k, body
<1>5. IsCsi(k, 4, body)
  <2>1. 4 \in Nat /\ 4 >= 3 /\ 4 <= MaxSequence /\ 126 \in 64 .. 126 /\ 4 - 1 = 3
    BY ParserAssumption
  <2>2. ASSUME NEW i \in Nat, i >= 3, i < 4 PROVE k[i] < 64
    <3>1. i = 3
      BY <2>2
    <3>2. k[3] < 64
      BY <1>1
    <3> QED BY <3>1, <3>2, Zenon
  <2> QED BY <1>1, <1>2, <2>1, <2>2, Zenon DEF IsCsi
<1>6. 3 \in TildeCodes
  BY DEF TildeCodes
<1>7. Modifiers(Parameters(body)[2]) = {}
  BY <1>4, FewModifiers
<1>8. Means(k, Pulse(<<"tilde", 3>>, {}))
  <2>1. k[4] = Tilde /\ Parameters(body)[1] \in TildeCodes
    BY <1>1, <1>4, <1>6 DEF Tilde
  <2>2. Means(k, Pulse(<<"tilde", Parameters(body)[1]>>, Modifiers(Parameters(body)[2])))
    BY <1>5, <2>1, KeyOfTilde, Zenon
  <2> QED BY <1>4, <1>7, <2>2
<1> QED BY <1>8 DEF k

LEMMA FocusLostMeans == Means(<<27, 91, 79>>, Focus("FocusLost"))
<1> DEFINE k == <<27, 91, 79>>
<1>1. /\ k \in Seq(Byte) /\ Len(k) = 3 /\ k[1] = 27 /\ k[2] = 91 /\ k[3] = 79
      /\ SubSeq(k, 3, 2) = << >>
  BY DEF Byte
<1> HIDE DEF k
<1>2. IsCsi(k, 3, << >>)
  <2>1. 3 \in Nat /\ 3 >= 3 /\ 3 <= MaxSequence /\ 79 \in 64 .. 126 /\ 3 - 1 = 2
    BY ParserAssumption
  <2>2. \A i \in Nat : ~(i >= 3 /\ i < 3)
    OBVIOUS
  <2> QED BY <1>1, <2>1, <2>2, Zenon DEF IsCsi
<1>3. Means(k, Focus("FocusLost"))
  BY <1>1, <1>2, LostByFinal, Zenon
<1> QED BY <1>3 DEF k

LEMMA KeyF1Means == Means(<<27, 79, 80>>, Pulse(<<"final", 80>>, {}))
<1> DEFINE k == <<27, 79, 80>>
<1>1. k \in Seq(Byte) /\ Len(k) = 3 /\ k[1] = 27 /\ k[2] = 79 /\ k[3] = 80 /\ k # << >>
  BY DEF Byte
<1> HIDE DEF k
<1>2. AtSs3(k) /\ Len(k) > 2
  BY <1>1 DEF AtSs3, ESC
<1>3. FirstToken(k) = Token(3, ParseSs3(80))
  BY <1>1, <1>2, TokenCases
<1>4. ParseSs3(80) = Pulse(<<"final", 80>>, {})
  BY DEF ParseSs3, KeyFinals
<1>5. Means(k, Pulse(<<"final", 80>>, {}))
  BY <1>1, <1>3, <1>4, Zenon DEF Means
<1> QED BY <1>5 DEF k

LEMMA ControlMeans == Means(<<3>>, Pulse(<<"control", 3>>, {"control"}))
<1> DEFINE k == <<3>>
<1>1. k \in Seq(Byte) /\ Len(k) = 1 /\ k[1] = 3 /\ k # << >>
  BY DEF Byte
<1> HIDE DEF k
<1>2. 3 \in ControlBytes
  BY DEF ControlBytes, ESC
<1>3. FirstToken(k) = Token(1, ControlPulse(3))
  BY <1>1, <1>2, TokenCases
<1>4. ControlPulse(3) = Pulse(<<"control", 3>>, {"control"})
  BY DEF ControlPulse
<1>5. Means(k, Pulse(<<"control", 3>>, {"control"}))
  BY <1>1, <1>3, <1>4, Zenon DEF Means
<1> QED BY <1>5 DEF k

LEMMA StartsItself ==
  ASSUME NEW s \in Seq(Byte)
  PROVE  Starts(s, s)
  BY DEF Starts

\* A character is one token, and so is Alt with one.
LEMMA CharacterMeans ==
  ASSUME NEW c \in Nat, IsScalar(c), AtPlain(Encode(c))
  PROVE  Means(Encode(c), CharacterPulse(c, {}))
<1> DEFINE k == Encode(c)
<1>1. k \in Seq(Byte) /\ Len(k) \in 1 .. 4
  BY EncodeTyped
<1>2. Starts(k, Encode(c))
  BY <1>1, StartsItself
<1>3. DecodeNext(k) = [character |-> c, length |-> Len(k), complete |-> TRUE]
  BY <1>1, <1>2, EncodingDecoded
<1> HIDE DEF k
<1>4. k # << >>
  BY <1>1
<1>5. AtPlain(k)
  BY DEF k
<1>6. FirstToken(k) = Token(Len(k), CharacterPulse(c, {}))
  BY <1>1, <1>3, <1>4, <1>5, TokenCases
<1>7. Means(k, CharacterPulse(c, {}))
  BY <1>1, <1>4, <1>6, Zenon DEF Means
<1> QED BY <1>7 DEF k

LEMMA AltCharacterMeans ==
  ASSUME NEW c \in Nat, IsScalar(c), NEW k \in Seq(Byte), k # << >>, AtAlt(k), Tail(k) = Encode(c)
  PROVE  Means(k, CharacterPulse(c, {"alt"}))
<1> DEFINE t == Encode(c)
<1>1. t \in Seq(Byte) /\ Len(t) \in 1 .. 4
  BY EncodeTyped
<1>2. Starts(t, Encode(c))
  BY <1>1, StartsItself
<1>3. DecodeNext(t) = [character |-> c, length |-> Len(t), complete |-> TRUE]
  BY <1>1, <1>2, EncodingDecoded
<1>4. Tail(k) = t
  OBVIOUS
<1> HIDE DEF t
<1>5. Len(k) = 1 + Len(t)
  BY <1>4
<1>6. FirstToken(k) = Token(Len(k), CharacterPulse(c, {"alt"}))
  <2> DEFINE d == DecodeNext(Tail(k))
  <2>1. d.complete /\ d.length = Len(t) /\ d.character = c
    <3>1. d = DecodeNext(t)
      BY <1>4, Zenon
    <3> HIDE DEF d
    <3> QED BY <1>3, <3>1
  <2> HIDE DEF d
  <2>2. AtAlt(k) /\ d.complete => FirstToken(k) = Token(1 + d.length, CharacterPulse(d.character, {"alt"}))
    BY TokenCases, Zenon DEF d
  <2> QED BY <1>5, <2>1, <2>2
<1> QED BY <1>6, Zenon DEF Means

LEMMA PlainMeans == Means(<<65>>, CharacterPulse(65, {"shift"}))
<1>1. 65 \in Nat /\ IsScalar(65) /\ 65 < 128 /\ 65 \notin ControlBytes \cup {ESC}
  BY DEF IsScalar, ControlBytes, ESC
<1>2. Encode(65) = <<65>>
  BY <1>1, Encodings, SMT
<1>3. AtPlain(Encode(65))
  BY <1>1, <1>2 DEF AtPlain
<1>4. Means(Encode(65), CharacterPulse(65, {}))
  BY <1>1, <1>3, CharacterMeans
<1>5. CharacterPulse(65, {}) = CharacterPulse(65, {"shift"})
  <2>1. IsShifted(65)
    BY DEF IsShifted
  <2>2. {} \cup {"shift"} = {"shift"} /\ {"shift"} \cup {"shift"} = {"shift"}
    OBVIOUS
  <2> QED BY <2>1, <2>2, Zenon DEF CharacterPulse
<1> QED BY <1>2, <1>4, <1>5

LEMMA SmileyMeans == Means(<<240, 159, 153, 130>>, CharacterPulse(128578, {}))
<1> SUFFICES ASSUME NEW c \in Nat, c = 128578
             PROVE  Means(<<240, 159, 153, 130>>, CharacterPulse(c, {}))
  BY SMT
<1>1. IsScalar(c) /\ NeedsFour(c)
  BY SMT DEF IsScalar, NeedsFour
<1>2. Four(c) = <<240, 159, 153, 130>>
  <2>1. /\ c \div 262144 = 0 /\ (c \div 4096) % 64 = 31
        /\ (c \div 64) % 64 = 25 /\ c % 64 = 2
    BY SMT
  <2> QED BY <2>1, SMT DEF Four
<1>3. Encode(c) = <<240, 159, 153, 130>>
  BY <1>1, <1>2, Encodings, SMT
<1>4. AtPlain(Encode(c))
  BY <1>3, SMT DEF AtPlain, ControlBytes, ESC
<1>5. Means(Encode(c), CharacterPulse(c, {}))
  BY <1>1, <1>4, CharacterMeans, SMT
<1> QED BY <1>3, <1>5, SMT

LEMMA AltMeans == Means(<<27, 195, 169>>, CharacterPulse(233, {"alt"}))
<1>1. 233 \in Nat /\ IsScalar(233) /\ NeedsTwo(233)
  BY SMT DEF IsScalar, NeedsTwo
<1>2. Two(233) = <<195, 169>>
  <2>1. 233 \div 64 = 3 /\ 233 % 64 = 41
    BY SMT
  <2> QED BY <2>1, SMT DEF Two
<1>3. Encode(233) = <<195, 169>>
  BY <1>1, <1>2, Encodings, SMT
<1> DEFINE k == <<27, 195, 169>>
<1>4. k \in Seq(Byte) /\ k # << >> /\ AtAlt(k)
  BY DEF Byte, AtAlt, ESC
<1>5. Tail(k) = Encode(233)
  BY <1>3
<1> HIDE DEF k
<1>6. Means(k, CharacterPulse(233, {"alt"}))
  BY <1>1, <1>4, <1>5, AltCharacterMeans
<1> QED BY <1>6 DEF k

\* Every keystroke that says one thing is one token, with the events it means.
LEMMA SayingsMean == ASSUME MaxSequence >= 6, NEW s \in Sayings PROVE Means(s.bytes, s.events)
<1>1. \A k, e : Saying(k, e).bytes = k /\ Saying(k, e).events = e
  BY DEF Saying
<1>2. \A k, e : Means(k, e) => Means(Saying(k, e).bytes, Saying(k, e).events)
  BY <1>1, Zenon
<1> DEFINE M(q) == Means(q.bytes, q.events)
<1>3. /\ M(Saying(<<27, 91, 65>>, Pulse(<<"final", 65>>, {})))
      /\ M(Saying(<<27, 91, 49, 59, 54, 67>>, Pulse(<<"final", 67>>, {"shift", "control"})))
      /\ M(Saying(<<27, 91, 51, 126>>, Pulse(<<"tilde", 3>>, {})))
      /\ M(Saying(<<27, 79, 80>>, Pulse(<<"final", 80>>, {})))
      /\ M(Saying(<<27, 195, 169>>, CharacterPulse(233, {"alt"})))
  BY <1>2, KeyUpMeans, KeyRightMeans, KeyDeleteMeans, KeyF1Means, AltMeans, SMT
<1>4. /\ M(Saying(<<240, 159, 153, 130>>, CharacterPulse(128578, {})))
      /\ M(Saying(<<65>>, CharacterPulse(65, {"shift"})))
      /\ M(Saying(<<3>>, Pulse(<<"control", 3>>, {"control"})))
      /\ M(Saying(<<27, 91, 79>>, Focus("FocusLost")))
  BY <1>2, SmileyMeans, PlainMeans, ControlMeans, FocusLostMeans, SMT
<1> HIDE DEF M
<1>5. M(s)
  BY <1>3, <1>4, SMT DEF Sayings
<1> QED BY <1>5 DEF M

LEMMA MeaningMeans ==
  ASSUME MaxSequence >= 6, NEW k \in DOMAIN Meaning
  PROVE  Means(k, Meaning[k])
<1> DEFINE c == CHOOSE s \in Sayings : s.bytes = k
<1>1. \E s \in Sayings : s.bytes = k
  BY Zenon DEF Meaning
<1>2. c \in Sayings /\ c.bytes = k
  BY <1>1, Zenon
<1>3. Meaning[k] = c.events
  BY Zenon DEF Meaning
<1> HIDE DEF c
<1>4. Means(c.bytes, c.events)
  BY <1>2, SayingsMean
<1> QED BY <1>2, <1>3, <1>4, Zenon

\* What one keystroke comes to.
LEMMA WholeKey ==
  ASSUME MaxSequence >= 6, NEW k \in DOMAIN Meaning
  PROVE  /\ k \in Seq(Byte) /\ Meaning[k] \in Seq(Event)
         /\ Whole(k).events = Meaning[k] /\ Whole(k).rest = << >>
<1> DEFINE e == Meaning[k]
<1>1. k \in Seq(Byte) /\ k # << >> /\ FirstToken(k) = Token(Len(k), e)
  BY MeaningMeans DEF Means
<1> HIDE DEF e
<1>2. TokenOf(k).length = Len(k) /\ TokenOf(k).events = e
  BY <1>1, TokenForms DEF TokenOf
<1>3. e \in Seq(Event)
  BY <1>1, <1>2, EventsTyped
<1>4. Len(k) \in Nat /\ Len(k) # 0 /\ Suffix(k, 1 + Len(k)) = << >>
  <2>1. Len(k) \in Nat /\ Len(k) # 0 /\ 1 + Len(k) \in 1 .. Len(k) + 1 /\ 1 + Len(k) > Len(k)
    BY <1>1
  <2> QED BY <1>1, <2>1, SuffixFacts
<1>5. Whole(k) = Behind(e, Whole(<< >>))
  BY <1>1, <1>2, <1>4, WholeStep
<1>6. << >> \in Seq(Byte) /\ Whole(<< >>) = Nothing(<< >>)
  <2>1. << >> \in Seq(Byte) /\ TokenOf(<< >>).length = 0
    BY TokenForms DEF TokenOf
  <2> QED BY <2>1, WholeStep
<1>7. Nothing(<< >>) \in Outcome
  BY <1>6, OutcomeForms
<1>8. Whole(k).events = e /\ Whole(k).rest = << >>
  <2>1. Behind(e, Nothing(<< >>)).events = e /\ Behind(e, Nothing(<< >>)).rest = << >>
    BY <1>3, <1>6, <1>7, BehindNothing, Zenon
  <2> QED BY <1>5, <1>6, <2>1, Zenon
<1> QED BY <1>1, <1>3, <1>8 DEF e

\* What the keystrokes of a series mean, one after the other.
Meant(ks) == [i \in DOMAIN ks |-> Meaning[ks[i]]]
Said(ks) == FlattenSeq(Meant(ks))

LEMMA MeantAppended ==
  ASSUME MaxSequence >= 6, NEW ks \in Seq(DOMAIN Meaning), NEW k \in DOMAIN Meaning
  PROVE  /\ ks \in Seq(Seq(Byte)) /\ Meant(ks) \in Seq(Seq(Event))
         /\ Said(Append(ks, k)) = Said(ks) \o Meaning[k] /\ Said(ks) \in Seq(Event)
<1> DEFINE K == DOMAIN Meaning
           m == Meant(ks)
           e == Meaning[k]
           t == Append(ks, k)
<1>1. \A q \in K : q \in Seq(Byte) /\ Meaning[q] \in Seq(Event)
  BY WholeKey
<1>2. e \in Seq(Event)
  BY <1>1
<1>3. Len(ks) \in Nat /\ DOMAIN ks = 1 .. Len(ks) /\ \A i \in 1 .. Len(ks) : ks[i] \in K
  <2>1. ks \in Seq(K)
    OBVIOUS
  <2> HIDE DEF K
  <2> QED BY <2>1
<1>4. ks \in Seq(Seq(Byte))
  <2>1. K \subseteq Seq(Byte)
    BY <1>1
  <2> HIDE DEF K
  <2>2. ks \in Seq(K)
    BY DEF K
  <2>3. ks = [i \in 1 .. Len(ks) |-> ks[i]]
    BY <2>2
  <2>4. \A i \in 1 .. Len(ks) : ks[i] \in Seq(Byte)
    BY <1>3, <2>1
  <2> HIDE <2>2
  <2> QED BY <1>3, <2>3, <2>4
<1>5. m \in Seq(Seq(Event)) /\ Len(m) = Len(ks) /\ \A i \in 1 .. Len(ks) : m[i] = Meaning[ks[i]]
  <2>1. m = [i \in 1 .. Len(ks) |-> Meaning[ks[i]]]
    BY <1>3 DEF Meant
  <2>2. \A i \in 1 .. Len(ks) : Meaning[ks[i]] \in Seq(Event)
    BY <1>1, <1>3
  <2> HIDE DEF m
  <2> QED BY <1>3, <2>1, <2>2
<1>6. Len(t) = Len(ks) + 1 /\ DOMAIN t = 1 .. Len(ks) + 1 /\ t[Len(ks) + 1] = k
      /\ \A i \in 1 .. Len(ks) : t[i] = ks[i]
  <2> HIDE DEF K
  <2>1. ks \in Seq(K) /\ k \in K
    BY DEF K
  <2> QED BY <2>1
<1> HIDE DEF t
<1>7. Meant(t) = Append(m, e)
  <2> DEFINE p == Meant(t)
             q == Append(m, e)
  <2>1. p = [i \in 1 .. Len(ks) + 1 |-> Meaning[t[i]]]
    BY <1>6 DEF Meant
  <2>2. \A i \in 1 .. Len(ks) + 1 : Meaning[t[i]] \in Seq(Event)
    <3>1. \A i \in 1 .. Len(ks) + 1 : i \in 1 .. Len(ks) \/ i = Len(ks) + 1
      BY <1>3
    <3> QED BY <1>1, <1>3, <1>6, <3>1
  <2> HIDE DEF m, e
  <2>3. q \in Seq(Seq(Event)) /\ Len(q) = Len(ks) + 1 /\ q[Len(ks) + 1] = e
        /\ \A i \in 1 .. Len(ks) : q[i] = m[i]
    BY <1>2, <1>3, <1>5
  <2> HIDE DEF p, q
  <2>4. p \in Seq(Seq(Event)) /\ Len(p) = Len(ks) + 1
        /\ \A i \in 1 .. Len(ks) + 1 : p[i] = Meaning[t[i]]
    BY <1>3, <2>1, <2>2
  <2>5. \A i \in 1 .. Len(p) : p[i] = q[i]
    <3> SUFFICES ASSUME NEW i \in 1 .. Len(ks) + 1 PROVE p[i] = q[i]
      BY <2>4
    <3>1. i \in 1 .. Len(ks) \/ i = Len(ks) + 1
      BY <1>3
    <3>2. p[i] = Meaning[t[i]]
      BY <2>4, Zenon
    <3>3. i \in 1 .. Len(ks) => q[i] = Meaning[t[i]]
      <4>1. i \in 1 .. Len(ks) => t[i] = ks[i] /\ m[i] = Meaning[ks[i]] /\ q[i] = m[i]
        BY <1>5, <1>6, <2>3, Zenon
      <4> QED BY <4>1, Zenon
    <3>4. i = Len(ks) + 1 => q[i] = Meaning[t[i]]
      BY <1>6, <2>3, Zenon DEF e
    <3> QED BY <3>1, <3>2, <3>3, <3>4, Zenon
  <2>6. p = q
    BY <2>3, <2>4, <2>5, SeqEqual
  <2> QED BY <2>6 DEF p, q
<1>8. FlattenSeq(m) \in Seq(Event) /\ FlattenSeq(Append(m, e)) = FlattenSeq(m) \o e
  <2> HIDE DEF m, e
  <2> QED BY <1>2, <1>5, Flattened
<1> QED BY <1>4, <1>5, <1>7, <1>8 DEF t, Said

\* A series of keystrokes says what each of them means and leaves no byte over.
SaysAll(ks) ==
  /\ FlattenSeq(ks) \in Seq(Byte) /\ Said(ks) \in Seq(Event)
  /\ Whole(FlattenSeq(ks)).events = Said(ks) /\ Whole(FlattenSeq(ks)).rest = << >>

LEMMA SaysNothing == SaysAll(<< >>)
<1>1. << >> \in Seq(Seq(Byte)) /\ << >> \in Seq(Seq(Event)) /\ << >> \in Seq(Byte)
      /\ << >> \in Seq(Event)
  OBVIOUS
<1>2. FlattenSeq(<< >>) = << >>
  BY <1>1, Flattened
<1>3. Said(<< >>) = << >>
  <2>1. Meant(<< >>) = << >>
    BY DEF Meant
  <2> QED BY <1>2, <2>1 DEF Said
<1>4. Whole(<< >>) = Nothing(<< >>)
  <2>1. TokenOf(<< >>).length = 0
    BY TokenForms DEF TokenOf
  <2> QED BY <1>1, <2>1, WholeStep
<1> QED BY <1>1, <1>2, <1>3, <1>4, OutcomeForms DEF SaysAll

LEMMA SaysOneMore ==
  ASSUME MaxSequence >= 6, NEW ks \in Seq(DOMAIN Meaning), NEW k \in DOMAIN Meaning, SaysAll(ks)
  PROVE  SaysAll(Append(ks, k))
<1> DEFINE x == FlattenSeq(ks)
           d == Said(ks)
           e == Meaning[k]
           y == FlattenSeq(Append(ks, k))
<1>1. x \in Seq(Byte) /\ d \in Seq(Event) /\ Whole(x).events = d /\ Whole(x).rest = << >>
  BY DEF SaysAll
<1>2. k \in Seq(Byte) /\ e \in Seq(Event) /\ Whole(k).events = e /\ Whole(k).rest = << >>
  BY WholeKey
<1>3. y = x \o k
  BY <1>2, MeantAppended, Flattened
<1>4. Said(Append(ks, k)) = d \o e
  BY MeantAppended
<1> HIDE DEF x, d, e, y
<1>5. Whole(x \o k) = Behind(d, Whole(k))
  <2>1. << >> \o k = k
    BY <1>2
  <2>2. Whole(x \o k) = Behind(Whole(x).events, Whole(Whole(x).rest \o k))
    BY <1>1, <1>2, WholeAppended
  <2> QED BY <1>1, <2>1, <2>2
<1>6. Whole(k) \in Outcome
  BY <1>2, WholeStep
<1>7. Whole(y).events = d \o e /\ Whole(y).rest = << >>
  <2> DEFINE r == Whole(k)
  <2>1. r \in Outcome /\ r.events = e /\ r.rest = << >> /\ Whole(y) = Behind(d, r)
    BY <1>2, <1>3, <1>5, <1>6, Zenon
  <2> HIDE DEF r
  <2>2. Behind(d, r).events = d \o r.events /\ Behind(d, r).rest = r.rest
    BY <1>1, <2>1, OutcomeForms, Zenon
  <2> QED BY <2>1, <2>2, Zenon
<1>8. y \in Seq(Byte) /\ d \o e \in Seq(Event)
  BY <1>1, <1>2, <1>3
<1>9. SaysAll(Append(ks, k)) <=>
        /\ y \in Seq(Byte) /\ Said(Append(ks, k)) \in Seq(Event)
        /\ Whole(y).events = Said(Append(ks, k)) /\ Whole(y).rest = << >>
  BY DEF SaysAll, y
<1> QED BY <1>4, <1>7, <1>8, <1>9

LEMMA WholeKeys ==
  ASSUME MaxSequence >= 6
  PROVE  \A ks \in Seq(DOMAIN Meaning) : SaysAll(ks)
<1> DEFINE K == DOMAIN Meaning
           N == {n \in Nat : \A ks \in Seq(K) : Len(ks) = n => SaysAll(ks)}
<1> HIDE DEF K
<1>1. 0 \in N
  <2>1. \A ks \in Seq(K) : Len(ks) = 0 => ks = << >>
    OBVIOUS
  <2> QED BY <2>1, SaysNothing
<1>2. ASSUME NEW n \in Nat, n \in N PROVE n + 1 \in N
  <2> SUFFICES ASSUME NEW ks \in Seq(K), Len(ks) = n + 1 PROVE SaysAll(ks)
    OBVIOUS
  <2> DEFINE f == SubSeq(ks, 1, n)
             k == ks[n + 1]
  <2>1. f \in Seq(K) /\ Len(f) = n /\ k \in K
    OBVIOUS
  <2>2. ks = Append(f, k)
    <3> DEFINE g == Append(f, k)
    <3>1. g \in Seq(K) /\ Len(g) = n + 1 /\ \A i \in 1 .. n + 1 : g[i] = ks[i]
      OBVIOUS
    <3> HIDE DEF g
    <3>2. g = ks
      BY <3>1, SeqEqual
    <3> QED BY <3>2 DEF g
  <2>3. SaysAll(f)
    <3> HIDE DEF f
    <3> QED BY <1>2, <2>1
  <2> HIDE DEF f, k
  <2>4. SaysAll(Append(f, k))
    BY <2>1, <2>3, SaysOneMore DEF K
  <2> QED BY <2>2, <2>4
<1> HIDE DEF N
<1>3. \A n \in Nat : n \in N
  BY <1>1, <1>2, Induction
<1>4. ASSUME NEW ks \in Seq(K) PROVE SaysAll(ks)
  <2>1. Len(ks) \in Nat
    OBVIOUS
  <2> QED BY <1>3, <2>1 DEF N
<1> QED BY <1>4 DEF K

LEMMA PrefixOfMore ==
  ASSUME NEW S, NEW a \in Seq(S), NEW b \in Seq(S)
  PROVE  IsPrefix(a, a \o b)
<1> DEFINE t == a \o b
           p == SubSeq(t, 1, Len(a))
           q == SubSeq(a, 1, Len(a))
<1>1. /\ t \in Seq(S) /\ Len(t) = Len(a) + Len(b) /\ Len(a) \in Nat /\ Len(b) \in Nat
      /\ \A i \in 1 .. Len(a) : t[i] = a[i]
  BY Concatenated
<1> HIDE DEF t
<1>2. Len(a) <= Len(t)
  BY <1>1
<1>3. p \in Seq(S) /\ Len(p) = Len(a) /\ \A i \in 1 .. Len(a) : p[i] = t[i]
  BY <1>1, <1>2
<1>4. q \in Seq(S) /\ Len(q) = Len(a) /\ \A i \in 1 .. Len(a) : q[i] = a[i]
  BY <1>1
<1> HIDE DEF p, q
<1>5. \A i \in 1 .. Len(p) : p[i] = q[i]
  BY <1>1, <1>3, <1>4
<1>6. q = p
  BY <1>3, <1>4, <1>5, SeqEqual
<1> QED BY <1>2, <1>6 DEF IsPrefix, p, q, t

\* "Reads may be split at any byte boundary": a series of keystrokes yields the
\* events of each, in order and nothing else, when sequences of six bytes are
\* within the bound (EscapeSequenceParser.cpp:354-469).
THEOREM Keys == ASSUME MaxSequence >= 6 PROVE Spec => []KeysRecognised
<1>1. ASSUME BufferInv, StreamInv, ReadInv, PiecesDoNotMatter PROVE KeysRecognised
  <2> SUFFICES ASSUME pc = "idle", ~cut, \A i \in DOMAIN sent : sent[i] \in DOMAIN Meaning
               PROVE  /\ IsPrefix(events, Said(sent))
                      /\ wire = << >> => events = Said(sent) /\ buffer = << >>
    BY DEF KeysRecognised, Said, Meant
  <2> DEFINE b == BytesRead
             r == Whole(b)
             w == wire
  <2>1. Types
    BY <1>1 DEF BufferInv
  <2>2. w \in Seq(Byte) /\ b \in Seq(Byte) /\ FlattenSeq(sent) = b \o w
        /\ sent \in Seq(Seq(Byte))
    BY <1>1, <2>1, StreamFacts
  <2>3. events = r.events /\ buffer = r.rest
    BY <1>1 DEF PiecesDoNotMatter
  <2>4. SaysAll(sent)
    <3> DEFINE K == DOMAIN Meaning
    <3>1. \A i \in DOMAIN sent : sent[i] \in K
      OBVIOUS
    <3> HIDE DEF K
    <3>2. Len(sent) \in Nat /\ DOMAIN sent = 1 .. Len(sent) /\ sent = [i \in 1 .. Len(sent) |-> sent[i]]
      BY <2>2
    <3>3. sent \in Seq(K)
      BY <3>1, <3>2
    <3> QED BY <3>3, WholeKeys DEF K
  <2> HIDE DEF b, w
  <2>5. r \in Outcome /\ events \in Seq(Event) /\ buffer \in Seq(Byte)
    BY <2>2, <2>3, WholeStep, OutcomeForms
  <2> DEFINE z == Whole(buffer \o w)
  <2>6. z \in Outcome
    <3>1. buffer \o w \in Seq(Byte)
      BY <2>2, <2>5
    <3> QED BY <3>1, WholeStep
  <2>7. Whole(b \o w) = Behind(events, z)
    <3> HIDE DEF r
    <3>1. Whole(b \o w) = Behind(Whole(b).events, Whole(Whole(b).rest \o w))
      BY <2>2, WholeAppended
    <3> QED BY <2>3, <3>1 DEF r
  <2> HIDE DEF z
  <2>8. Whole(b \o w).events = Said(sent) /\ Whole(b \o w).rest = << >>
    BY <2>2, <2>4 DEF SaysAll
  <2>9. Said(sent) = events \o z.events /\ z.events \in Seq(Event)
    <3>1. Behind(events, z).events = events \o z.events /\ z.events \in Seq(Event)
      <4> HIDE DEF r
      <4> QED BY <2>5, <2>6, OutcomeForms, Zenon
    <3> QED BY <2>7, <2>8, <3>1, Zenon
  <2>10. IsPrefix(events, Said(sent))
    <3> DEFINE c == z.events
    <3>1. c \in Seq(Event)
      BY <2>9
    <3> HIDE DEF c
    <3>2. IsPrefix(events, events \o c)
      BY <2>5, <3>1, PrefixOfMore
    <3> QED BY <2>9, <3>2 DEF c
  <2>11. wire = << >> => events = Said(sent) /\ buffer = << >>
    <3>1. b \o << >> = b
      BY <2>2
    <3> QED BY <2>3, <2>8, <3>1 DEF w
  <2> QED BY <2>10, <2>11
<1>2. StreamInv /\ ReadInv /\ BufferInv /\ [Next]_vars => (StreamInv /\ ReadInv)'
  BY ReadNext
<1>3. Spec => [](StreamInv /\ ReadInv)
  BY <1>2, ReadStarts, BufferInvariant, PTL DEF Spec
<1> QED BY <1>1, <1>3, BufferInvariant, Pieces, PTL
=============================================================================
