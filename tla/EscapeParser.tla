---------------------------- MODULE EscapeParser ----------------------------
(***************************************************************************)
(* detail/EscapeSequenceParser.cpp: bytes that arrive in pieces of any     *)
(* size become key presses, text and focus events.  A step of a parse is   *)
(* one round of the loop of parseAvailable().  A lone Escape waits for the *)
(* bytes that would make it the beginning of a sequence; when none comes   *)
(* in time it is the Escape key.                                           *)
(*                                                                         *)
(* Bytes are numbers.  A key is named by what it was recognised from: the  *)
(* tables that number the keys are left out, and so is the native code.    *)
(***************************************************************************)
EXTENDS Integers, Sequences, Utf8

CONSTANTS
  Keystrokes,   \* what the terminal may send: sequences of bytes
  MaxSequence,  \* MAX_ESCAPE_SEQUENCE_LENGTH
  MaxPiece,     \* bound: bytes that one feed() adds
  Typable(_)    \* bound: the series of keystrokes sent since the last reset

ASSUME ParserAssumption ==
  /\ Keystrokes \subseteq Seq(0 .. 255)
  /\ MaxSequence \in Nat /\ MaxSequence >= 5
  /\ MaxPiece \in Nat

VARIABLES
  buffer,         \* the bytes not yet erased
  consumed,       \* how many of them this parseAvailable() has used
  escapePending,  \* a lone Escape is being delayed
  expired,        \* ESCAPE_DELAY has passed since escapePendingSince
  pc,             \* "idle"; "parse" for feed(), "force" for flushExpired(),
                  \* "flush" and "drain" for the halves of flush()
  events,         \* the native events since the last reset
  wire,           \* the terminal: bytes that read() has yet to return
  sent,           \* auxiliary: the keystrokes sent since the last reset
  cut             \* auxiliary: a parse was forced since the last reset

terminal == <<wire, sent>>
vars == <<buffer, consumed, escapePending, expired, pc, events, wire, sent, cut>>

ESC == 27
-----------------------------------------------------------------------------
(* Events.                                                                 *)

KeyEvent(type, k, m) == [type |-> type, key |-> k, modifiers |-> m]

\* appendKeyPulse(), isShiftedAscii() and appendCharacterPulse().
Pulse(k, m) == <<KeyEvent("KeyDown", k, m), KeyEvent("KeyUp", k, m)>>

IsShifted(c) ==
  c \in 65 .. 90 \cup 33 .. 38 \cup 40 .. 43
          \cup {58, 60, 62, 63, 64, 94, 95} \cup 123 .. 126

CharacterPulse(c, m) ==
  LET modifiers == m \cup (IF IsShifted(c) THEN {"shift"} ELSE {})
  IN Append(Pulse(<<"character", c>>, modifiers),
            KeyEvent("Text", <<"character", c>>, modifiers))

EscapePulse == Pulse(<<"Escape">>, {})
Focus(type) == <<KeyEvent(type, <<"none">>, {})>>

\* appendControlPulse(), and the bytes that are tested before it.
ControlBytes == (0 .. 31 \ {ESC}) \cup {127}

ControlPulse(b) ==
  CASE b \in {10, 13} -> Pulse(<<"Enter">>, {})
    [] b = 9 -> Pulse(<<"Tab">>, {})
    [] b \in {8, 127} -> Pulse(<<"Backspace">>, {})
    [] OTHER -> Pulse(<<"control", b>>,
                      {"control"} \cup (IF b \in {30, 31} THEN {"shift"} ELSE {}))
-----------------------------------------------------------------------------
(* CSI and SS3 sequences.                                                  *)

\* parseParameter(): what is no number that fits an int counts as zero.
AddDigit(v, b) ==
  IF \/ v < 0
     \/ b \notin 48 .. 57
     \/ v > 214748364
     \/ v = 214748364 /\ b > 55
  THEN -1 ELSE v * 10 + (b - 48)

ParseParameter(token) ==
  LET value == FoldLeft(AddDigit, 0, token) IN IF value < 0 THEN 0 ELSE value

\* parseParameters(), of which only the first two are looked at; a second one
\* that is missing counts as 1.
Parameters(body) ==
  LET text == IF body # <<>> /\ body[1] \in {60, 62, 63} THEN Tail(body) ELSE body
      IsSemicolon(b) == b = 59
      Cut(s) == SelectInSeq(s, IsSemicolon)
      First(s) == IF Cut(s) = 0 THEN s ELSE SubSeq(s, 1, Cut(s) - 1)
  IN <<ParseParameter(First(text)),
       IF Cut(text) = 0 THEN 1
       ELSE ParseParameter(First(SubSeq(text, Cut(text) + 1, Len(text))))>>

ModifiersOffByOne(parameter) ==
  LET Bit(i) == (parameter \div 2 ^ i) % 2 = 1
  IN {m \in {"shift", "alt", "control", "super"} :
        Bit(CASE m = "shift" -> 0 [] m = "alt" -> 1 [] m = "control" -> 2 [] m = "super" -> 3)}

\* modifiersFromParameter(): shift, Alt, control and super are bits 0 to 3.
Modifiers(parameter) ==
  LET bits == IF parameter < 1 THEN 0 ELSE parameter - 1
      Bit(value) == (bits \div value) % 2 = 1
  IN {m \in {"shift", "alt", "control", "super"} :
        Bit(CASE m = "shift" -> 1 [] m = "alt" -> 2 [] m = "control" -> 4 [] m = "super" -> 8)}

\* The keys of keyFromTildeCode() and keyFromFinal().
TildeCodes == 1 .. 8 \cup 11 .. 15 \cup 17 .. 21 \cup 23 .. 26
                \cup {28, 29} \cup 31 .. 34
KeyFinals == 65 .. 68 \cup {70, 72} \cup 80 .. 83

\* parseCsi() for a whole sequence: the focus reports, then the keys.
ParseCsi(s) ==
  LET final == s[Len(s)]
      body == SubSeq(s, 3, Len(s) - 1)
      p == Parameters(body)
  IN CASE body = <<>> /\ final = 73 -> Focus("FocusGained")
       [] body = <<>> /\ final = 79 -> Focus("FocusLost")
       [] final = 126 /\ p[1] \in TildeCodes -> Pulse(<<"tilde", p[1]>>, Modifiers(p[2]))
       [] final \in KeyFinals -> Pulse(<<"final", final>>, Modifiers(p[2]))
       [] OTHER -> <<>>

ParseSs3(final) == IF final \in KeyFinals THEN Pulse(<<"final", final>>, {}) ELSE <<>>
-----------------------------------------------------------------------------
(* parseAvailable(): one round for what the loop finds next.               *)

Rest == SubSeq(buffer, consumed + 1, Len(buffer))
Forced == pc \in {"force", "flush"}
Parsing == pc = "parse" \/ Forced

\* Whether the next byte is an Escape, and a given one follows it.
AtEscape == Parsing /\ Rest # <<>> /\ Rest[1] = ESC
AfterEscape(bytes) == AtEscape /\ Len(Rest) > 1 /\ Rest[2] \in bytes

Use(n, pulses) ==
  /\ consumed' = consumed + n
  /\ events' = events \o pulses
  /\ UNCHANGED <<buffer, pc, terminal, cut>>

\* The end of the loop: what was used is erased.
Stop ==
  /\ buffer' = Rest
  /\ consumed' = 0
  /\ pc' = IF pc = "flush" THEN "drain" ELSE "idle"
  /\ UNCHANGED <<events, terminal, cut>>

PendingLeft == UNCHANGED <<escapePending, expired>>
PendingCleared == escapePending' = FALSE /\ expired' = FALSE
PendingKept == UNCHANGED <<escapePending, expired>>

DelayEscape ==
  /\ AtEscape /\ Len(Rest) = 1
  /\ ~Forced
  /\ escapePending' = TRUE
  /\ expired' = (escapePending /\ expired)
  /\ Stop

LoneEscape ==
  /\ AtEscape /\ Len(Rest) = 1
  /\ Forced
  /\ Use(1, EscapePulse)
  /\ PendingCleared

\* ESC [: parameters up to a final byte.  The bytes of an Escape that begins
\* no sequence are read again as ordinary input.
Finals == {i \in 3 .. MaxSequence : i <= Len(Rest) /\ Rest[i] \in 64 .. 126}
NeverTooLong == TRUE
WithinBound == Len(Rest) < MaxSequence

CsiSequence ==
  /\ AfterEscape({91})
  /\ \E n \in Finals :
       /\ \A i \in Finals : n <= i
       /\ Use(n, ParseCsi(SubSeq(Rest, 1, n)))
  /\ PendingCleared

CsiRecovered ==
  /\ AfterEscape({91})
  /\ Finals = {}
  /\ WithinBound => Forced
  /\ Use(1, EscapePulse)
  /\ PendingCleared

CsiAwaited ==
  /\ AfterEscape({91})
  /\ Finals = {}
  /\ WithinBound /\ ~Forced
  /\ Stop
  /\ PendingCleared

\* ESC O: one byte more.
Ss3Sequence ==
  /\ AfterEscape({79})
  /\ Len(Rest) > 2
  /\ Use(3, ParseSs3(Rest[3]))
  /\ PendingCleared

\* ESC and a character: Alt.
DecodedAtOnce ==
  IF DecodeNext(Rest).complete THEN DecodeNext(Rest)
  ELSE [character |-> Replacement, length |-> 1, complete |-> TRUE]
Decoded == DecodeNext(Rest)
AltDecoded == DecodeNext(Tail(Rest))

AltCharacter ==
  /\ AfterEscape(0 .. 255 \ {79, 91})
  /\ AltDecoded.complete
  /\ Use(1 + AltDecoded.length, CharacterPulse(AltDecoded.character, {"alt"}))
  /\ PendingCleared

\* What follows the Escape is not all there yet.
Unfinished ==
  \/ AfterEscape({79}) /\ Len(Rest) = 2
  \/ AfterEscape(0 .. 255 \ {79, 91}) /\ ~AltDecoded.complete

EscapeRecovered ==
  /\ Unfinished
  /\ Forced
  /\ Use(1, EscapePulse)
  /\ PendingCleared

SequenceAwaited ==
  /\ Unfinished
  /\ ~Forced
  /\ Stop
  /\ PendingCleared

ControlKey ==
  /\ Parsing /\ Rest # <<>> /\ Rest[1] \in ControlBytes
  /\ Use(1, ControlPulse(Rest[1]))
  /\ PendingKept

\* Text; a character that is not all there waits even in a forced parse.
AtText == Parsing /\ Rest # <<>> /\ Rest[1] \notin ControlBytes \cup {ESC}

CharacterAsAlt ==
  /\ AtText
  /\ Decoded.complete
  /\ Use(1 + Decoded.length, CharacterPulse(Decoded.character, {}))
  /\ PendingKept

Character ==
  /\ AtText
  /\ Decoded.complete
  /\ Use(Decoded.length, CharacterPulse(Decoded.character, {}))
  /\ PendingKept

CharacterAwaited ==
  /\ AtText
  /\ ~Decoded.complete
  /\ Stop
  /\ PendingKept

Exhausted ==
  /\ Parsing /\ Rest = <<>>
  /\ Stop
  /\ PendingKept
-----------------------------------------------------------------------------
(* The callers.                                                            *)

Init ==
  /\ buffer = <<>> /\ consumed = 0
  /\ escapePending = FALSE /\ expired = FALSE
  /\ pc = "idle"
  /\ events = <<>>
  /\ wire = <<>> /\ sent = <<>> /\ cut = FALSE

\* The terminal sends what was typed.
Send(k) ==
  /\ Typable(Append(sent, k))
  /\ sent' = Append(sent, k)
  /\ wire' = wire \o k
  /\ UNCHANGED <<buffer, consumed, escapePending, expired, pc, events, cut>>

\* feed(): read() returns some of the bytes on the wire.
Feed ==
  /\ pc = "idle"
  /\ wire # <<>>
  /\ \E n \in 1 .. MaxPiece :
       /\ n <= Len(wire)
       /\ buffer' = buffer \o SubSeq(wire, 1, n)
       /\ wire' = SubSeq(wire, n + 1, Len(wire))
  /\ pc' = "parse"
  /\ UNCHANGED <<consumed, escapePending, expired, events, sent, cut>>

\* 25 ms have passed since the delay began.
Elapse ==
  /\ pc = "idle"
  /\ escapePending /\ ~expired
  /\ expired' = TRUE
  /\ UNCHANGED <<buffer, consumed, escapePending, pc, events, terminal, cut>>

FlushUnforced ==
  /\ pc = "idle"
  /\ escapePending /\ expired
  /\ pc' = "parse"
  /\ cut' = TRUE
  /\ UNCHANGED <<buffer, consumed, escapePending, expired, events, terminal>>

FlushExpired ==
  /\ pc = "idle"
  /\ escapePending /\ expired
  /\ pc' = "force"
  /\ cut' = TRUE
  /\ UNCHANGED <<buffer, consumed, escapePending, expired, events, terminal>>

\* flush(): a forced parse, then whatever it left is text.
Flush ==
  /\ pc = "idle"
  /\ buffer # <<>>
  /\ pc' = "flush"
  /\ cut' = TRUE
  /\ UNCHANGED <<buffer, consumed, escapePending, expired, events, terminal>>

Drain ==
  /\ pc = "drain"
  /\ buffer # <<>>
  /\ LET d == DecodeNext(buffer)
         n == IF d.complete THEN d.length ELSE 1
     IN /\ events' = events \o CharacterPulse(d.character, {})
        /\ buffer' = SubSeq(buffer, n + 1, Len(buffer))
  /\ UNCHANGED <<consumed, escapePending, expired, pc, terminal, cut>>

Drained ==
  /\ pc = "drain"
  /\ buffer = <<>>
  /\ pc' = "idle"
  /\ PendingCleared
  /\ UNCHANGED <<buffer, consumed, events, terminal, cut>>

\* reset(), for platformFlushInput(): the kernel's queue is flushed with it.
Reset ==
  /\ pc = "idle"
  /\ sent # <<>>
  /\ buffer' = <<>>
  /\ PendingCleared
  /\ wire' = <<>> /\ sent' = <<>> /\ events' = <<>> /\ cut' = FALSE
  /\ UNCHANGED <<consumed, pc>>

Round ==
  \/ DelayEscape \/ LoneEscape
  \/ CsiSequence \/ CsiRecovered \/ CsiAwaited
  \/ Ss3Sequence \/ AltCharacter \/ EscapeRecovered \/ SequenceAwaited
  \/ ControlKey \/ Character \/ CharacterAwaited \/ Exhausted
  \/ Drain \/ Drained

Next ==
  \/ Round
  \/ \E k \in Keystrokes : Send(k)
  \/ Feed \/ Elapse \/ FlushExpired \/ Flush \/ Reset

Spec == Init /\ [][Next]_vars

\* A parse runs to its end, and every frame of the application reads what has
\* arrived and then looks at the delay (platformReadInput()).
Fairness == WF_vars(Round) /\ WF_vars(Feed) /\ WF_vars(Elapse) /\ WF_vars(FlushExpired)

FairSpec == Spec /\ Fairness
=============================================================================
