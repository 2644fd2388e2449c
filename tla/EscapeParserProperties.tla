----------------------- MODULE EscapeParserProperties -----------------------
(***************************************************************************)
(* What the escape-sequence parser promises.                               *)
(***************************************************************************)
EXTENDS EscapeParser

Modifier == {"shift", "alt", "control", "super"}

\* Keys are the tables' keys, the keys with a control byte, and the characters,
\* which are Unicode scalar values; text is a character, and a focus report
\* has neither key nor modifiers.
IsCharacter(key) == key \in {"character"} \X Nat /\ IsScalar(key[2])
IsKey(key) ==
  \/ key \in {<<"Escape">>, <<"Enter">>, <<"Tab">>, <<"Backspace">>}
  \/ key \in {"control"} \X (ControlBytes \ {8, 9, 10, 13, 127})
  \/ key \in {"tilde"} \X TildeCodes
  \/ key \in {"final"} \X KeyFinals
  \/ IsCharacter(key)

IsEvent(e) ==
  /\ e.modifiers \subseteq Modifier
  /\ \/ e.type \in {"KeyDown", "KeyUp"} /\ IsKey(e.key)
     \/ e.type = "Text" /\ IsCharacter(e.key)
     \/ e.type \in {"FocusGained", "FocusLost"} /\ e.key = <<"none">> /\ e.modifiers = {}

\* The types of the variables and of the events; between two calls of the
\* parser nothing of the buffer is used, and a parse never uses more than there
\* is.
TypeOK ==
  /\ buffer \in Seq(0 .. 255)
  /\ consumed \in 0 .. Len(buffer)
  /\ escapePending \in BOOLEAN /\ expired \in BOOLEAN /\ cut \in BOOLEAN
  /\ pc \in {"idle", "parse", "force", "flush", "drain"}
  /\ pc \in {"idle", "drain"} => consumed = 0
  /\ \A i \in DOMAIN events : IsEvent(events[i])
  /\ wire \in Seq(0 .. 255)
  /\ sent \in Seq(Keystrokes)

\* What the Escape delay waits for is exactly an Escape with nothing after it
\* (EscapeSequenceParser.cpp:364-376): no other rest of the input is ever given
\* up to the timeout, and none of these waits without one.
PendingIsLoneEscape ==
  pc = "idle" => /\ escapePending <=> buffer = <<ESC>>
                 /\ expired => escapePending

\* "Escape sequences are bounded": between two calls the buffer holds less than
\* the longest sequence, whatever the terminal sends and however it is cut
\* (EscapeSequenceParser.cpp:388-402, and Unicode.cpp:49 for characters).
BufferBounded == pc = "idle" => Len(buffer) < MaxSequence

\* Keystrokes that say one thing only, and the events each stands for: keys
\* with and without modifiers, characters, Alt, a control key, a focus report.
Saying(k, pulses) == [bytes |-> k, events |-> pulses]
Sayings ==
  {Saying(<<27, 91, 65>>, Pulse(<<"final", 65>>, {})),                       \* Up
   Saying(<<27, 91, 49, 59, 54, 67>>, Pulse(<<"final", 67>>, {"shift", "control"})),
   Saying(<<27, 91, 51, 126>>, Pulse(<<"tilde", 3>>, {})),                   \* Delete
   Saying(<<27, 79, 80>>, Pulse(<<"final", 80>>, {})),                       \* F1
   Saying(<<27, 195, 169>>, CharacterPulse(233, {"alt"})),                   \* Alt, e acute
   Saying(<<240, 159, 153, 130>>, CharacterPulse(128578, {})),               \* a smiley
   Saying(<<65>>, CharacterPulse(65, {"shift"})),
   Saying(<<3>>, Pulse(<<"control", 3>>, {"control"})),
   Saying(<<27, 91, 79>>, Focus("FocusLost"))}

Meaning ==
  [k \in {s.bytes : s \in Sayings} |-> (CHOOSE s \in Sayings : s.bytes = k).events]

\* "Reads may be split at any byte boundary": however read() cuts the bytes,
\* a series of keystrokes yields the events of each, in order and nothing
\* else, as long as no delay ran out in the middle of one
\* (EscapeSequenceParser.cpp:354-469).
KeysRecognised ==
  pc = "idle" /\ ~cut /\ (\A i \in DOMAIN sent : sent[i] \in DOMAIN Meaning) =>
    LET meant == FlattenSeq([i \in DOMAIN sent |-> Meaning[sent[i]]])
    IN /\ IsPrefix(events, meant)
       /\ wire = <<>> => events = meant /\ buffer = <<>>

-----------------------------------------------------------------------------
(* The same bytes, read at once: what a series of bytes says, token by     *)
(* token from the left, when nothing is known of reads and calls.          *)

Token(n, pulses) == [length |-> n, events |-> pulses]
Unclear == Token(0, <<>>)

\* The token that a non-empty series begins with, once it is all there.
FirstToken(bytes) ==
  LET second == IF Len(bytes) > 1 THEN bytes[2] ELSE -1
      alt == DecodeNext(Tail(bytes))
      plain == DecodeNext(bytes)
      IsFinal(i) == bytes[i] \in 64 .. 126
      body == {i \in 3 .. MaxSequence : i <= Len(bytes)}
      closed == {i \in body : IsFinal(i) /\ \A j \in body : IsFinal(j) => i <= j}
  IN CASE bytes[1] \in ControlBytes -> Token(1, ControlPulse(bytes[1]))
       [] bytes[1] = ESC /\ second = 91 /\ closed # {} ->
            LET n == CHOOSE i \in closed : TRUE IN Token(n, ParseCsi(SubSeq(bytes, 1, n)))
       [] bytes[1] = ESC /\ second = 91 /\ closed = {} /\ Len(bytes) >= MaxSequence ->
            Token(1, EscapePulse)
       [] bytes[1] = ESC /\ second = 79 /\ Len(bytes) > 2 -> Token(3, ParseSs3(bytes[3]))
       [] bytes[1] = ESC /\ second \notin {-1, 79, 91} /\ alt.complete ->
            Token(1 + alt.length, CharacterPulse(alt.character, {"alt"}))
       [] bytes[1] \notin ControlBytes \cup {ESC} /\ plain.complete ->
            Token(plain.length, CharacterPulse(plain.character, {}))
       [] OTHER -> Unclear

\* The events of all tokens, and the bytes after the last of them.
Whole(bytes) ==
  LET from[i \in 1 .. Len(bytes) + 1] ==
        LET rest == SubSeq(bytes, i, Len(bytes))
            token == IF rest = <<>> THEN Unclear ELSE FirstToken(rest)
        IN IF token.length = 0 THEN [events |-> <<>>, rest |-> rest]
           ELSE [from[i + token.length] EXCEPT !.events = token.events \o @]
  IN from[1]

BytesRead ==
  LET all == FlattenSeq(sent) IN SubSeq(all, 1, Len(all) - Len(wire))

\* "Reads may be split at any byte boundary", for any bytes at all: what has
\* been recognised and what is kept depend on the bytes alone and not on how
\* they were cut, as long as no parse was forced
\* (EscapeSequenceParser.cpp:354-469).
PiecesDoNotMatter ==
  pc = "idle" /\ ~cut =>
    LET whole == Whole(BytesRead)
    IN events = whole.events /\ buffer = whole.rest
-----------------------------------------------------------------------------
\* A lone Escape is delayed, not kept: it becomes the Escape key or the first
\* byte of something longer (EscapeSequenceParser.cpp:327-331 and 364-381).
EscapeResolved == escapePending ~> ~escapePending
=============================================================================
