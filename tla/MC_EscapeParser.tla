-------------------------- MODULE MC_EscapeParser --------------------------
(***************************************************************************)
(* The escape-sequence parser on small inputs: whole keystrokes, and any   *)
(* bytes at all.                                                           *)
(***************************************************************************)
EXTENDS EscapeParserProperties

\* Escape, the beginnings of CSI and SS3, a parameter byte, a control byte and
\* the lead byte of four.
AnyBytes == {<<27>>, <<91>>, <<79>>, <<49>>, <<13>>, <<240>>}

Strokes == DOMAIN Meaning \cup AnyBytes

\* How many bytes are worth typing after a first one: a sequence too long, an
\* Escape or a character with whatever follows, a byte before any of these.
MostBytes(s) ==
  CASE IsPrefix(<<<<27>>, <<91>>, <<49>>>>, s) -> 6
    [] ~IsPrefix(<<<<27>>, <<91>>, <<49>>>>, s) /\ s[1] \in {<<27>>, <<240>>} -> 5
    [] OTHER -> 4

\* Three keystrokes, or any bytes.
Typed(s) ==
  \/ Len(s) <= 3 /\ Range(s) \subseteq DOMAIN Meaning
  \/ Range(s) \subseteq AnyBytes /\ Len(s) <= MostBytes(s)
=============================================================================
