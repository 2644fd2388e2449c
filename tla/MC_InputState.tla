---------------------------- MODULE MC_InputState ----------------------------
(***************************************************************************)
(* Values for TLC: two keys, a character and every type of native event.   *)
(***************************************************************************)
EXTENDS InputStateProperties

CONSTANTS k1, k2, unknown

MCKeys == <<k1, k2>>

Key(t, k, r) == [type |-> t, key |-> k, repeated |-> r]

\* Presses and releases, of which one press may come with its repeats
\* (wRepeatCount of a Windows key event), the unknown key, text and focus.
MCEvents ==
  {Key(t, k, FALSE) : t \in {"KeyDown", "KeyUp"}, k \in {k1, k2}}
    \cup {Key("KeyDown", k1, TRUE), Key("KeyDown", unknown, FALSE)}
    \cup {[type |-> "Text", character |-> "c"]}
    \cup {[type |-> t] : t \in {"FocusGained", "FocusLost"}}
=============================================================================
