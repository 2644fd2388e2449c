-------------------------- MODULE MC_WindowsInput --------------------------
(***************************************************************************)
(* Values for TLC: a shift key, a control key and a letter.                *)
(***************************************************************************)
EXTENDS WindowsInputProperties

MCKeys == <<"RightShift", "LeftControl", "A">>
MCUnitOf == [k \in Keys \cup {Unknown} |-> IF k = "A" THEN 65 ELSE 0]

\* Two high surrogates and a low one, and their characters.
MCPasted == {55357, 55358, 56832}
MCCharacters == {65, Unpaired, Pair(55357, 56832), Pair(55358, 56832)}
=============================================================================
