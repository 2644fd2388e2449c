--------------------------- MODULE MC_ConsoleText ---------------------------
(***************************************************************************)
(* MC_Console with texts that wrap: a word too long for its line, a line   *)
(* break, an empty line and a control character that is drawn.  One ink,   *)
(* since where something is drawn does not depend on its colours.          *)
(***************************************************************************)
EXTENDS MC_Console, ConsoleTextProperties

MCOneInk == {White}

MCWrapped ==
  {<<"a", "a", "a", Blank, "escape">>, <<"a", Newline, Return, Newline, "a", Tab, "a">>}
=============================================================================
