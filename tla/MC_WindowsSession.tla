------------------------- MODULE MC_WindowsSession -------------------------
(***************************************************************************)
(* Values for TLC: two handler threads, sessions with and without a title, *)
(* its restoration and the handler.                                        *)
(***************************************************************************)
EXTENDS WindowsSessionProperties, TLC

MCOptions ==
  {DefaultOptions,
   [DefaultOptions EXCEPT !.title = FALSE],
   [DefaultOptions EXCEPT !.restoreTitle = FALSE],
   [DefaultOptions EXCEPT !.title = FALSE, !.handlers = FALSE]}

\* Every call of the constructor may fail, and one of those that put back.
Failures ==
  {"handles", "install", "write", "allocate"} \cup Saves \cup Sets \cup {"outMode"}

HandlerSymmetry == Permutations(Handlers)
=============================================================================
