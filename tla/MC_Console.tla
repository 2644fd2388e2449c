----------------------------- MODULE MC_Console -----------------------------
(***************************************************************************)
(* Small terminals, an int of four bits and rectangles at its edges.       *)
(***************************************************************************)
EXTENDS ConsoleProperties

MCIntMin == -8

MCSizes == {[width |-> 3, height |-> 1], [width |-> 2, height |-> 2]}

White == [foreground |-> "white", background |-> "black"]
Red == [foreground |-> "red", background |-> "blue"]
MCInks == {White, Red}
MCResetPen == [foreground |-> "reset", background |-> "reset"]

MCTexts == {<<"a", "escape", " ", "a", "escape">>, <<"a", " ">>}
ShortTexts == {<<" ", "escape">>}

\* Part of the frame, more than the frame, an area that ends at the greatest
\* int and beyond it, one that begins at the least and one with a negative side.
MCAreas ==
  {Rect(1, 0, 2, 1), Rect(0, -1, 2, 3), Rect(1, 0, 7, 7), Rect(-8, 0, 7, 2), Rect(1, 0, -8, 2)}

\* A line at the right and a border without ends, and the whole frame.
MCDrawAreas == {Rect(1, 0, 2, 1), Rect(0, -1, 2, 3)}
=============================================================================
