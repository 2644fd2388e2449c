------------------------ MODULE ConsoleTextProperties ------------------------
(***************************************************************************)
(* What drawing wrapped text promises, besides its lines.                  *)
(***************************************************************************)
EXTENDS ConsoleText, ConsoleProperties

\* Wrapped lines stand one below the other, each aligned by its own length, and
\* nothing is drawn outside of the area, the frame or a clip, for areas up to
\* the edges of int (Console.cpp:433-464).  What was drawn before makes no
\* difference to it: it is looked at before the first drawing.  Of texts and
\* numbers of lines that fit an int, as which the code takes their sizes.
LinesPlaced ==
  frameBufferActive /\ draws = 0 =>
    \A area \in {a \in Areas : a.width > 0 /\ a.height > 0},
       text \in {t \in WrappedTexts : Len(t) <= IntMax},
       alignment \in {"Left", "Centre", "Right"} :
      LET lines == WrappedLines(text, area.width)
          drawn == TextWrapped(area, text, alignment, DefaultInk)
          inside == {p \in ShownCells : Contains(area, p)}
      IN Len(lines) <= IntMax =>
         /\ DOMAIN drawn \subseteq inside \cap (Int \X (area.y .. area.y + Len(lines) - 1))
         /\ \A i \in DOMAIN lines :
              \E start \in (IntMin - Len(text)) .. (2 * IntMax + Len(text)) :
                /\ Margins(area, Len(lines[i]), alignment, start)
                /\ \A p \in {q \in inside : q[2] = area.y + i - 1} :
                     IF p[1] - start + 1 \in DOMAIN lines[i]
                     THEN p \in DOMAIN drawn
                          /\ drawn[p] = Cell(Sanitized(lines[i][p[1] - start + 1]), DefaultInk)
                     ELSE p \notin DOMAIN drawn
=============================================================================
