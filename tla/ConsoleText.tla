----------------------------- MODULE ConsoleText -----------------------------
(***************************************************************************)
(* Console with drawWrappedText(): the lines of WrappedText, each aligned  *)
(* and clipped as a text of its own, from the top of the area downwards.   *)
(***************************************************************************)
EXTENDS Console

CONSTANTS
  Tab, Newline, Return,
  WrappedTexts   \* decoded texts that are drawn with drawWrappedText()

INSTANCE WrappedText

ASSUME WrappedAssumption == WrappedTexts \subseteq Seq(Characters \cup {Tab, Newline, Return})

RowBelow(area, i) == area.y + i
LineRow(area, i) == area.y + i - 1

TextWrapped(area, text, alignment, ink) ==
  LET lines == WrappedLines(text, area.width)
      visibleLines == Smaller(area.height, AsInt(Len(lines)))
      drawn == {i \in 1 .. visibleLines : FitsInt(LineRow(area, i))}
      dots == [i \in drawn |->
                 TextClipped(ClampToInt(AlignedX(area, Len(lines[i]), alignment)),
                             LineRow(area, i), lines[i], area, ink)]
  IN IF ~frameBufferActive \/ area.width <= 0 \/ area.height <= 0 THEN Nothing
     ELSE [p \in UNION {DOMAIN dots[i] : i \in drawn} |->
             dots[CHOOSE i \in drawn : p \in DOMAIN dots[i]][p]]

DrawWrappedText(area, text, alignment, ink) == Draw(TextWrapped(area, text, alignment, ink))

TextNext ==
  \/ Next
  \/ \E area \in DrawAreas, text \in WrappedTexts, ink \in Inks,
        alignment \in {"Left", "Centre", "Right"} :
       DrawWrappedText(area, text, alignment, ink)

TextSpec == Init /\ [][TextNext]_vars
=============================================================================
