-------------------------- MODULE ConsoleProperties --------------------------
(***************************************************************************)
(* What drawing and rendering promise.                                     *)
(***************************************************************************)
EXTENDS Console

Glyphs == (Characters \ ControlCharacters) \cup
  {Blank, Replacement, "horizontal", "vertical", "topLeft", "topRight", "bottomLeft", "bottomRight"}

CellType ==
  [character : Glyphs, foreground : {ink.foreground : ink \in Inks},
   background : {ink.background : ink \in Inks}]

\* The types of the variables.  "Control scalars are never emitted from
\* framebuffer cells" (docs/clipping.md): no cell holds a control character.
TypeOK ==
  /\ frameWidth \in 0 .. IntMax /\ frameHeight \in 0 .. IntMax
  /\ frameBufferActive \in BOOLEAN /\ firstFrame \in BOOLEAN
  /\ frameBuffer \in [Cells(frameWidth, frameHeight) -> CellType]
  /\ previousBuffer \in [Cells(frameWidth, frameHeight) -> CellType]
  /\ clipStack \in Seq(Rects) /\ pushed \in Seq(Areas)
  /\ pc \in {"idle", "full", "diff"}
  /\ at \in Nat \X Nat /\ inRun \in BOOLEAN
  /\ winSize \in Sizes
  /\ spoilt \in BOOLEAN

\* After a frame has been presented the screen shows it, cell by cell, whether
\* it was written whole or in part, whatever failed before and wherever it
\* failed (Console.cpp:583-717); unless something other than Console
\* has changed the screen since, which invalidate() is there for.
ScreenShowsFrame ==
  pc = "idle" /\ frameBufferActive /\ ~firstFrame /\ ~spoilt => screen = previousBuffer

\* A clip is the intersection of the frame with every area on the stack, as
\* sets of positions: nested clips never let a drawing reach further than any
\* of them, and a resize leaves none behind (Console.cpp:222-238, 737-765).
ClipsExact ==
  \A i \in DOMAIN clipStack : \A p \in Ints \X Ints :
    Contains(clipStack[i], p) <=>
      /\ Contains(FrameRect, p)
      /\ \A j \in 1 .. i : Contains(pushed[j], p)

-----------------------------------------------------------------------------
\* The reference for drawing: positions of the frame, described without loops,
\* clamping or intersections of rectangles.
Shown(p) == Contains(FrameRect, p) /\ \A j \in DOMAIN pushed : Contains(pushed[j], p)

\* "Every draw operation is restricted to the framebuffer and the current
\* nested clip" (docs/clipping.md, Console.cpp:253-272): no drawing changes a
\* cell outside of any area on the stack.  beginFrame() is not a drawing; of
\* wrapped text LinesPlaced says the same.
DrawsInsideClips ==
  [][DrawInside => \A p \in DOMAIN frameBuffer : frameBuffer'[p] # frameBuffer[p] => Shown(p)]_vars

OnBorder(area, p) ==
  /\ Contains(area, p)
  /\ \/ p[1] \in {area.x, area.x + area.width - 1}
     \/ p[2] \in {area.y, area.y + area.height - 1}

ShownCells == {p \in Cells(frameWidth, frameHeight) : Shown(p)}

\* Fills, lines and borders cover exactly the cells they are asked to cover
\* that lie in the frame and in every clip, for rectangles up to the edges of
\* int (Console.cpp:469-557).
ShapesExact ==
  frameBufferActive =>
    \A area \in Areas :
      /\ Fill(area) = {p \in ShownCells : Contains(area, p)}
      /\ HorizontalLine(area.x, area.y, area.width) =
           {p \in ShownCells : Contains([area EXCEPT !.height = 1], p)}
      /\ VerticalLine(area.x, area.y, area.height) =
           {p \in ShownCells : Contains([area EXCEPT !.width = 1], p)}
      /\ DOMAIN Box(area, DefaultInk) =
           {p \in ShownCells : area.width > 1 /\ area.height > 1 /\ OnBorder(area, p)}

\* An aligned text starts where the margins say: none on its own side, equal
\* ones up to a cell when it is centred, also when the text is longer than the
\* area; what of it lies outside the area or a clip is not drawn
\* (Console.cpp:284-347).
Margins(area, length, alignment, start) ==
  LET left  == start - area.x
      right == area.x + area.width - start - length
  IN CASE alignment = "Left" -> left = 0
       [] alignment = "Right" -> right = 0
       [] alignment = "Centre" -> left - right \in {-1, 0, 1}

AlignmentExact ==
  frameBufferActive =>
    \A area \in {a \in Areas : a.width > 0 /\ a.height > 0}, text \in Texts,
       alignment \in {"Left", "Centre", "Right"} :
      \E start \in (IntMin - Len(text)) .. (2 * IntMax + Len(text)) :
        /\ Margins(area, Len(text), alignment, start)
        /\ TextAligned(area, text, alignment, DefaultInk) =
             [p \in {<<start + i - 1, area.y>> : i \in DOMAIN text}
                      \cap {p \in ShownCells : Contains(area, p)} |->
                Cell(Sanitized(text[p[1] - start + 1]), DefaultInk)]
=============================================================================
