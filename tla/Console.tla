------------------------------- MODULE Console -------------------------------
(***************************************************************************)
(* The cell framebuffer of Console: drawing through a stack of clips, and  *)
(* endFrame(), which writes the whole frame or the cells that differ from  *)
(* the last one.  The terminal is modelled as what it does with what is    *)
(* written: a cursor, a pen and a screen of cells.  endFrame() takes one   *)
(* step per cell, so that its output may stop anywhere, and the terminal   *)
(* may be resized or written to by others between any two steps.           *)
(***************************************************************************)
EXTENDS Geometry, Sequences, FiniteSets

CONSTANTS
  Sizes,              \* sizes of the terminal, [width, height]
  Characters,         \* what an application draws
  ControlCharacters,  \* those of them that a terminal would obey
  Blank,              \* U' '
  Replacement,        \* U+FFFD
  Inks,               \* pairs [foreground, background] of colours
  DefaultInk,         \* Colours::DefaultForeground, DefaultBackground
  ResetPen,           \* the terminal's own colours, after Colour::RESET
  Garbage,            \* a cell that was not written by terminalTool
  Texts,              \* decoded texts: sequences of characters
  Areas,              \* rectangles an application clips to
  DrawAreas,          \* those of them it draws in
  MaxDraws,           \* bound on the calls that draw
  MaxClips,           \* bound on the calls that change the clips
  MaxFrames,          \* bound on the calls of endFrame()
  MaxDisturbances     \* bound on what happens to the terminal behind our back

ASSUME SizesAssumption ==
  /\ Sizes # {}
  /\ Sizes \subseteq [width : Ints \cap (Nat \ {0}), height : Ints \cap (Nat \ {0})]

ASSUME CharacterAssumption ==
  /\ Blank \notin ControlCharacters
  /\ Replacement \notin ControlCharacters
  /\ Blank \in Characters /\ Texts \subseteq Seq(Characters)
  /\ DefaultInk \in Inks
  /\ \A ink \in Inks : ink = [foreground |-> ink.foreground, background |-> ink.background]
  /\ Areas \subseteq Rects /\ DrawAreas \subseteq Areas

VARIABLES
  frameWidth, frameHeight, frameBufferActive, firstFrame,
  frameBuffer, previousBuffer,   \* functions from positions <<x, y>> to cells
  clipStack,
  pc,          \* "idle", or the renderer that is running: "full" or "diff"
  at,          \* the position it has come to
  inRun,       \* whether the cell before it was written in the same row
  colours,     \* its currentForeground and -Background, colourInitialized
  winSize, screen, cursor, pen,  \* the terminal
  pushed,      \* auxiliary: the areas of the clips on the stack
  spoilt,      \* auxiliary: the screen was disturbed since the last full frame
  draws, clips, frames, disturbances  \* counters for the bounds

frameVars == <<frameWidth, frameHeight, frameBufferActive>>
bufferVars == <<frameBuffer, previousBuffer>>
renderVars == <<at, inRun, colours>>
terminalVars == <<winSize, screen, cursor, pen, spoilt>>
clipVars == <<clipStack, pushed>>
counters == <<draws, clips, frames, disturbances>>
vars == <<frameVars, bufferVars, renderVars, terminalVars, clipVars, pc, firstFrame, counters>>

-----------------------------------------------------------------------------
Cells(width, height) == (0 .. width - 1) \X (0 .. height - 1)

Cell(character, ink) ==
  [character |-> character, foreground |-> ink.foreground, background |-> ink.background]

EmptyBuffer(width, height) == [p \in Cells(width, height) |-> Cell(Blank, DefaultInk)]

FrameRect == Rect(0, 0, frameWidth, frameHeight)
FrameSize == [width |-> frameWidth, height |-> frameHeight]

ActiveClip == IF clipStack = <<>> THEN FrameRect ELSE clipStack[Len(clipStack)]

Unsanitized(character) == character
Sanitized(character) == IF character \in ControlCharacters THEN Replacement ELSE character

\* drawCell() on each of a set of positions: what it stores where.
DrawableAnywhere(p) == frameBufferActive /\ p \in Cells(frameWidth, frameHeight)
Drawable(p) ==
  frameBufferActive /\ p \in Cells(frameWidth, frameHeight) /\ Contains(ActiveClip, p)

Dots(P, character, ink) ==
  [p \in {q \in P : Drawable(q)} |-> Cell(Sanitized(character), ink)]

Nothing == Dots({}, Blank, DefaultInk)

\* What was drawn last covers what was drawn before.
Over(upper, lower) ==
  [p \in DOMAIN upper \cup DOMAIN lower |-> IF p \in DOMAIN upper THEN upper[p] ELSE lower[p]]

-----------------------------------------------------------------------------
\* The part of a rectangle that a loop over its cells visits.
Visible(area) == Intersect(Intersect(area, FrameRect), ActiveClip)
Columns(r) == r.x .. r.x + r.width - 1
Rows(r) == r.y .. r.y + r.height - 1

HorizontalLine(x, y, width) ==
  IF width <= 0 THEN {} ELSE Columns(Visible(Rect(x, y, width, 1))) \X {y}

VerticalLine(x, y, height) ==
  IF height <= 0 THEN {} ELSE {x} \X Rows(Visible(Rect(x, y, 1, height)))

Fill(area) == Columns(Visible(area)) \X Rows(Visible(area))

\* Each edge and corner is left out if its coordinates are not ints.
Box(area, ink) ==
  LET left   == area.x
      top    == area.y
      right  == left + area.width - 1
      bottom == top + area.height - 1
      horizontals ==
        UNION {HorizontalLine(left + 1, y, area.width - 2) :
                 y \in {z \in {top, bottom} : FitsInt(left + 1) /\ FitsInt(z)}}
      verticals ==
        UNION {VerticalLine(x, top + 1, area.height - 2) :
                 x \in {z \in {left, right} : FitsInt(z) /\ FitsInt(top + 1)}}
      Corner(x, y, character) ==
        Dots({p \in {<<x, y>>} : FitsInt(x) /\ FitsInt(y)}, character, ink)
      corners == Over(Over(Corner(left, top, "topLeft"), Corner(right, top, "topRight")),
                      Over(Corner(left, bottom, "bottomLeft"),
                           Corner(right, bottom, "bottomRight")))
  IN IF area.width < 2 \/ area.height < 2 THEN Nothing
     ELSE Over(corners, Over(Dots(verticals, "vertical", ink),
                             Dots(horizontals, "horizontal", ink)))

\* A text that starts at <<x, y>>, of which only the part inside clip is drawn.
TextClipped(x, y, text, clip, ink) ==
  LET visibleClip == Intersect(Intersect(clip, FrameRect), ActiveClip)
      places == {p \in {<<x + i - 1, y>> : i \in DOMAIN text} :
                   FitsInt(p[1]) /\ Contains(visibleClip, p) /\ Drawable(p)}
  IN [p \in places |-> Cell(Sanitized(text[p[1] - x + 1]), ink)]

\* Division of C++ ints truncates.
Half(n) == IF n < 0 THEN -((-n) \div 2) ELSE n \div 2

AlignedFromZero(area, length, alignment) ==
  CASE alignment = "Left" -> area.x
    [] alignment = "Centre" -> Half(area.x + area.width - length)
    [] alignment = "Right" -> area.x + area.width - length
AlignedX(area, length, alignment) ==
  CASE alignment = "Left" -> area.x
    [] alignment = "Centre" -> area.x + Half(area.width - length)
    [] alignment = "Right" -> area.x + area.width - length

TextAligned(area, text, alignment, ink) ==
  IF area.width <= 0 \/ area.height <= 0 THEN Nothing
  ELSE TextClipped(ClampToInt(AlignedX(area, Len(text), alignment)), area.y, text, area, ink)

Panel(area, title, border, ink) ==
  LET borderInk == [ink EXCEPT !.foreground = border]
      titled == title # <<>> /\ area.width > 4 /\ FitsInt(area.x + 2)
      titleArea == Rect(area.x + 2, area.y, area.width - 4, 1)
      name == IF titled
              THEN TextClipped(titleArea.x, titleArea.y, <<Blank>> \o title \o <<Blank>>,
                               titleArea, borderInk)
              ELSE Nothing
  IN IF area.width < 2 \/ area.height < 2 THEN Nothing
     ELSE Over(name, Over(Box(area, borderInk), Dots(Fill(area), Blank, ink)))

-----------------------------------------------------------------------------
\* The session: its framebuffer has the size that the terminal has.
BuffersRenewed ==
  /\ frameWidth' = winSize.width /\ frameHeight' = winSize.height
  /\ frameBuffer' = EmptyBuffer(winSize.width, winSize.height)
  /\ previousBuffer' = EmptyBuffer(winSize.width, winSize.height)
  /\ frameBufferActive' = TRUE
  /\ firstFrame' = TRUE
ClipsKept == BuffersRenewed /\ UNCHANGED clipVars
Reallocated == BuffersRenewed /\ clipStack' = <<>> /\ pushed' = <<>>

InitializeFrameBuffer ==
  /\ pc = "idle" /\ ~frameBufferActive
  /\ Reallocated
  /\ UNCHANGED <<renderVars, terminalVars, pc, counters>>

\* An allocation that fails leaves everything as it was.
ResizeToTerminal ==
  /\ pc = "idle" /\ frameBufferActive
  /\ winSize # FrameSize
  /\ Reallocated
  /\ UNCHANGED <<renderVars, terminalVars, pc, counters>>

ShutdownFrameBuffer ==
  /\ pc = "idle" /\ frameBufferActive
  /\ frameWidth' = 0 /\ frameHeight' = 0
  /\ frameBuffer' = EmptyBuffer(0, 0) /\ previousBuffer' = EmptyBuffer(0, 0)
  /\ frameBufferActive' = FALSE
  /\ firstFrame' = TRUE
  /\ clipStack' = <<>> /\ pushed' = <<>>
  /\ UNCHANGED <<renderVars, terminalVars, pc, counters>>

Invalidate ==
  /\ pc = "idle" /\ frameBufferActive
  /\ firstFrame' = TRUE
  /\ UNCHANGED <<frameVars, bufferVars, renderVars, terminalVars, clipVars, pc, counters>>

-----------------------------------------------------------------------------
\* The application's calls, before, during and between sessions.
ClipCall ==
  /\ pc = "idle" /\ clips < MaxClips /\ clips' = clips + 1
  /\ UNCHANGED <<frameVars, bufferVars, renderVars, terminalVars, pc, firstFrame, draws,
                 frames, disturbances>>

\* Between sessions the frame is empty, and so is every clip.
PushClip(area) ==
  /\ ClipCall
  /\ clipStack' = Append(clipStack, Intersect(ActiveClip, area))
  /\ pushed' = Append(pushed, area)

\* Popping an empty stack does nothing, once assertions are compiled out.
PopClip ==
  /\ ClipCall
  /\ clipStack # <<>>
  /\ clipStack' = SubSeq(clipStack, 1, Len(clipStack) - 1)
  /\ pushed' = SubSeq(pushed, 1, Len(pushed) - 1)

ClearClips ==
  /\ ClipCall
  /\ clipStack' = <<>> /\ pushed' = <<>>

Draw(dots) ==
  /\ pc = "idle" /\ draws < MaxDraws /\ draws' = draws + 1
  /\ frameBuffer' =
       [p \in DOMAIN frameBuffer |-> IF p \in DOMAIN dots THEN dots[p] ELSE frameBuffer[p]]
  /\ UNCHANGED <<frameVars, previousBuffer, renderVars, terminalVars, clipVars, pc, firstFrame,
                 clips, frames, disturbances>>

\* beginFrame() heeds no clip.
BeginFrame(ink) == Draw([p \in DOMAIN frameBuffer |-> Cell(Blank, ink)])

DrawCell(p, character, ink) == Draw(Dots({p}, character, ink))
DrawLines(area, character, ink) ==
  \/ Draw(Dots(HorizontalLine(area.x, area.y, area.width), character, ink))
  \/ Draw(Dots(VerticalLine(area.x, area.y, area.height), character, ink))
FillRect(area, character, ink) == Draw(Dots(Fill(area), character, ink))
DrawBox(area, ink) == Draw(Box(area, ink))
DrawPanel(area, title, border, ink) == Draw(Panel(area, title, border, ink))
DrawText(area, text, ink) == Draw(TextClipped(area.x, area.y, text, ActiveClip, ink))
DrawTextAligned(area, text, alignment, ink) == Draw(TextAligned(area, text, alignment, ink))

-----------------------------------------------------------------------------
\* The terminal.  A character past the right margin has no place of its own,
\* whether lines wrap or not (an option of the session): none is to be written.
MoveTo(p) == <<Smaller(p[1], winSize.width - 1), Smaller(p[2], winSize.height - 1)>>

PutAt(p, cell) == [screen EXCEPT ![p] = cell]

\* endFrame(): everything if it must or if more than half has changed.
Changed == {p \in DOMAIN frameBuffer : frameBuffer[p] # previousBuffer[p]}

SwapBuffers == frameBuffer' = previousBuffer /\ previousBuffer' = frameBuffer

MostChanged == Cardinality(Changed) * 2 > Cardinality(DOMAIN frameBuffer)

FreshRenderer ==
  /\ at' = <<0, 0>> /\ inRun' = FALSE
  /\ colours' = [ink |-> DefaultInk, initialized |-> FALSE]

Start(renderer) == pc' = renderer /\ FreshRenderer /\ UNCHANGED bufferVars
RenderFullFrame ==
  /\ firstFrame \/ MostChanged
  /\ Start("full")
  /\ spoilt' = IF winSize = FrameSize THEN FALSE ELSE spoilt

RenderDifferentialFrame ==
  /\ ~firstFrame /\ Changed # {} /\ ~MostChanged
  /\ Start("diff")
  /\ UNCHANGED spoilt

RenderNothing ==
  /\ ~firstFrame /\ Changed = {}
  /\ SwapBuffers
  /\ UNCHANGED <<renderVars, pc, spoilt>>

EndFrame ==
  /\ pc = "idle" /\ frameBufferActive
  /\ frames < MaxFrames /\ frames' = frames + 1
  /\ RenderFullFrame \/ RenderDifferentialFrame \/ RenderNothing
  /\ UNCHANGED <<frameVars, clipVars, winSize, screen, cursor, pen, firstFrame, draws, clips,
                 disturbances>>

Next1(p) == IF p[1] + 1 < frameWidth THEN <<p[1] + 1, p[2]>> ELSE <<0, p[2] + 1>>

Rendering == pc \in {"full", "diff"}

\* Which cells are written, and where the cursor has to be moved for it.
Written == pc = "full" \/ frameBuffer[at] # previousBuffer[at]
Moves == IF pc = "full" THEN at[1] = 0 ELSE ~(inRun /\ at[1] # 0)

\* The pen after the colours of a cell: only those that differ are written.
PenFor(cell) ==
  [foreground |-> IF colours.initialized /\ cell.foreground = colours.ink.foreground
                  THEN pen.foreground ELSE cell.foreground,
   background |-> IF colours.initialized /\ cell.background = colours.ink.background
                  THEN pen.background ELSE cell.background]

WriteCell ==
  LET cell  == frameBuffer[at]
      place == IF Moves THEN MoveTo(at) ELSE cursor
      ink   == PenFor(cell)
  IN /\ screen' = IF place \in DOMAIN screen
                  THEN PutAt(place, Cell(cell.character, ink)) ELSE screen
     /\ cursor' = <<place[1] + 1, place[2]>>
     /\ pen' = ink
     /\ colours' = [ink |-> [foreground |-> cell.foreground, background |-> cell.background],
                    initialized |-> TRUE]

RenderCell ==
  /\ Rendering /\ at[2] < frameHeight
  /\ IF Written THEN WriteCell ELSE UNCHANGED <<screen, cursor, pen, colours>>
  /\ inRun' = Written
  /\ at' = Next1(at)
  /\ UNCHANGED <<frameVars, bufferVars, clipVars, winSize, spoilt, pc, firstFrame, counters>>

FrameWritten ==
  /\ Rendering /\ at[2] = frameHeight
  /\ pen' = ResetPen
  /\ SwapBuffers
  /\ firstFrame' = FALSE
  /\ pc' = "idle" /\ FreshRenderer
  /\ UNCHANGED <<frameVars, clipVars, winSize, screen, cursor, spoilt, counters>>

\* write() fails after any part of the output, also between the colours of a
\* cell and its character; a failed allocation is a failure before the first.
PartOfCell ==
  LET cell == frameBuffer[at]
      ink  == PenFor(cell)
  IN /\ at[2] < frameHeight /\ Written
     /\ cursor' = IF Moves THEN MoveTo(at) ELSE cursor
     /\ pen' \in {pen, [pen EXCEPT !.foreground = ink.foreground], ink}

CarryOn == UNCHANGED firstFrame
MustRepaint == firstFrame' = TRUE

FrameFails ==
  /\ Rendering
  /\ PartOfCell \/ UNCHANGED <<cursor, pen>>
  /\ MustRepaint
  /\ pc' = "idle" /\ FreshRenderer
  /\ UNCHANGED <<frameVars, bufferVars, clipVars, winSize, screen, spoilt, counters>>

\* The user resizes the terminal, or another program writes to it.
Disturb(size) ==
  /\ disturbances < MaxDisturbances
  /\ disturbances' = disturbances + 1
  /\ winSize' = size
  /\ screen' = [p \in Cells(size.width, size.height) |-> Garbage]
  /\ cursor' = <<0, 0>>
  /\ pen' \in Inks
  /\ spoilt' = TRUE
  /\ UNCHANGED <<frameVars, bufferVars, renderVars, clipVars, pc, firstFrame, draws, clips,
                 frames>>

-----------------------------------------------------------------------------
Init ==
  /\ frameWidth = 0 /\ frameHeight = 0 /\ frameBufferActive = FALSE
  /\ firstFrame = TRUE
  /\ frameBuffer = EmptyBuffer(0, 0) /\ previousBuffer = EmptyBuffer(0, 0)
  /\ clipStack = <<>> /\ pushed = <<>>
  /\ pc = "idle" /\ at = <<0, 0>> /\ inRun = FALSE
  /\ colours = [ink |-> DefaultInk, initialized |-> FALSE]
  /\ winSize \in Sizes
  /\ screen = [p \in Cells(winSize.width, winSize.height) |-> Garbage]
  /\ cursor = <<0, 0>> /\ pen = ResetPen
  /\ spoilt = TRUE
  /\ draws = 0 /\ clips = 0 /\ frames = 0 /\ disturbances = 0

Session == InitializeFrameBuffer \/ ResizeToTerminal \/ ShutdownFrameBuffer \/ Invalidate

Clipping == ClearClips \/ PopClip \/ \E area \in Areas : PushClip(area)

\* The drawing calls, all of which heed the clips.
DrawInside ==
  \E area \in DrawAreas, ink \in Inks :
    \/ \E character \in Characters :
         \/ DrawCell(<<area.x, area.y>>, character, ink)
         \/ DrawLines(area, character, ink)
         \/ FillRect(area, character, ink)
    \/ DrawBox(area, ink)
    \/ \E text \in Texts :
         \/ DrawText(area, text, ink)
         \/ \E alignment \in {"Left", "Centre", "Right"} :
              DrawTextAligned(area, text, alignment, ink)
         \/ \E border \in Inks : DrawPanel(area, text, border.foreground, ink)

Frame == EndFrame \/ RenderCell \/ FrameWritten \/ FrameFails

Next ==
  \/ Session
  \/ Clipping
  \/ DrawInside
  \/ Frame
  \/ \E ink \in Inks : BeginFrame(ink)
  \/ \E size \in Sizes : Disturb(size)

Spec == Init /\ [][Next]_vars
=============================================================================
