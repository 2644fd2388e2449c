---------------------------- MODULE Console_proofs ----------------------------
(***************************************************************************)
(* Proofs about clips, drawing and rendering, for frames of any size.      *)
(* They are about TextSpec, in which wrapped text is drawn too, and so     *)
(* about Spec, by PlainSpec.                                               *)
(***************************************************************************)
EXTENDS ConsoleTextProperties, SequenceTheorems, TLAPS

LEMMA PlainSpec == Spec => TextSpec
<1>1. [Next]_vars => [TextNext]_vars
  BY DEF TextNext
<1> QED
  BY <1>1, PTL DEF Spec, TextSpec

(***************************************************************************)
(* Intersecting two rectangles whose fields are ints yields such a         *)
(* rectangle, and it contains exactly the points that both contain: the    *)
(* clamping of Console::intersect() never loses anything.                  *)
(***************************************************************************)
LEMMA IntersectType ==
  ASSUME NEW a \in Rects, NEW b \in Rects
  PROVE  Intersect(a, b) \in Rects
<1> USE IntAssumption DEF Ints
<1>1. /\ a.x \in Ints /\ a.y \in Ints /\ a.width \in Ints /\ a.height \in Ints
      /\ b.x \in Ints /\ b.y \in Ints /\ b.width \in Ints /\ b.height \in Ints
  BY DEF Rects
<1> DEFINE left == Larger(a.x, b.x)
           top == Larger(a.y, b.y)
           right == Smaller(RightOf(a), RightOf(b))
           bottom == Smaller(BottomOf(a), BottomOf(b))
<1>2. /\ left \in Int /\ top \in Int /\ right \in Int /\ bottom \in Int
  BY <1>1 DEF Larger, Smaller, RightOf, BottomOf
<1>3. /\ ClampToInt(left) \in Ints /\ ClampToInt(top) \in Ints
  BY <1>2 DEF ClampToInt
<1>4. 0 \in Ints
  OBVIOUS
<1>5. ~(right <= left \/ bottom <= top) =>
        Smaller(right - left, IntMax) \in Ints /\ Smaller(bottom - top, IntMax) \in Ints
  BY <1>2 DEF Smaller
<1> HIDE DEF left, top, right, bottom
<1>6. Rect(ClampToInt(left), ClampToInt(top), 0, 0) \in Rects
  BY <1>3, <1>4 DEF Rects, Rect
<1>7. ~(right <= left \/ bottom <= top) =>
        Rect(ClampToInt(left), ClampToInt(top),
             Smaller(right - left, IntMax), Smaller(bottom - top, IntMax)) \in Rects
  BY <1>3, <1>5 DEF Rects, Rect
<1> QED
  BY <1>6, <1>7 DEF Intersect, left, top, right, bottom

THEOREM IntersectionExact ==
  ASSUME NEW a \in Rects, NEW b \in Rects, NEW p \in Int \X Int
  PROVE  Contains(Intersect(a, b), p) <=> Contains(a, p) /\ Contains(b, p)
<1> USE IntAssumption DEF Ints
<1>1. /\ a.x \in Ints /\ a.y \in Ints /\ a.width \in Ints /\ a.height \in Ints
      /\ b.x \in Ints /\ b.y \in Ints /\ b.width \in Ints /\ b.height \in Ints
  BY DEF Rects
<1>2. p[1] \in Int /\ p[2] \in Int
  OBVIOUS
<1> DEFINE left == Larger(a.x, b.x)
           top == Larger(a.y, b.y)
           right == Smaller(RightOf(a), RightOf(b))
           bottom == Smaller(BottomOf(a), BottomOf(b))
<1>3. /\ left \in Ints /\ top \in Ints
      /\ right \in Int /\ bottom \in Int
      /\ right - left <= IntMax /\ bottom - top <= IntMax
  <2>1. left \in Ints /\ top \in Ints
    BY <1>1 DEF Larger
  <2>2. right \in Int /\ right <= a.x + Larger(0, a.width) /\ a.x <= left
    BY <1>1 DEF Larger, Smaller, RightOf
  <2>3. bottom \in Int /\ bottom <= a.y + Larger(0, a.height) /\ a.y <= top
    BY <1>1 DEF Larger, Smaller, BottomOf
  <2>4. Larger(0, a.width) \in 0 .. IntMax /\ Larger(0, a.height) \in 0 .. IntMax
    BY <1>1 DEF Larger
  <2> QED
    BY <1>1, <2>1, <2>2, <2>3, <2>4
<1>4. /\ Contains(a, p) /\ Contains(b, p) <=>
           /\ left <= p[1] /\ p[1] < right
           /\ top <= p[2] /\ p[2] < bottom
  BY <1>1, <1>2 DEF Contains, Larger, Smaller, RightOf, BottomOf
<1> HIDE DEF left, top, right, bottom
<1>5. ClampToInt(left) = left /\ ClampToInt(top) = top
  BY <1>3 DEF ClampToInt
<1>6. CASE right <= left \/ bottom <= top
  <2>1. Intersect(a, b) = Rect(left, top, 0, 0)
    BY <1>5, <1>6 DEF Intersect, left, top, right, bottom
  <2>2. ~Contains(Intersect(a, b), p)
    BY <2>1 DEF Contains, Rect
  <2> QED
    BY <1>2, <1>3, <1>4, <1>6, <2>2
<1>7. CASE ~(right <= left \/ bottom <= top)
  <2>1. Intersect(a, b) = Rect(left, top, Smaller(right - left, IntMax),
                               Smaller(bottom - top, IntMax))
    BY <1>5, <1>7 DEF Intersect, left, top, right, bottom
  <2>2. Smaller(right - left, IntMax) = right - left /\ Smaller(bottom - top, IntMax) = bottom - top
    BY <1>3 DEF Smaller
  <2>3. Intersect(a, b) = Rect(left, top, right - left, bottom - top)
    BY <2>1, <2>2
  <2> QED
    BY <1>2, <1>3, <1>4, <1>7, <2>3 DEF Contains, Rect
<1> QED
  BY <1>6, <1>7

-----------------------------------------------------------------------------
(***************************************************************************)
(* What every drawing call draws: cells of the framebuffer's type, and     *)
(* only at positions inside the active clip.                               *)
(***************************************************************************)
Coloured(ink) ==
  /\ ink.foreground \in {i.foreground : i \in Inks}
  /\ ink.background \in {i.background : i \in Inks}

Heeds(dots) == \A p \in DOMAIN dots : Drawable(p) /\ dots[p] \in CellType

LEMMA CellTyped ==
  ASSUME NEW c \in Characters \cup Glyphs, NEW ink, Coloured(ink)
  PROVE  Cell(Sanitized(c), ink) \in CellType
<1>1. Sanitized(c) \in Glyphs
  BY CharacterAssumption DEF Sanitized, Glyphs
<1> QED
  BY <1>1 DEF Cell, CellType, Coloured

LEMMA InksColoured ==
  ASSUME NEW ink \in Inks, NEW border \in Inks
  PROVE  Coloured(ink) /\ Coloured([ink EXCEPT !.foreground = border.foreground])
<1>1. ink = [foreground |-> ink.foreground, background |-> ink.background]
  BY CharacterAssumption
<1>2. [ink EXCEPT !.foreground = border.foreground].foreground = border.foreground
  BY <1>1
<1>3. [ink EXCEPT !.foreground = border.foreground].background = ink.background
  BY <1>1
<1> QED
  BY <1>2, <1>3 DEF Coloured

LEMMA DotsHeed ==
  ASSUME NEW P, NEW c \in Characters \cup Glyphs, NEW ink, Coloured(ink)
  PROVE  Heeds(Dots(P, c, ink))
BY CellTyped DEF Heeds, Dots

LEMMA OverHeeds ==
  ASSUME NEW f, NEW g, Heeds(f), Heeds(g)
  PROVE  Heeds(Over(f, g))
BY DEF Heeds, Over

LEMMA NothingHeeds == Heeds(Nothing)
BY DEF Heeds, Nothing, Dots

LEMMA TextHeeds ==
  ASSUME NEW x \in Int, NEW y, NEW text \in Seq(Characters), NEW clip,
         NEW ink, Coloured(ink)
  PROVE  Heeds(TextClipped(x, y, text, clip, ink))
<1> DEFINE visibleClip == Intersect(Intersect(clip, FrameRect), ActiveClip)
           places == {p \in {<<x + i - 1, y>> : i \in DOMAIN text} :
                        FitsInt(p[1]) /\ Contains(visibleClip, p) /\ Drawable(p)}
<1>1. \A p \in places : Drawable(p) /\ text[p[1] - x + 1] \in Characters
  <2> SUFFICES ASSUME NEW p \in places PROVE Drawable(p) /\ text[p[1] - x + 1] \in Characters
    OBVIOUS
  <2>1. PICK i \in DOMAIN text : p = <<x + i - 1, y>>
    OBVIOUS
  <2>2. i \in Int /\ text[i] \in Characters
    OBVIOUS
  <2>3. p[1] - x + 1 = i
    BY <2>1, <2>2
  <2> QED
    BY <2>2, <2>3
<1>2. TextClipped(x, y, text, clip, ink) =
        [p \in places |-> Cell(Sanitized(text[p[1] - x + 1]), ink)]
  BY DEF TextClipped
<1> HIDE DEF places
<1>3. \A p \in places : Cell(Sanitized(text[p[1] - x + 1]), ink) \in CellType
  BY <1>1, CellTyped
<1> QED
  BY <1>1, <1>2, <1>3 DEF Heeds

LEMMA BoxHeeds ==
  ASSUME NEW area, NEW ink, Coloured(ink)
  PROVE  Heeds(Box(area, ink))
<1>1. {"horizontal", "vertical", "topLeft", "topRight", "bottomLeft", "bottomRight"} \subseteq Glyphs
  BY DEF Glyphs
<1>2. \A P : /\ Heeds(Dots(P, "horizontal", ink)) /\ Heeds(Dots(P, "vertical", ink))
             /\ Heeds(Dots(P, "topLeft", ink)) /\ Heeds(Dots(P, "topRight", ink))
             /\ Heeds(Dots(P, "bottomLeft", ink)) /\ Heeds(Dots(P, "bottomRight", ink))
  BY <1>1, DotsHeed
<1> QED
  BY <1>2, OverHeeds, NothingHeeds DEF Box

LEMMA PanelHeeds ==
  ASSUME NEW area \in Rects, NEW title \in Seq(Characters), NEW border \in Inks, NEW ink \in Inks
  PROVE  Heeds(Panel(area, title, border.foreground, ink))
<1> DEFINE borderInk == [ink EXCEPT !.foreground = border.foreground]
<1>1. Coloured(ink) /\ Coloured(borderInk)
  BY InksColoured
<1>2. <<Blank>> \o title \o <<Blank>> \in Seq(Characters)
  BY CharacterAssumption
<1>3. area.x + 2 \in Int
  BY IntAssumption DEF Rects, Ints
<1> HIDE DEF borderInk
<1>4. Heeds(TextClipped(area.x + 2, area.y, <<Blank>> \o title \o <<Blank>>,
                        Rect(area.x + 2, area.y, area.width - 4, 1), borderInk))
  BY <1>1, <1>2, <1>3, TextHeeds
<1>5. Heeds(Box(area, borderInk)) /\ Heeds(Dots(Fill(area), Blank, ink))
  BY <1>1, BoxHeeds, DotsHeed, CharacterAssumption
<1> DEFINE titleArea == Rect(area.x + 2, area.y, area.width - 4, 1)
           name == IF title # <<>> /\ area.width > 4 /\ FitsInt(area.x + 2)
                   THEN TextClipped(titleArea.x, titleArea.y, <<Blank>> \o title \o <<Blank>>,
                                    titleArea, borderInk)
                   ELSE Nothing
<1>6. titleArea.x = area.x + 2 /\ titleArea.y = area.y
  BY DEF Rect
<1>7. Heeds(name)
  BY <1>4, <1>6, NothingHeeds
<1>8. Panel(area, title, border.foreground, ink) =
        IF area.width < 2 \/ area.height < 2 THEN Nothing
        ELSE Over(name, Over(Box(area, borderInk), Dots(Fill(area), Blank, ink)))
  BY DEF Panel, borderInk
<1> HIDE DEF name
<1> QED
  BY <1>5, <1>7, <1>8, OverHeeds, NothingHeeds

LEMMA DrawingHeeds ==
  ASSUME DrawInside
  PROVE  \E dots : Draw(dots) /\ Heeds(dots)
<1>1. PICK area \in DrawAreas, ink \in Inks :
        \/ \E character \in Characters :
             \/ DrawCell(<<area.x, area.y>>, character, ink)
             \/ DrawLines(area, character, ink)
             \/ FillRect(area, character, ink)
        \/ DrawBox(area, ink)
        \/ \E text \in Texts :
             \/ DrawText(area, text, ink)
             \/ \E alignment \in {"Left", "Centre", "Right"} :
                  DrawTextAligned(area, text, alignment, ink)
             \/ \E border \in Inks : DrawPanel(area, text, border.foreground, ink)
  BY DEF DrawInside
<1>2. area \in Rects /\ area.x \in Int /\ area.width \in Int /\ Coloured(ink)
  BY CharacterAssumption, IntAssumption, InksColoured DEF Rects, Ints
<1>3. CASE \E character \in Characters :
             \/ DrawCell(<<area.x, area.y>>, character, ink)
             \/ DrawLines(area, character, ink)
             \/ FillRect(area, character, ink)
  BY <1>2, <1>3, DotsHeed DEF DrawCell, DrawLines, FillRect
<1>4. CASE DrawBox(area, ink)
  BY <1>2, <1>4, BoxHeeds DEF DrawBox
<1>5. ASSUME NEW text \in Texts,
             \/ DrawText(area, text, ink)
             \/ \E alignment \in {"Left", "Centre", "Right"} :
                  DrawTextAligned(area, text, alignment, ink)
             \/ \E border \in Inks : DrawPanel(area, text, border.foreground, ink)
      PROVE  \E dots : Draw(dots) /\ Heeds(dots)
  <2>1. text \in Seq(Characters) /\ Len(text) \in Int
    BY CharacterAssumption
  <2>2. CASE DrawText(area, text, ink)
    BY <1>2, <2>1, <2>2, TextHeeds DEF DrawText
  <2>3. ASSUME NEW alignment \in {"Left", "Centre", "Right"},
               DrawTextAligned(area, text, alignment, ink)
        PROVE  \E dots : Draw(dots) /\ Heeds(dots)
    <3>0. Half(area.width - Len(text)) \in Int
      BY <1>2, <2>1 DEF Half
    <3>1. ClampToInt(AlignedX(area, Len(text), alignment)) \in Int
      BY <1>2, <2>1, <3>0, IntAssumption DEF ClampToInt, AlignedX
    <3>2. Heeds(TextAligned(area, text, alignment, ink))
      BY <1>2, <2>1, <3>1, TextHeeds, NothingHeeds DEF TextAligned
    <3> QED
      BY <2>3, <3>2 DEF DrawTextAligned
  <2>4. CASE \E border \in Inks : DrawPanel(area, text, border.foreground, ink)
    BY <1>2, <2>1, <2>4, PanelHeeds DEF DrawPanel
  <2> QED
    BY <1>5, <2>2, <2>3, <2>4
<1> QED
  BY <1>1, <1>3, <1>4, <1>5

-----------------------------------------------------------------------------
(***************************************************************************)
(* The lines of a wrapped text: whatever the text, each is a sequence of   *)
(* characters, and no longer than the area is wide as long as the text has *)
(* no more characters than an int counts: sizes are compared as ints.  The *)
(* loop is the fold of Wrapping(); induction over it is taken from         *)
(* Utf8_proofs.                                                            *)
(***************************************************************************)
Library == INSTANCE Utf8_proofs

Wrappable == Characters \cup {Tab, Newline, Return}
Narrow(width) == {line \in Seq(Characters) : Len(line) <= width}
Wrappings(L) == [lines : Seq(L), line : L, word : Seq(Characters), ended : BOOLEAN]

\* What a line may be: of any length, or no longer than the area is wide.
Lining(L, width) == L = Seq(Characters) \/ L = Narrow(width)

\* What the loop holds of a text of so many characters: with the blank between
\* the two, its line and its word are not longer.
Sized(s, length) ==
  Len(s.word) <= length /\ (s.line # <<>> => Len(s.line) + 1 + Len(s.word) <= length)

LEMMA AsIntSame == ASSUME NEW size \in Nat, size <= IntMax PROVE AsInt(size) = size
<1> DEFINE range == 2 * (IntMax + 1)
<1>1. IntMax \in Nat /\ range \in Nat \ {0} /\ size < range
  BY IntAssumption
<1> HIDE DEF range
<1>2. size % range = size
  BY <1>1
<1> QED
  BY <1>1, <1>2 DEF AsInt, range

LEMMA AsIntBelow == ASSUME NEW size \in Nat PROVE AsInt(size) \in Int /\ AsInt(size) <= size
<1> DEFINE range == 2 * (IntMax + 1)
           low == size % range
<1>1. IntMax \in Nat /\ range \in Nat \ {0}
  BY IntAssumption
<1>2. low \in 0 .. size
  <2> HIDE DEF range
  <2> QED
    BY <1>1
<1>3. AsInt(size) = IF low > IntMax THEN low - range ELSE low
  BY DEF AsInt
<1> HIDE DEF range, low
<1> QED
  BY <1>1, <1>2, <1>3

LEMMA LiningBounds ==
  ASSUME NEW width \in Nat, NEW L, Lining(L, width)
  PROVE  /\ <<>> \in L /\ Narrow(width) \subseteq L /\ L \subseteq Seq(Characters)
         /\ Empty \in Wrappings(L)
<1>0. <<>> \in Seq(Characters) /\ Len(<<>>) = 0
  OBVIOUS
<1>1. <<>> \in L /\ Narrow(width) \subseteq L /\ L \subseteq Seq(Characters)
  <2>1. CASE L = Seq(Characters)
    BY <1>0, <2>1 DEF Narrow
  <2>2. CASE L = Narrow(width)
    BY <1>0, <2>2 DEF Narrow
  <2> QED
    BY <2>1, <2>2 DEF Lining
<1>2. <<>> \in Seq(L) /\ <<>> \in Seq(Characters)
  OBVIOUS
<1> QED
  BY <1>1, <1>2 DEF Empty, Wrappings

LEMMA FlushWraps ==
  ASSUME NEW width \in Nat, NEW L, Lining(L, width),
         NEW s \in Wrappings(L), NEW includeEmpty \in BOOLEAN
  PROVE  /\ FlushLine(s, includeEmpty) \in Wrappings(L)
         /\ FlushLine(s, includeEmpty).word = s.word
         /\ FlushLine(s, includeEmpty).line = <<>>
<1>1. s.lines \in Seq(L) /\ s.line \in L /\ <<>> \in L
  BY LiningBounds DEF Wrappings
<1>2. Append(s.lines, s.line) \in Seq(L)
  BY <1>1
<1> QED
  BY <1>1, <1>2 DEF FlushLine, Wrappings

\* A word divides into chunks as wide as the area and a rest; whatever an int
\* keeps of its size, only what it has is cut off, and the rest fits when the
\* size is an int.
CutsOff(n, size, width, count) ==
  /\ count \in Int
  /\ count >= 0 => count * width \in 0 .. n
  /\ size = n => n - count * width <= width
  /\ \A i \in 1 .. count : /\ (i - 1) * width + 1 \in 1 .. n /\ i * width \in 0 .. n
                           /\ i * width - (i - 1) * width = width

LEMMA ChunkBounds ==
  ASSUME NEW n \in Nat, NEW size \in Int, size <= n, NEW width \in Nat \ {0},
         NEW count, count = (size - 1) \div width
  PROVE  CutsOff(n, size, width, count)
<1>1. /\ count \in Int /\ count * width \in Int
      /\ count * width <= size - 1 /\ size - 1 < count * width + width
  OBVIOUS
<1>2. ASSUME NEW i \in 1 .. count
      PROVE  /\ i * width \in Int /\ (i - 1) * width \in Int
             /\ i * width = (i - 1) * width + width
             /\ 0 <= (i - 1) * width /\ i * width <= count * width
  OBVIOUS
<1>3. ASSUME NEW i \in 1 .. count
      PROVE  /\ (i - 1) * width + 1 \in 1 .. n /\ i * width \in 0 .. n
             /\ i * width - (i - 1) * width = width
  BY <1>1, <1>2
<1>4. ASSUME count >= 0 PROVE count * width >= 0
  BY <1>1, <1>4
<1>5. ASSUME count >= 0 PROVE count * width \in 0 .. n
  <2>1. CASE count = 0
    BY <2>1
  <2>2. CASE count > 0
    BY <1>1, <1>4, <1>5, <2>2
  <2> QED
    BY <1>1, <1>5, <2>1, <2>2
<1>6. size = n => n - count * width <= width
  BY <1>1
<1> QED
  BY <1>1, <1>3, <1>5, <1>6 DEF CutsOff

LEMMA CutWraps ==
  ASSUME NEW width \in Nat \ {0}, NEW L, Lining(L, width), NEW s \in Wrappings(L)
  PROVE  /\ CutWord(s, width) \in Wrappings(L)
         /\ CutWord(s, width) = s \/ CutWord(s, width).line = <<>>
         /\ Len(CutWord(s, width).word) <= Len(s.word)
         /\ Len(s.word) <= IntMax => CutWord(s, width).word \in Narrow(width)
<1> DEFINE n == Len(s.word)
           size == AsInt(n)
           count == (size - 1) \div width
           chunks == Chunks(s.word, width)
           flushed == FlushLine(s, FALSE)
           rest == SubSeq(s.word, Len(chunks) * width + 1, n)
           cut == CutWord(s, width)
<1>0. Narrow(width) \subseteq L /\ L \subseteq Seq(Characters)
  BY LiningBounds
<1>1. s.word \in Seq(Characters) /\ n \in Nat /\ size \in Int /\ size <= n
      /\ (n <= IntMax => size = n)
  <2>1. s.word \in Seq(Characters) /\ n \in Nat
    BY DEF Wrappings
  <2> HIDE DEF n
  <2> QED
    BY <2>1, AsIntBelow, AsIntSame
<1>2. CutsOff(n, size, width, count)
  <2>1. count = (size - 1) \div width
    OBVIOUS
  <2> HIDE DEF n, size, count
  <2> QED
    BY <1>1, <2>1, ChunkBounds
<1>3. chunks = [i \in 1 .. count |-> SubSeq(s.word, (i - 1) * width + 1, i * width)]
  BY DEF Chunks
<1> HIDE DEF chunks, count, size
<1>4. CASE count < 1
  <2>1. chunks = <<>>
    BY <1>2, <1>3, <1>4 DEF CutsOff
  <2>2. n <= IntMax => n <= width
    BY <1>1, <1>2, <1>4 DEF CutsOff
  <2>3. cut = s
    BY <2>1 DEF CutWord, chunks
  <2>4. n <= IntMax => s.word \in Narrow(width)
    BY <1>1, <2>2 DEF Narrow
  <2> HIDE DEF cut
  <2>5. /\ cut \in Wrappings(L) /\ (cut = s \/ cut.line = <<>>) /\ Len(cut.word) <= Len(s.word)
        /\ Len(s.word) <= IntMax => cut.word \in Narrow(width)
    BY <1>1, <2>3, <2>4
  <2> QED
    BY <2>5 DEF cut
<1>5. CASE count >= 1
  <2>1. ASSUME NEW i \in 1 .. count
        PROVE  SubSeq(s.word, (i - 1) * width + 1, i * width) \in L
    <3>1. /\ (i - 1) * width + 1 \in 1 .. n /\ i * width \in 0 .. n
          /\ i * width - (i - 1) * width = width
      BY <1>2 DEF CutsOff
    <3> DEFINE from == (i - 1) * width + 1
               to == i * width
    <3>2. from \in 1 .. n /\ to \in 0 .. n /\ to - from + 1 = width
      BY <3>1
    <3> HIDE DEF from, to
    <3>3. SubSeq(s.word, from, to) \in Seq(Characters) /\ Len(SubSeq(s.word, from, to)) = width
      BY <1>1, <3>2
    <3> DEFINE chunk == SubSeq(s.word, from, to)
    <3> HIDE DEF chunk
    <3>4. chunk \in Narrow(width)
      BY <3>3 DEF Narrow, chunk
    <3>5. chunk \in L
      BY <1>0, <3>4
    <3> QED
      BY <3>5 DEF chunk, from, to
  <2>2. chunks \in Seq(L) /\ Len(chunks) = count /\ chunks # <<>>
    <3> DEFINE Chunk(i) == SubSeq(s.word, (i - 1) * width + 1, i * width)
    <3>0. /\ chunks = [i \in 1 .. count |-> Chunk(i)]
          /\ \A i \in 1 .. count : Chunk(i) \in L
      BY <1>3, <2>1
    <3>1. count \in Nat /\ chunks \in [1 .. count -> L]
      <4> HIDE DEF Chunk
      <4>1. count \in Nat
        BY <1>2, <1>5 DEF CutsOff
      <4> QED
        BY <3>0, <4>1
    <3>2. chunks \in Seq(L)
      BY <3>1, SeqDef, Zenon
    <3> QED
      BY <1>5, <3>1, <3>2
  <2>3. flushed \in Wrappings(L) /\ flushed.word = s.word /\ flushed.line = <<>>
    BY FlushWraps
  <2>4. rest \in Seq(Characters) /\ Len(rest) <= n /\ (n <= IntMax => rest \in Narrow(width))
    <3> DEFINE from == count * width + 1
    <3>1. from \in 1 .. n + 1 /\ (n <= IntMax => n - from + 1 <= width)
      BY <1>1, <1>2, <1>5 DEF CutsOff
    <3> HIDE DEF from
    <3>2. SubSeq(s.word, from, n) \in Seq(Characters) /\ Len(SubSeq(s.word, from, n)) = n - from + 1
      BY <1>1, <3>1
    <3>3. Len(SubSeq(s.word, from, n)) <= n
      BY <1>1, <3>1, <3>2
    <3>4. n <= IntMax => SubSeq(s.word, from, n) \in Narrow(width)
      BY <3>1, <3>2 DEF Narrow
    <3>5. rest = SubSeq(s.word, from, n)
      BY <2>2 DEF from
    <3> HIDE DEF rest
    <3> QED
      BY <3>2, <3>3, <3>4, <3>5
  <2>5. cut = [flushed EXCEPT !.lines = flushed.lines \o chunks, !.word = rest]
    BY <2>2, <2>3 DEF CutWord, chunks
  <2> HIDE DEF flushed, rest, cut
  <2>6. flushed.lines \o chunks \in Seq(L)
    <3>1. flushed.lines \in Seq(L)
      BY <2>3 DEF Wrappings
    <3> QED
      BY <2>2, <3>1
  <2> DEFINE longer == flushed.lines \o chunks
  <2> HIDE DEF longer
  <2>7. cut \in Wrappings(L) /\ cut.line = <<>> /\ cut.word = rest
    BY <2>3, <2>4, <2>5, <2>6 DEF Wrappings, longer
  <2> QED
    BY <2>4, <2>7 DEF cut
<1> QED
  BY <1>2, <1>4, <1>5 DEF CutsOff

LEMMA AddWraps ==
  ASSUME NEW width \in Nat, NEW L, Lining(L, width), NEW s \in Wrappings(L), s.word \in L,
         s.line # <<>> /\ Fits(s.line, s.word, width) => s.line \o <<Blank>> \o s.word \in L
  PROVE  /\ AddWord(s, width) \in Wrappings(L) /\ AddWord(s, width).word = <<>>
         /\ \/ AddWord(s, width).line = s.word
            \/ s.line # <<>> /\ AddWord(s, width).line = s.line \o <<Blank>> \o s.word
<1> DEFINE flushed == FlushLine(s, FALSE)
           spaced == s.line \o <<Blank>> \o s.word
           added == AddWord(s, width)
<1>1. flushed \in Wrappings(L) /\ <<>> \in Seq(Characters) /\ L \subseteq Seq(Characters)
  BY FlushWraps, LiningBounds
<1>2. added = IF s.line = <<>> THEN [s EXCEPT !.line = s.word, !.word = <<>>]
              ELSE IF Fits(s.line, s.word, width) THEN [s EXCEPT !.line = spaced, !.word = <<>>]
              ELSE [flushed EXCEPT !.line = s.word, !.word = <<>>]
  <2>1. flushed.word = s.word
    BY FlushWraps
  <2> HIDE DEF flushed
  <2> QED
    BY <1>1, <2>1 DEF AddWord, Wrappings, flushed
<1>3. s.line # <<>> /\ Fits(s.line, s.word, width) => spaced \in L
  OBVIOUS
<1> HIDE DEF flushed, spaced, added
<1>4. /\ added \in Wrappings(L) /\ added.word = <<>>
      /\ added.line = s.word \/ (s.line # <<>> /\ added.line = spaced)
  BY <1>1, <1>2, <1>3 DEF Wrappings
<1> QED
  BY <1>4 DEF added, spaced

LEMMA SpacedTyped ==
  ASSUME NEW line \in Seq(Characters), NEW word \in Seq(Characters)
  PROVE  /\ line \o <<Blank>> \o word \in Seq(Characters)
         /\ Len(line \o <<Blank>> \o word) = Len(line) + 1 + Len(word)
         /\ Len(line) + 1 + Len(word) \in Nat
<1>1. <<Blank>> \in Seq(Characters)
  BY CharacterAssumption
<1> QED
  BY <1>1

\* What stands in a line with a word still fits: by the size of a text that is
\* an int, or because a line may be of any length.
LEMMA SpacedWraps ==
  ASSUME NEW width \in Nat, NEW L, Lining(L, width), NEW s \in Wrappings(L),
         L = Seq(Characters) \/ Sized(s, IntMax),
         s.line # <<>>, Fits(s.line, s.word, width)
  PROVE  s.line \o <<Blank>> \o s.word \in L
<1> DEFINE spaced == s.line \o <<Blank>> \o s.word
           size == Len(s.line) + 1 + Len(s.word)
<1>1. s.line \in Seq(Characters) /\ s.word \in Seq(Characters) /\ <<Blank>> \in Seq(Characters)
  <2>1. s.line \in L /\ s.word \in Seq(Characters)
    BY DEF Wrappings
  <2>2. L \subseteq Seq(Characters)
    BY LiningBounds
  <2> QED
    BY <2>1, <2>2, CharacterAssumption
<1>2. spaced \in Seq(Characters) /\ Len(spaced) = size /\ size \in Nat
  BY <1>1, SpacedTyped
<1>3. CASE L = Seq(Characters)
  BY <1>2, <1>3
<1>4. CASE Sized(s, IntMax)
  <2>1. size <= IntMax /\ AsInt(size) <= width
    BY <1>4 DEF Sized, Fits
  <2> HIDE DEF size, spaced
  <2>2. spaced \in Narrow(width)
    BY <1>2, <2>1, AsIntSame DEF Narrow
  <2> QED
    BY <2>2, LiningBounds DEF spaced
<1> QED
  BY <1>3, <1>4

LEMMA AppendWraps ==
  ASSUME NEW width \in Nat \ {0}, NEW L, Lining(L, width), NEW s \in Wrappings(L),
         L = Seq(Characters) \/ Sized(s, IntMax)
  PROVE  AppendWord(s, width) \in Wrappings(L) /\ AppendWord(s, width).word = <<>>
<1> DEFINE cut == CutWord(s, width)
<1>1. cut \in Wrappings(L) /\ (cut = s \/ cut.line = <<>>)
      /\ (Len(s.word) <= IntMax => cut.word \in Narrow(width))
  BY CutWraps
<1> HIDE DEF cut
<1>2. cut.word \in L
  BY <1>1, LiningBounds DEF Wrappings, Sized
<1>3. cut.line # <<>> /\ Fits(cut.line, cut.word, width) => cut.line \o <<Blank>> \o cut.word \in L
  <2> SUFFICES ASSUME cut.line # <<>>, Fits(cut.line, cut.word, width)
               PROVE  cut.line \o <<Blank>> \o cut.word \in L
    OBVIOUS
  <2>1. L = Seq(Characters) \/ Sized(cut, IntMax)
    BY <1>1
  <2> QED
    BY <1>1, <2>1, SpacedWraps
<1>4. AddWord(cut, width) \in Wrappings(L) /\ AddWord(cut, width).word = <<>>
  BY <1>1, <1>2, <1>3, AddWraps
<1> QED
  BY <1>4 DEF AppendWord, cut

LEMMA WrappingWraps ==
  ASSUME NEW width \in Nat \ {0}, NEW L, Lining(L, width), NEW s \in Wrappings(L),
         L = Seq(Characters) \/ Sized(s, IntMax), NEW character \in Wrappable
  PROVE  Wrapping(s, character, width) \in Wrappings(L)
<1> DEFINE appended == AppendWord(s, width)
           flushed == FlushLine(appended, TRUE)
<1>1. appended \in Wrappings(L)
  BY AppendWraps
<1>2. flushed \in Wrappings(L)
  BY <1>1, FlushWraps
<1> HIDE DEF appended, flushed
<1>3. [flushed EXCEPT !.ended = TRUE] \in Wrappings(L)
  BY <1>2 DEF Wrappings
<1>4. [appended EXCEPT !.ended = FALSE] \in Wrappings(L)
  BY <1>1 DEF Wrappings
<1>5. ASSUME character \in Characters
      PROVE  [s EXCEPT !.word = Append(s.word, character), !.ended = FALSE] \in Wrappings(L)
  <2> DEFINE longer == Append(s.word, character)
  <2>1. longer \in Seq(Characters)
    BY <1>5 DEF Wrappings
  <2> HIDE DEF longer
  <2>2. [s EXCEPT !.word = longer, !.ended = FALSE] \in Wrappings(L)
    BY <2>1 DEF Wrappings
  <2> QED
    BY <2>2 DEF longer
<1>6. character \in Characters \/ character \in {Return, Newline, Blank, Tab}
  BY DEF Wrappable
<1> QED
  BY <1>3, <1>4, <1>5, <1>6 DEF Wrapping, appended, flushed

\* One character later, line and word have at most one character more.
LEMMA SizedMore ==
  ASSUME NEW s \in Wrappings(Seq(Characters)), NEW length \in Int, NEW more \in Int,
         length <= more, Sized(s, length)
  PROVE  Sized(s, more)
<1> DEFINE a == Len(s.line)
           b == Len(s.word)
           empty == s.line = <<>>
<1>1. a \in Nat /\ b \in Nat /\ b <= length /\ (~empty => a + 1 + b <= length)
  BY DEF Sized, Wrappings
<1>2. Sized(s, more) <=> b <= more /\ (~empty => a + 1 + b <= more)
  BY DEF Sized
<1> HIDE DEF a, b, empty
<1>3. b <= more /\ (~empty => a + 1 + b <= more)
  BY <1>1
<1> QED
  BY <1>2, <1>3

LEMMA AppendSized ==
  ASSUME NEW width \in Nat \ {0}, NEW s \in Wrappings(Seq(Characters)), NEW length \in Nat,
         Sized(s, length)
  PROVE  Sized([AppendWord(s, width) EXCEPT !.ended = FALSE], length + 1)
<1> DEFINE cut == CutWord(s, width)
           added == AddWord(cut, width)
           t == AppendWord(s, width)
           L == Seq(Characters)
<1>0. Lining(L, width) /\ s.line \in L /\ s.word \in L /\ <<Blank>> \in L
  BY CharacterAssumption DEF Lining, Wrappings
<1>1. cut \in Wrappings(L) /\ (cut = s \/ cut.line = <<>>) /\ Len(cut.word) <= Len(s.word)
  BY <1>0, CutWraps
<1> HIDE DEF cut
<1>2. cut.word \in L /\ cut.line \in L
  BY <1>1 DEF Wrappings
<1>3. \/ added.line = cut.word
      \/ cut.line # <<>> /\ added.line = cut.line \o <<Blank>> \o cut.word
  <2>1. cut.line \o <<Blank>> \o cut.word \in L
    BY <1>0, <1>2
  <2> HIDE DEF L
  <2> QED
    BY <1>0, <1>1, <1>2, <2>1, AddWraps
<1>4. t = IF s.word = <<>> THEN s ELSE added
  BY DEF AppendWord, cut
<1>5. t \in Wrappings(L) /\ t.word = <<>>
  BY <1>0, AppendWraps
<1> HIDE DEF t, added
<1>6. Len(s.line) \in Nat /\ Len(s.word) \in Nat /\ Len(cut.word) \in Nat /\ Len(<<>>) = 0
      /\ Len(s.line \o <<Blank>> \o s.word) = Len(s.line) + 1 + Len(s.word)
  BY <1>0, <1>2
<1>7. Len(s.word) <= length /\ (s.line # <<>> => Len(s.line) + 1 + Len(s.word) <= length)
  BY DEF Sized
<1>8. Len(t.line) <= length
  <2>1. CASE s.word = <<>>
    <3>1. CASE s.line = <<>>
      BY <1>4, <1>6, <2>1, <3>1
    <3>2. CASE s.line # <<>>
      <4>1. Len(s.line) + 1 + 0 <= length
        BY <1>6, <1>7, <2>1, <3>2
      <4>2. Len(s.line) <= length
        BY <1>6, <4>1
      <4> QED
        BY <1>4, <2>1, <4>2
    <3> QED
      BY <3>1, <3>2
  <2>2. CASE s.word # <<>> /\ added.line = cut.word
    BY <1>1, <1>4, <1>6, <1>7, <2>2
  <2>3. CASE s.word # <<>> /\ cut.line # <<>> /\ added.line = cut.line \o <<Blank>> \o cut.word
    <3>1. cut = s
      BY <1>1, <2>3
    <3> QED
      BY <1>4, <1>6, <1>7, <2>3, <3>1
  <2> QED
    BY <1>3, <2>1, <2>2, <2>3
<1> DEFINE new == [t EXCEPT !.ended = FALSE]
<1>9. new.line = t.line /\ new.word = <<>>
  BY <1>5 DEF Wrappings
<1>10. Len(t.line) \in Nat
  BY <1>5 DEF Wrappings
<1> HIDE DEF new
<1>11. Sized(new, length + 1)
  BY <1>6, <1>8, <1>9, <1>10 DEF Sized
<1> QED
  BY <1>11 DEF new, t

LEMMA WrappingSized ==
  ASSUME NEW width \in Nat \ {0}, NEW s \in Wrappings(Seq(Characters)),
         NEW character \in Wrappable, NEW length \in Nat, Sized(s, length)
  PROVE  Sized(Wrapping(s, character, width), length + 1)
<1> DEFINE t == AppendWord(s, width)
           flushed == FlushLine(t, TRUE)
           L == Seq(Characters)
<1>0. Lining(L, width)
  BY DEF Lining
<1>1. t \in Wrappings(L) /\ t.word = <<>>
  BY <1>0, AppendWraps
<1>2. flushed \in Wrappings(L) /\ flushed.word = <<>> /\ flushed.line = <<>>
  <2> HIDE DEF t
  <2> QED
    BY <1>0, <1>1, FlushWraps
<1>3. Sized([t EXCEPT !.ended = FALSE], length + 1)
  BY AppendSized
<1> HIDE DEF t, flushed
<1>4. Sized([flushed EXCEPT !.ended = TRUE], length + 1)
  <2>1. [flushed EXCEPT !.ended = TRUE].line = <<>> /\ [flushed EXCEPT !.ended = TRUE].word = <<>>
    BY <1>2 DEF Wrappings
  <2>2. Len(<<>>) = 0
    OBVIOUS
  <2> DEFINE new == [flushed EXCEPT !.ended = TRUE]
  <2> HIDE DEF new
  <2>3. new.line = <<>> /\ new.word = <<>>
    BY <2>1 DEF new
  <2>4. Sized(new, length + 1)
    BY <2>2, <2>3 DEF Sized
  <2> QED
    BY <2>4 DEF new
<1>5. Sized(s, length + 1)
  BY SizedMore
<1>6. ASSUME character \in Characters
      PROVE  Sized([s EXCEPT !.word = Append(s.word, character), !.ended = FALSE], length + 1)
  <2> DEFINE longer == Append(s.word, character)
             new == [s EXCEPT !.word = longer, !.ended = FALSE]
             a == Len(s.line)
             b == Len(s.word)
             empty == s.line = <<>>
             n == Len(longer)
  <2>1. a \in Nat /\ b \in Nat /\ n = b + 1 /\ b <= length /\ (~empty => a + 1 + b <= length)
    BY <1>6 DEF Sized, Wrappings
  <2>2. new.line = s.line /\ new.word = longer
    BY DEF Wrappings
  <2> HIDE DEF new
  <2>3. Sized(new, length + 1) <=> n <= length + 1 /\ (~empty => a + 1 + n <= length + 1)
    BY <2>2 DEF Sized
  <2> HIDE DEF a, b, empty, n, longer
  <2>4. Sized(new, length + 1)
    BY <2>1, <2>3
  <2> QED
    BY <2>4 DEF new, longer
<1>7. character \in Characters \/ character \in {Return, Newline, Blank, Tab}
  BY DEF Wrappable
<1> QED
  BY <1>3, <1>4, <1>5, <1>6, <1>7 DEF Wrapping, t, flushed

\* The loop over the characters.
Breaking(width) ==
  [p \in Wrappings(Seq(Characters)) \X Wrappable |-> Wrapping(p[1], p[2], width)]

LEMMA SameMaximum == \A S : Library!Max(S) = Series!Max(S)
BY DEF Library!Max, Series!Max

\* What the loop has after some characters of a text of so many.
LoopHas(s, width, length, characters) ==
  /\ s \in Wrappings(Seq(Characters))
  /\ length <= IntMax => s \in Wrappings(Narrow(width)) /\ Sized(s, characters)

LEMMA LoopGoesOn ==
  ASSUME NEW width \in Nat \ {0}, NEW length \in Nat, NEW n \in Nat, n < length,
         NEW s, LoopHas(s, width, length, n), NEW character \in Wrappable
  PROVE  LoopHas(Wrapping(s, character, width), width, length, n + 1)
<1>1. Lining(Seq(Characters), width) /\ Lining(Narrow(width), width) /\ IntMax \in Nat
  BY IntAssumption DEF Lining
<1>2. s \in Wrappings(Seq(Characters))
  BY DEF LoopHas
<1>3. Wrapping(s, character, width) \in Wrappings(Seq(Characters))
  BY <1>1, <1>2, WrappingWraps
<1>4. ASSUME length <= IntMax
      PROVE  /\ Wrapping(s, character, width) \in Wrappings(Narrow(width))
             /\ Sized(Wrapping(s, character, width), n + 1)
  <2>1. s \in Wrappings(Narrow(width)) /\ Sized(s, n)
    BY <1>4 DEF LoopHas
  <2>2. n <= IntMax
    BY <1>1, <1>4
  <2>3. Sized(s, IntMax)
    BY <1>1, <1>2, <2>1, <2>2, SizedMore
  <2> QED
    BY <1>1, <1>2, <2>1, <2>3, WrappingWraps, WrappingSized
<1> QED
  BY <1>3, <1>4 DEF LoopHas

LEMMA LinesWrapped ==
  ASSUME NEW width \in Nat \ {0}, NEW text \in Seq(Wrappable)
  PROVE  /\ WrappedLines(text, width) \in Seq(Seq(Characters))
         /\ Len(text) <= IntMax => WrappedLines(text, width) \in Seq(Narrow(width))
<1> DEFINE n == Len(text)
           V == Wrappings(Seq(Characters))
           F == Breaking(width)
           Body(it) ==
             [s \in SUBSET (1 .. n) |->
                IF s = {} THEN Empty
                ELSE Wrapping(it[s \ {Series!Max(s)}], text[Series!Max(s)], width)]
           P(it) == it = Body(it)
           c == CHOOSE it : P(it)
           done == AppendWord(c[1 .. n], width)
<1>0. /\ n \in Nat /\ DOMAIN text = 1 .. n
      /\ Lining(Seq(Characters), width) /\ Lining(Narrow(width), width)
      /\ Empty \in V /\ Empty \in Wrappings(Narrow(width)) /\ IntMax \in Nat
  <2>1. Lining(Seq(Characters), width) /\ Lining(Narrow(width), width)
    BY DEF Lining
  <2> QED
    BY <2>1, LiningBounds, IntAssumption
<1>1. WrappedLines(text, width) = FlushLine(done, done.lines = <<>> \/ done.ended).lines
  BY <1>0 DEF WrappedLines, Series!FoldLeft, Series!MapThenFoldSet
<1>2. /\ F \in [V \X Wrappable -> V]
      /\ \A s \in V, character \in Wrappable :
           F[<<s, character>>] = Wrapping(s, character, width)
  <2>1. \A s \in V, character \in Wrappable : Wrapping(s, character, width) \in V
    BY <1>0, WrappingWraps
  <2> QED
    BY <2>1 DEF Breaking
<1> HIDE DEF F
<1>3. PICK d : Library!Iterates(d, F, Empty, text, n)
  BY <1>0, Library!IteratesExist
<1>4. Library!ValuesIn(d, V, n)
  <2> HIDE DEF V
  <2> QED
    BY <1>0, <1>2, <1>3, Library!IteratesTyped
<1>5. P(d)
  <2>1. ASSUME NEW s \in SUBSET (1 .. n), s # {} PROVE Series!Max(s) \in s
    BY <1>0, <2>1, Library!MaxMember, SameMaximum
  <2>2. ASSUME NEW s \in SUBSET (1 .. n), s # {}
        PROVE  F[<<d[s \ {Series!Max(s)}], text[Series!Max(s)]>>]
                 = Wrapping(d[s \ {Series!Max(s)}], text[Series!Max(s)], width)
    <3>1. Series!Max(s) \in 1 .. n /\ s \ {Series!Max(s)} \in SUBSET (1 .. n)
      BY <2>1, <2>2
    <3> HIDE DEF V
    <3>2. d[s \ {Series!Max(s)}] \in V /\ text[Series!Max(s)] \in Wrappable
      BY <1>0, <1>4, <3>1 DEF Library!ValuesIn
    <3> QED
      BY <1>2, <3>2
  <2>3. d = [s \in SUBSET (1 .. n) |->
               IF s = {} THEN Empty ELSE F[<<d[s \ {Series!Max(s)}], text[Series!Max(s)]>>]]
    BY <1>3, SameMaximum DEF Library!Iterates
  <2> QED
    BY <2>2, <2>3
<1>6. P(c)
  <2> HIDE DEF P
  <2> QED
    BY <1>5, Zenon
<1> HIDE DEF c
<1> DEFINE S == {k \in Nat : k <= n => LoopHas(c[1 .. k], width, n, k)}
<1>7. 0 \in S
  <2>1. 1 .. 0 = {} /\ {} \in SUBSET (1 .. n)
    OBVIOUS
  <2>2. c[1 .. 0] = Empty
    BY <1>6, <2>1
  <2>3. Sized(Empty, 0)
    BY DEF Sized, Empty
  <2>4. LoopHas(Empty, width, n, 0)
    BY <1>0, <2>3 DEF LoopHas
  <2> QED
    BY <2>2, <2>4
<1>8. ASSUME NEW k \in Nat, k \in S PROVE k + 1 \in S
  <2> SUFFICES ASSUME k + 1 <= n PROVE LoopHas(c[1 .. k + 1], width, n, k + 1)
    OBVIOUS
  <2>1. k + 1 > 0 /\ k + 1 \in Nat /\ 1 .. k + 1 \in SUBSET (1 .. n) /\ k + 1 - 1 = k
    BY <1>0
  <2>2. /\ Series!Max(1 .. k + 1) = k + 1 /\ 1 .. k + 1 # {}
        /\ (1 .. k + 1) \ {Series!Max(1 .. k + 1)} = 1 .. k
    <3>1. /\ Library!Max(1 .. k + 1) = k + 1 /\ 1 .. k + 1 # {}
          /\ (1 .. k + 1) \ {Library!Max(1 .. k + 1)} = 1 .. (k + 1) - 1
      BY <2>1, Library!MaxInterval
    <3> QED
      BY <2>1, <3>1, SameMaximum
  <2>3. c[1 .. k + 1] = Wrapping(c[1 .. k], text[k + 1], width)
    BY <1>6, <2>1, <2>2
  <2>4. LoopHas(c[1 .. k], width, n, k) /\ text[k + 1] \in Wrappable /\ k < n
    BY <1>0, <1>8, <2>1
  <2> HIDE DEF n
  <2> QED
    BY <1>0, <2>3, <2>4, LoopGoesOn
<1> HIDE DEF S
<1>9. \A k \in Nat : k \in S
  BY <1>7, <1>8, Library!Induction, Zenon
<1> DEFINE final == c[1 .. n]
<1>10. LoopHas(final, width, n, n)
  BY <1>0, <1>9 DEF S
<1> DEFINE withEmpty == done.lines = <<>> \/ done.ended
<1>11. ASSUME NEW L, Lining(L, width), final \in Wrappings(L),
              L = Seq(Characters) \/ Sized(final, IntMax)
       PROVE  WrappedLines(text, width) \in Seq(L)
  <2> HIDE DEF final
  <2>1. done \in Wrappings(L)
    BY <1>11, AppendWraps DEF final
  <2> HIDE DEF done
  <2>2. withEmpty \in BOOLEAN
    OBVIOUS
  <2> HIDE DEF withEmpty
  <2>3. FlushLine(done, withEmpty) \in Wrappings(L)
    BY <1>11, <2>1, <2>2, FlushWraps
  <2> QED
    BY <1>1, <2>3 DEF Wrappings, withEmpty
<1> HIDE DEF final, V
<1>12. WrappedLines(text, width) \in Seq(Seq(Characters))
  BY <1>0, <1>10, <1>11 DEF LoopHas
<1>13. ASSUME n <= IntMax PROVE WrappedLines(text, width) \in Seq(Narrow(width))
  <2>1. final \in Wrappings(Narrow(width)) /\ Sized(final, n) /\ final \in Wrappings(Seq(Characters))
    BY <1>10, <1>13 DEF LoopHas
  <2>2. Sized(final, IntMax)
    BY <1>0, <1>13, <2>1, SizedMore
  <2> QED
    BY <1>0, <1>11, <2>1, <2>2
<1> QED
  BY <1>12, <1>13

\* Drawing wrapped text: every one of its lines is a clipped text.
LEMMA WrappedHeeds ==
  ASSUME NEW area \in DrawAreas, NEW text \in WrappedTexts, NEW ink \in Inks,
         NEW alignment \in {"Left", "Centre", "Right"},
         DrawWrappedText(area, text, alignment, ink)
  PROVE  \E dots : Draw(dots) /\ Heeds(dots)
<1>1. area \in Rects /\ area.x \in Int /\ area.width \in Int /\ Coloured(ink)
  BY CharacterAssumption, IntAssumption, InksColoured DEF Rects, Ints
<1>2. Heeds(TextWrapped(area, text, alignment, ink))
  <2>1. CASE ~frameBufferActive \/ area.width <= 0 \/ area.height <= 0
    BY <2>1, NothingHeeds DEF TextWrapped
  <2>2. CASE ~(~frameBufferActive \/ area.width <= 0 \/ area.height <= 0)
    <3> DEFINE lines == WrappedLines(text, area.width)
               drawn == {i \in 1 .. Smaller(area.height, AsInt(Len(lines))) :
                           FitsInt(LineRow(area, i))}
               Dot(i) == TextClipped(ClampToInt(AlignedX(area, Len(lines[i]), alignment)),
                                     LineRow(area, i), lines[i], area, ink)
               dots == [i \in drawn |-> Dot(i)]
    <3>1. area.width \in Nat \ {0} /\ text \in Seq(Wrappable)
      BY <1>1, <2>2, WrappedAssumption DEF Wrappable
    <3>2. lines \in Seq(Seq(Characters))
      BY <3>1, LinesWrapped
    <3>3. area.height \in Int
      BY <1>1, IntAssumption DEF Rects, Ints
    <3> HIDE DEF lines
    <3>4. drawn \subseteq DOMAIN lines
      <4>1. Len(lines) \in Nat /\ DOMAIN lines = 1 .. Len(lines)
        BY <3>2
      <4>2. AsInt(Len(lines)) \in Int /\ AsInt(Len(lines)) <= Len(lines)
        BY <4>1, AsIntBelow
      <4> QED
        BY <3>3, <4>1, <4>2 DEF Smaller
    <3>5. ASSUME NEW i \in drawn PROVE Heeds(Dot(i))
      <4>1. lines[i] \in Seq(Characters) /\ Len(lines[i]) \in Int
        BY <3>2, <3>4
      <4>2. Half(area.width - Len(lines[i])) \in Int
        BY <1>1, <4>1 DEF Half
      <4>3. ClampToInt(AlignedX(area, Len(lines[i]), alignment)) \in Int
        BY <1>1, <4>1, <4>2, IntAssumption DEF ClampToInt, AlignedX
      <4> QED
        BY <1>1, <4>1, <4>3, TextHeeds
    <3> HIDE DEF Dot, drawn
    <3>6. \A i \in drawn : dots[i] = Dot(i)
      OBVIOUS
    <3> DEFINE P == UNION {DOMAIN dots[i] : i \in drawn}
               Line(p) == CHOOSE i \in drawn : p \in DOMAIN dots[i]
    <3>7. TextWrapped(area, text, alignment, ink) = [p \in P |-> dots[Line(p)][p]]
      BY <2>2 DEF TextWrapped, lines, drawn, Dot
    <3>8. ASSUME NEW p \in P PROVE Drawable(p) /\ dots[Line(p)][p] \in CellType
      <4>1. \E i \in drawn : p \in DOMAIN dots[i]
        OBVIOUS
      <4>2. Line(p) \in drawn /\ p \in DOMAIN dots[Line(p)]
        BY <4>1
      <4> QED
        BY <3>5, <3>6, <4>2 DEF Heeds
    <3> HIDE DEF P, Line, dots
    <3> QED
      BY <3>7, <3>8 DEF Heeds
  <2> QED
    BY <2>1, <2>2
<1> QED
  BY <1>2 DEF DrawWrappedText

-----------------------------------------------------------------------------
(***************************************************************************)
(* Types.                                                                  *)
(***************************************************************************)
LEMMA SizesTyped ==
  ASSUME NEW size \in Sizes
  PROVE  /\ size.width \in 1 .. IntMax /\ size.height \in 1 .. IntMax
         /\ size = [width |-> size.width, height |-> size.height]
BY SizesAssumption, IntAssumption DEF Ints

LEMMA EmptyTyped ==
  ASSUME NEW w, NEW h
  PROVE  EmptyBuffer(w, h) \in [Cells(w, h) -> CellType]
<1>1. Cell(Blank, DefaultInk) \in CellType
  BY CharacterAssumption DEF Cell, CellType, Glyphs
<1> QED
  BY <1>1 DEF EmptyBuffer

LEMMA ActiveClipTyped ==
  ASSUME TypeOK
  PROVE  ActiveClip \in Rects /\ FrameRect \in Rects
<1>1. FrameRect \in Rects
  BY IntAssumption DEF TypeOK, FrameRect, Rect, Rects, Ints
<1>2. clipStack # <<>> => clipStack[Len(clipStack)] \in Rects
  BY DEF TypeOK
<1> QED
  BY <1>1, <1>2 DEF ActiveClip

LEMMA DrawTyped ==
  ASSUME TypeOK, NEW dots, Draw(dots),
         \A p \in DOMAIN frameBuffer : p \in DOMAIN dots => dots[p] \in CellType
  PROVE  TypeOK'
<1>1. frameBuffer' \in [Cells(frameWidth, frameHeight) -> CellType]
  BY DEF TypeOK, Draw
<1> QED
  BY <1>1 DEF TypeOK, Draw, frameVars, renderVars, terminalVars, clipVars, Cells

LEMMA ReallocatedTyped ==
  ASSUME TypeOK, Reallocated, UNCHANGED <<renderVars, terminalVars, pc>>
  PROVE  TypeOK'
<1>1. winSize.width \in 0 .. IntMax /\ winSize.height \in 0 .. IntMax
  BY SizesTyped, IntAssumption DEF TypeOK
<1>2. /\ frameBuffer' \in [Cells(frameWidth', frameHeight') -> CellType]
      /\ previousBuffer' \in [Cells(frameWidth', frameHeight') -> CellType]
  BY EmptyTyped DEF Reallocated, BuffersRenewed
<1>3. <<>> \in Seq(Rects) /\ <<>> \in Seq(Areas)
  OBVIOUS
<1> QED
  BY <1>1, <1>2, <1>3
  DEF TypeOK, Reallocated, BuffersRenewed, renderVars, terminalVars, Cells

LEMMA OriginTyped == <<0, 0>> \in Nat \X Nat
OBVIOUS

LEMMA TypeStep ==
  ASSUME TypeOK, [TextNext]_vars
  PROVE  TypeOK'
<1> USE DEF frameVars, bufferVars, renderVars, terminalVars, clipVars, Cells
<1>1. CASE InitializeFrameBuffer
  BY <1>1, ReallocatedTyped DEF InitializeFrameBuffer
<1>2. CASE ResizeToTerminal
  BY <1>2, ReallocatedTyped DEF ResizeToTerminal
<1>3. CASE ShutdownFrameBuffer
  <2>1. /\ frameBuffer' \in [Cells(frameWidth', frameHeight') -> CellType]
        /\ previousBuffer' \in [Cells(frameWidth', frameHeight') -> CellType]
    BY <1>3, EmptyTyped DEF ShutdownFrameBuffer
  <2>2. <<>> \in Seq(Rects) /\ <<>> \in Seq(Areas) /\ 0 \in 0 .. IntMax
    BY IntAssumption
  <2> QED
    BY <1>3, <2>1, <2>2 DEF TypeOK, ShutdownFrameBuffer
<1>4. CASE Invalidate
  BY <1>4 DEF TypeOK, Invalidate
<1>5. ASSUME NEW area \in Areas, PushClip(area) PROVE TypeOK'
  <2>1. Intersect(ActiveClip, area) \in Rects
    BY ActiveClipTyped, IntersectType, CharacterAssumption
  <2>2. clipStack' \in Seq(Rects) /\ pushed' \in Seq(Areas)
    BY <1>5, <2>1 DEF TypeOK, PushClip
  <2> QED
    BY <1>5, <2>2 DEF TypeOK, PushClip, ClipCall
<1>6. CASE PopClip
  <2>1. ASSUME NEW S, NEW s \in Seq(S) PROVE SubSeq(s, 1, Len(s) - 1) \in Seq(S)
    BY SubSeqProperties
  <2>2. clipStack' \in Seq(Rects) /\ pushed' \in Seq(Areas)
    BY <1>6, <2>1 DEF TypeOK, PopClip
  <2> QED
    BY <1>6, <2>2 DEF TypeOK, PopClip, ClipCall
<1>7. CASE ClearClips
  BY <1>7 DEF TypeOK, ClearClips, ClipCall
<1>8. CASE DrawInside
  BY <1>8, DrawingHeeds, DrawTyped DEF Heeds
<1>9. ASSUME NEW ink \in Inks, BeginFrame(ink) PROVE TypeOK'
  <2>1. Cell(Blank, ink) \in CellType
    BY DEF Cell, CellType, Glyphs
  <2> QED
    BY <1>9, <2>1, DrawTyped DEF BeginFrame
<1>10. CASE EndFrame
  <2>1. spoilt' \in BOOLEAN
    BY <1>10 DEF TypeOK, EndFrame, RenderFullFrame, RenderDifferentialFrame, RenderNothing
  <2>2. /\ pc' \in {"idle", "full", "diff"}
        /\ at' \in Nat \X Nat /\ inRun' \in BOOLEAN
    <3>1. CASE Start("full") \/ Start("diff")
      BY <3>1, OriginTyped DEF Start, FreshRenderer
    <3>2. CASE RenderNothing
      BY <3>2 DEF TypeOK, RenderNothing
    <3> QED
      BY <1>10, <3>1, <3>2 DEF EndFrame, RenderFullFrame, RenderDifferentialFrame
  <2>3. /\ frameBuffer' \in [Cells(frameWidth, frameHeight) -> CellType]
        /\ previousBuffer' \in [Cells(frameWidth, frameHeight) -> CellType]
    BY <1>10 DEF TypeOK, EndFrame, RenderFullFrame, RenderDifferentialFrame, RenderNothing,
                 Start, SwapBuffers
  <2> QED
    BY <1>10, <2>1, <2>2, <2>3 DEF TypeOK, EndFrame
<1>11. CASE RenderCell
  <2>1. at' \in Nat \X Nat
    BY <1>11 DEF TypeOK, RenderCell, Next1
  <2>2. inRun' \in BOOLEAN
    BY <1>11, Zenon DEF RenderCell, Written
  <2> QED
    BY <1>11, <2>1, <2>2 DEF TypeOK, RenderCell
<1>12. CASE FrameWritten
  BY <1>12 DEF TypeOK, FrameWritten, FreshRenderer, SwapBuffers
<1>13. CASE FrameFails
  BY <1>13 DEF TypeOK, FrameFails, FreshRenderer, MustRepaint
<1>14. ASSUME NEW size \in Sizes, Disturb(size) PROVE TypeOK'
  BY <1>14 DEF TypeOK, Disturb
<1>15. CASE UNCHANGED vars
  BY <1>15 DEF TypeOK, vars
<1>16. ASSUME NEW area \in DrawAreas, NEW text \in WrappedTexts, NEW ink \in Inks,
             NEW alignment \in {"Left", "Centre", "Right"},
             DrawWrappedText(area, text, alignment, ink)
      PROVE  TypeOK'
  BY <1>16, WrappedHeeds, DrawTyped DEF Heeds
<1> QED
  BY <1>1, <1>2, <1>3, <1>4, <1>5, <1>6, <1>7, <1>8, <1>9, <1>10, <1>11, <1>12, <1>13, <1>14,
     <1>15, <1>16 DEF TextNext, Next, Session, Clipping, Frame

LEMMA TypeInit ==
  ASSUME Init
  PROVE  TypeOK
<1>1. frameBuffer \in [Cells(0, 0) -> CellType] /\ previousBuffer \in [Cells(0, 0) -> CellType]
  BY EmptyTyped DEF Init
<1>2. /\ frameBuffer \in [Cells(frameWidth, frameHeight) -> CellType]
      /\ previousBuffer \in [Cells(frameWidth, frameHeight) -> CellType]
  BY <1>1 DEF Init
<1>3. 0 \in 0 .. IntMax /\ <<>> \in Seq(Rects) /\ <<>> \in Seq(Areas)
  BY IntAssumption
<1>4. /\ frameWidth \in 0 .. IntMax /\ frameHeight \in 0 .. IntMax
      /\ at \in Nat \X Nat /\ clipStack \in Seq(Rects) /\ pushed \in Seq(Areas)
  BY <1>3, OriginTyped DEF Init
<1> QED
  BY <1>2, <1>4 DEF Init, TypeOK

(***************************************************************************)
(* Every variable keeps its type, and no control character is ever stored  *)
(* in a cell, whatever is drawn.                                           *)
(***************************************************************************)
THEOREM TypeCorrect == TextSpec => []TypeOK
BY TypeInit, TypeStep, PTL DEF TextSpec

-----------------------------------------------------------------------------
(***************************************************************************)
(* Clips.  The inductive invariant adds that there is one area for each    *)
(* clip.                                                                   *)
(***************************************************************************)
ClipInv ==
  /\ TypeOK
  /\ Len(pushed) = Len(clipStack)
  /\ ClipsExact

\* What the active clip is, whether or not there are clips.
LEMMA ActiveClipExact ==
  ASSUME ClipInv, NEW p \in Ints \X Ints
  PROVE  Contains(ActiveClip, p) <=> Shown(p)
<1>1. CASE clipStack = <<>>
  BY <1>1 DEF ClipInv, TypeOK, ActiveClip, Shown
<1>2. CASE clipStack # <<>>
  <2>1. Len(clipStack) \in DOMAIN clipStack /\ DOMAIN pushed = 1 .. Len(clipStack)
    BY <1>2 DEF ClipInv, TypeOK
  <2> QED
    BY <1>2, <2>1 DEF ClipInv, ClipsExact, ActiveClip, Shown
<1> QED
  BY <1>1, <1>2

LEMMA NoClips ==
  ASSUME TypeOK', clipStack' = <<>>, pushed' = <<>>
  PROVE  ClipInv'
BY DEF ClipInv, ClipsExact

LEMMA ClipsUntouched ==
  ASSUME ClipInv, TypeOK', UNCHANGED <<clipVars, frameWidth, frameHeight>>
  PROVE  ClipInv'
BY DEF ClipInv, ClipsExact, clipVars, FrameRect

LEMMA PushedClip ==
  ASSUME ClipInv, NEW area \in Areas, PushClip(area), TypeOK'
  PROVE  ClipInv'
<1>1. /\ ActiveClip \in Rects /\ area \in Rects
  BY ActiveClipTyped, CharacterAssumption DEF ClipInv
<1>2. /\ clipStack \in Seq(Rects) /\ pushed \in Seq(Areas) /\ Len(pushed) = Len(clipStack)
      /\ clipStack' = Append(clipStack, Intersect(ActiveClip, area))
      /\ pushed' = Append(pushed, area)
  BY DEF ClipInv, TypeOK, PushClip
<1>3. FrameRect' = FrameRect
  BY DEF PushClip, ClipCall, frameVars, FrameRect
<1>4. ASSUME NEW i \in DOMAIN clipStack', NEW p \in Ints \X Ints
      PROVE  Contains(clipStack'[i], p) <=>
               /\ Contains(FrameRect', p)
               /\ \A j \in 1 .. i : Contains(pushed'[j], p)
  <2>1. CASE i \in DOMAIN clipStack
    <3>1. clipStack'[i] = clipStack[i] /\ \A j \in 1 .. i : pushed'[j] = pushed[j]
      BY <1>2, <2>1
    <3> QED
      BY <1>3, <2>1, <3>1 DEF ClipInv, ClipsExact
  <2>2. CASE i = Len(clipStack) + 1
    <3>1. clipStack'[i] = Intersect(ActiveClip, area) /\ pushed'[i] = area
      BY <1>2, <2>2
    <3>2. \A j \in 1 .. Len(clipStack) : pushed'[j] = pushed[j]
      BY <1>2
    <3>3. 1 .. i = (1 .. Len(clipStack)) \cup {i} /\ DOMAIN pushed = 1 .. Len(clipStack)
      BY <1>2, <2>2
    <3>4. p \in Int \X Int
      BY IntAssumption DEF Ints
    <3>5. Contains(clipStack'[i], p) <=> Contains(ActiveClip, p) /\ Contains(area, p)
      BY <1>1, <3>1, <3>4, IntersectionExact
    <3>6. Contains(ActiveClip, p) <=>
            Contains(FrameRect, p) /\ \A j \in 1 .. Len(clipStack) : Contains(pushed[j], p)
      BY <3>3, ActiveClipExact DEF Shown
    <3> QED
      BY <1>3, <3>1, <3>2, <3>3, <3>5, <3>6
  <2>3. i \in 1 .. Len(clipStack) + 1
    BY <1>2
  <2> QED
    BY <1>2, <2>1, <2>2, <2>3
<1> QED
  BY <1>2, <1>4 DEF ClipInv, ClipsExact

LEMMA PoppedClip ==
  ASSUME ClipInv, PopClip, TypeOK'
  PROVE  ClipInv'
<1>1. /\ clipStack \in Seq(Rects) /\ pushed \in Seq(Areas) /\ Len(pushed) = Len(clipStack)
      /\ clipStack # <<>>
      /\ clipStack' = SubSeq(clipStack, 1, Len(clipStack) - 1)
      /\ pushed' = SubSeq(pushed, 1, Len(pushed) - 1)
  BY DEF ClipInv, TypeOK, PopClip
<1>2. /\ Len(clipStack) \in Nat \ {0}
      /\ Len(pushed') = Len(clipStack) - 1 /\ Len(clipStack') = Len(clipStack) - 1
      /\ DOMAIN clipStack' = 1 .. (Len(clipStack) - 1)
      /\ \A i \in 1 .. (Len(clipStack) - 1) :
           clipStack'[i] = clipStack[i] /\ pushed'[i] = pushed[i]
  BY <1>1
<1>3. FrameRect' = FrameRect
  BY DEF PopClip, ClipCall, frameVars, FrameRect
<1> QED
  BY <1>1, <1>2, <1>3 DEF ClipInv, ClipsExact

LEMMA ClipStep ==
  ASSUME ClipInv, [TextNext]_vars
  PROVE  ClipInv'
<1>1. TypeOK'
  BY TypeStep DEF ClipInv
<1>2. CASE InitializeFrameBuffer \/ ResizeToTerminal \/ ShutdownFrameBuffer \/ ClearClips
  BY <1>1, <1>2, NoClips
  DEF InitializeFrameBuffer, ResizeToTerminal, ShutdownFrameBuffer, ClearClips, Reallocated
<1>3. CASE PopClip
  BY <1>1, <1>3, PoppedClip
<1>4. ASSUME NEW area \in Areas, PushClip(area) PROVE ClipInv'
  BY <1>1, <1>4, PushedClip
<1>5. ASSUME NEW dots, Draw(dots) PROVE ClipInv'
  BY <1>1, <1>5, ClipsUntouched DEF Draw, frameVars
<1>6. CASE DrawInside \/ \E ink \in Inks : BeginFrame(ink)
  BY <1>5, <1>6, DrawingHeeds DEF BeginFrame
<1>7. CASE Invalidate \/ Frame
  BY <1>1, <1>7, ClipsUntouched
  DEF Invalidate, Frame, EndFrame, RenderCell, FrameWritten, FrameFails, frameVars
<1>8. ASSUME NEW size \in Sizes, Disturb(size) PROVE ClipInv'
  BY <1>1, <1>8, ClipsUntouched DEF Disturb, frameVars
<1>9. CASE UNCHANGED vars
  BY <1>1, <1>9, ClipsUntouched DEF vars, frameVars
<1>10. ASSUME NEW area \in DrawAreas, NEW text \in WrappedTexts, NEW ink \in Inks,
             NEW alignment \in {"Left", "Centre", "Right"},
             DrawWrappedText(area, text, alignment, ink)
      PROVE  ClipInv'
  BY <1>10, <1>5, WrappedHeeds
<1> QED
  BY <1>2, <1>3, <1>4, <1>6, <1>7, <1>8, <1>9, <1>10 DEF TextNext, Next, Session, Clipping

LEMMA ClipInvariant == TextSpec => []ClipInv
<1>1. Init => ClipInv
  <2> SUFFICES ASSUME Init PROVE ClipInv
    OBVIOUS
  <2>1. TypeOK
    BY TypeInit
  <2> QED
    BY <2>1 DEF Init, ClipInv, ClipsExact
<1> QED
  BY <1>1, ClipStep, PTL DEF TextSpec

(***************************************************************************)
(* Every clip on the stack is exactly the intersection of the frame with   *)
(* the areas that were pushed, up to the edges of int.                     *)
(***************************************************************************)
THEOREM ClipsAreIntersections == TextSpec => []ClipsExact
<1>1. ClipInv => ClipsExact
  BY DEF ClipInv
<1> QED
  BY <1>1, ClipInvariant, PTL

(***************************************************************************)
(* No drawing changes a cell outside of the frame or of any pushed area.   *)
(***************************************************************************)
THEOREM DrawingStaysInside == TextSpec => DrawsInsideClips
<1>1. ASSUME ClipInv, DrawInside,
             NEW p \in DOMAIN frameBuffer, frameBuffer'[p] # frameBuffer[p]
      PROVE  Shown(p)
  <2>1. PICK dots : Draw(dots) /\ Heeds(dots)
    BY <1>1, DrawingHeeds
  <2>2. p \in DOMAIN dots
    BY <1>1, <2>1 DEF Draw
  <2>3. Contains(ActiveClip, p)
    BY <2>1, <2>2 DEF Heeds, Drawable
  <2>4. p \in Ints \X Ints
    BY <1>1, IntAssumption DEF ClipInv, TypeOK, Cells, Ints
  <2> QED
    BY <1>1, <2>3, <2>4, ActiveClipExact
<1>2. ClipInv => [DrawInside => \A p \in DOMAIN frameBuffer :
                    frameBuffer'[p] # frameBuffer[p] => Shown(p)]_vars
  BY <1>1
<1> QED
  BY <1>2, ClipInvariant, PTL DEF DrawsInsideClips

-----------------------------------------------------------------------------
(***************************************************************************)
(* Rendering.  The inductive invariant says how much of the frame the      *)
(* screen shows while it is being written: all of it up to the cell that   *)
(* is next, and, in a differential frame, the last frame from there on.    *)
(***************************************************************************)
FrameCells == Cells(frameWidth, frameHeight)

ScreenCovered == screen = [p \in Cells(winSize.width, winSize.height) |-> screen[p]]

FrameFits ==
  frameBufferActive =>
    /\ frameWidth > 0 /\ frameHeight > 0
    /\ ~spoilt => winSize = FrameSize

AtInFrame ==
  Rendering =>
    /\ frameBufferActive
    /\ at[1] < frameWidth /\ at[2] <= frameHeight
    /\ at[2] = frameHeight => at[1] = 0
    /\ pc = "diff" => ~firstFrame

Before(p, q) == p[2] < q[2] \/ (p[2] = q[2] /\ p[1] < q[1])

RenderedSoFar ==
  Rendering /\ ~spoilt =>
    \A p \in FrameCells :
      /\ Before(p, at) => screen[p] = frameBuffer[p]
      /\ ~Before(p, at) /\ pc = "diff" => screen[p] = previousBuffer[p]

CursorPlaced == Rendering /\ ~spoilt /\ ~Moves => cursor = at

PenKnown ==
  Rendering /\ ~spoilt /\ colours.initialized =>
    pen.foreground = colours.ink.foreground /\ pen.background = colours.ink.background

RenderInv ==
  /\ TypeOK /\ ScreenCovered /\ FrameFits /\ AtInFrame /\ ScreenShowsFrame
  /\ RenderedSoFar /\ CursorPlaced /\ PenKnown

\* Between two frames nothing but the screen and the last frame matters.
LEMMA IdleStep ==
  ASSUME RenderInv, TypeOK', pc' = "idle",
         UNCHANGED <<winSize, screen, spoilt>>,
         \/ firstFrame' = TRUE
         \/ pc = "idle" /\ UNCHANGED <<firstFrame, previousBuffer, frameBufferActive>>,
         \/ UNCHANGED frameVars
         \/ ~frameBufferActive'
         \/ frameWidth' > 0 /\ frameHeight' > 0 /\ winSize = FrameSize'
  PROVE  RenderInv'
<1>1. ScreenCovered' /\ FrameFits'
  BY DEF RenderInv, ScreenCovered, FrameFits, FrameSize, Cells, frameVars
<1>2. ScreenShowsFrame'
  BY DEF RenderInv, ScreenShowsFrame
<1> QED
  BY <1>1, <1>2 DEF RenderInv, AtInFrame, RenderedSoFar, CursorPlaced, PenKnown, Rendering

LEMMA SizesSame ==
  ASSUME RenderInv, frameBufferActive, ~spoilt
  PROVE  /\ winSize.width = frameWidth /\ winSize.height = frameHeight
         /\ DOMAIN screen = FrameCells
BY DEF RenderInv, FrameFits, FrameSize, ScreenCovered, FrameCells

LEMMA SpoiltStep ==
  ASSUME RenderInv, TypeOK', spoilt', ScreenCovered', AtInFrame',
         UNCHANGED <<frameVars, firstFrame>>
  PROVE  RenderInv'
BY DEF RenderInv, FrameFits, ScreenShowsFrame, RenderedSoFar, CursorPlaced, PenKnown, frameVars

LEMMA NothingRendered ==
  ASSUME RenderInv, TypeOK', EndFrame, RenderNothing
  PROVE  RenderInv'
<1>1. /\ pc' = "idle" /\ pc = "idle" /\ ~firstFrame
      /\ UNCHANGED <<frameVars, winSize, screen, spoilt, firstFrame>>
      /\ previousBuffer' = frameBuffer
  BY DEF EndFrame, RenderNothing, SwapBuffers
<1>2. frameBuffer = previousBuffer
  <2>1. /\ frameBuffer \in [FrameCells -> CellType]
        /\ previousBuffer \in [FrameCells -> CellType]
    BY DEF RenderInv, TypeOK, FrameCells
  <2>2. \A p \in FrameCells : frameBuffer[p] = previousBuffer[p]
    BY <2>1 DEF RenderNothing, Changed
  <2> QED
    BY <2>1, <2>2
<1> QED
  BY <1>1, <1>2, IdleStep DEF frameVars

LEMMA RenderingStarts ==
  ASSUME RenderInv, TypeOK', EndFrame, RenderFullFrame \/ RenderDifferentialFrame
  PROVE  RenderInv'
<1>1. /\ frameBufferActive /\ pc = "idle" /\ pc' \in {"full", "diff"}
      /\ at' = <<0, 0>> /\ inRun' = FALSE /\ colours'.initialized = FALSE
      /\ UNCHANGED <<frameVars, bufferVars, firstFrame, winSize, screen, cursor, pen>>
      /\ ~spoilt' => winSize = FrameSize
      /\ pc' = "diff" => ~firstFrame /\ spoilt' = spoilt
  <2>1. CASE RenderFullFrame
    <3>1. pc' = "full" /\ spoilt' = IF winSize = FrameSize THEN FALSE ELSE spoilt
      BY <2>1 DEF RenderFullFrame, Start
    <3>2. ~spoilt' => winSize = FrameSize
      BY <3>1 DEF EndFrame, RenderInv, FrameFits
    <3> QED
      BY <2>1, <3>1, <3>2 DEF EndFrame, RenderFullFrame, Start, FreshRenderer, bufferVars
  <2>2. CASE RenderDifferentialFrame
    <3>1. pc' = "diff" /\ ~firstFrame /\ spoilt' = spoilt
      BY <2>2 DEF RenderDifferentialFrame, Start
    <3>2. ~spoilt' => winSize = FrameSize
      BY <3>1 DEF EndFrame, RenderInv, FrameFits
    <3> QED
      BY <2>2, <3>1, <3>2 DEF EndFrame, RenderDifferentialFrame, Start, FreshRenderer, bufferVars
  <2> QED
    BY <2>1, <2>2
<1>2. at'[1] = 0 /\ at'[2] = 0
  BY <1>1
<1>3. frameWidth \in Int /\ frameHeight \in Int /\ frameWidth > 0 /\ frameHeight > 0
  BY <1>1 DEF RenderInv, FrameFits, TypeOK
<1>4. ScreenCovered' /\ FrameFits'
  BY <1>1, <1>3 DEF RenderInv, ScreenCovered, FrameFits, FrameSize, Cells, frameVars
<1>5. AtInFrame' /\ ScreenShowsFrame' /\ PenKnown' /\ CursorPlaced'
  <2>1. AtInFrame'
    BY <1>1, <1>2, <1>3 DEF AtInFrame, frameVars
  <2>2. ScreenShowsFrame' /\ PenKnown'
    BY <1>1 DEF ScreenShowsFrame, PenKnown
  <2>3. Moves'
    BY <1>1, <1>2 DEF Moves
  <2> QED
    BY <2>1, <2>2, <2>3 DEF CursorPlaced
<1>6. RenderedSoFar'
  <2>1. FrameCells' = FrameCells
    BY <1>1 DEF FrameCells, Cells, frameVars
  <2>2. ASSUME NEW p \in FrameCells PROVE ~Before(p, at')
    BY <1>2 DEF Before, FrameCells, Cells
  <2>3. pc' = "diff" /\ ~spoilt' => screen' = previousBuffer'
    BY <1>1 DEF RenderInv, ScreenShowsFrame, bufferVars
  <2> QED
    BY <2>1, <2>2, <2>3 DEF RenderedSoFar
<1> QED
  BY <1>4, <1>5, <1>6 DEF RenderInv

\* One cell written: it lands where it belongs, in its own colours.
LEMMA CellLands ==
  ASSUME RenderInv, Rendering, ~spoilt, at[2] < frameHeight, WriteCell
  PROVE  /\ at \in FrameCells
         /\ screen' = [screen EXCEPT ![at] = frameBuffer[at]]
         /\ cursor' = <<at[1] + 1, at[2]>>
         /\ /\ pen'.foreground = colours'.ink.foreground
            /\ pen'.background = colours'.ink.background
<1> DEFINE cell == frameBuffer[at]
           place == IF Moves THEN MoveTo(at) ELSE cursor
<1>1. /\ frameBufferActive /\ at \in Nat \X Nat
      /\ frameWidth \in Int /\ frameHeight \in Int
      /\ at[1] < frameWidth
  BY DEF RenderInv, TypeOK, AtInFrame
<1>2. at \in FrameCells /\ at = <<at[1], at[2]>> /\ at[1] \in Nat /\ at[2] \in Nat
  BY <1>1 DEF FrameCells, Cells
<1>3. cell \in CellType
  BY <1>2 DEF RenderInv, TypeOK, FrameCells
<1>4. winSize.width = frameWidth /\ winSize.height = frameHeight /\ DOMAIN screen = FrameCells
  BY <1>1, SizesSame
<1>5. MoveTo(at) = at
  BY <1>1, <1>2, <1>4 DEF MoveTo, Smaller
<1>6. place = at
  BY <1>5 DEF RenderInv, CursorPlaced
<1>7. PenFor(cell) = [foreground |-> cell.foreground, background |-> cell.background]
  BY DEF PenFor, RenderInv, PenKnown
<1>8. Cell(cell.character, PenFor(cell)) = cell
  BY <1>3, <1>7 DEF Cell, CellType
<1> HIDE DEF place
<1>9. /\ screen' = IF place \in DOMAIN screen
                   THEN PutAt(place, Cell(cell.character, PenFor(cell))) ELSE screen
      /\ cursor' = <<place[1] + 1, place[2]>>
      /\ pen' = PenFor(cell)
      /\ colours' = [ink |-> [foreground |-> cell.foreground, background |-> cell.background],
                     initialized |-> TRUE]
  BY DEF WriteCell, place
<1>10. screen' = [screen EXCEPT ![at] = cell]
  BY <1>2, <1>4, <1>6, <1>8, <1>9 DEF PutAt
<1> QED
  BY <1>2, <1>6, <1>7, <1>9, <1>10

LEMMA NextPosition ==
  ASSUME RenderInv, Rendering, at[2] < frameHeight, at' = Next1(at)
  PROVE  /\ at'[1] < frameWidth /\ at'[2] <= frameHeight
         /\ at'[2] = frameHeight => at'[1] = 0
         /\ at'[1] # 0 => at' = <<at[1] + 1, at[2]>>
         /\ \A p \in FrameCells : Before(p, at') <=> Before(p, at) \/ p = at
<1>1. /\ at \in Nat \X Nat /\ at = <<at[1], at[2]>> /\ at[1] \in Nat /\ at[2] \in Nat
      /\ frameWidth \in Int /\ frameHeight \in Int
      /\ at[1] < frameWidth
  BY DEF RenderInv, TypeOK, AtInFrame
<1>2. CASE at[1] + 1 < frameWidth
  <2>1. at' = <<at[1] + 1, at[2]>> /\ at'[1] = at[1] + 1 /\ at'[2] = at[2]
    BY <1>2 DEF Next1
  <2> QED
    BY <1>1, <1>2, <2>1 DEF Before, FrameCells, Cells
<1>3. CASE at[1] + 1 = frameWidth
  <2>1. at'[1] = 0 /\ at'[2] = at[2] + 1
    BY <1>1, <1>3 DEF Next1
  <2> QED
    BY <1>1, <1>3, <2>1 DEF Before, FrameCells, Cells
<1> QED
  BY <1>1, <1>2, <1>3

LEMMA CellRendered ==
  ASSUME RenderInv, TypeOK', RenderCell
  PROVE  RenderInv'
<1>1. /\ Rendering /\ at[2] < frameHeight /\ at' = Next1(at) /\ inRun' = Written
      /\ UNCHANGED <<frameVars, bufferVars, winSize, spoilt, pc, firstFrame>>
      /\ IF Written THEN WriteCell ELSE UNCHANGED <<screen, cursor, pen, colours>>
  BY DEF RenderCell
<1>2. ScreenCovered'
  BY <1>1 DEF RenderInv, ScreenCovered, WriteCell, PutAt, Cells
<1>3. AtInFrame' /\ Rendering'
  BY <1>1, NextPosition DEF RenderInv, AtInFrame, Rendering, frameVars
<1>4. CASE spoilt
  BY <1>1, <1>2, <1>3, <1>4, SpoiltStep
<1>5. CASE ~spoilt
  <2>1. FrameFits' /\ ScreenShowsFrame'
    BY <1>1, <1>3 DEF RenderInv, FrameFits, ScreenShowsFrame, Rendering, FrameSize, frameVars
  <2>2. at \in FrameCells /\ FrameCells' = FrameCells /\ ~Before(at, at) /\ at[1] \in Int
    BY <1>1 DEF RenderInv, TypeOK, AtInFrame, FrameCells, Cells, Before, frameVars
  <2>3. DOMAIN screen = FrameCells
    BY <1>1, <1>5, SizesSame DEF RenderInv, AtInFrame
  <2>4. CASE Written
    <3>1. /\ screen' = [screen EXCEPT ![at] = frameBuffer[at]]
          /\ cursor' = <<at[1] + 1, at[2]>>
          /\ pen'.foreground = colours'.ink.foreground
          /\ pen'.background = colours'.ink.background
      BY <1>1, <1>5, <2>4, CellLands
    <3>2. RenderedSoFar'
      <4>1. ASSUME NEW p \in FrameCells, p = at PROVE screen'[p] = frameBuffer[p]
        BY <2>3, <3>1, <4>1
      <4>2. ASSUME NEW p \in FrameCells, p # at PROVE screen'[p] = screen[p]
        BY <2>3, <3>1, <4>2
      <4> QED
        BY <1>1, <1>5, <2>2, <4>1, <4>2, NextPosition DEF RenderInv, RenderedSoFar, bufferVars,
           Rendering
    <3>3. CursorPlaced'
      BY <1>1, <3>1, NextPosition DEF CursorPlaced, Moves
    <3> QED
      BY <1>2, <1>3, <2>1, <3>1, <3>2, <3>3 DEF RenderInv, PenKnown
  <2>5. CASE ~Written
    <3>1. pc = "diff" /\ frameBuffer[at] = previousBuffer[at] /\ UNCHANGED <<screen, pen, colours>>
      BY <1>1, <2>5 DEF Written, Rendering
    <3>2. RenderedSoFar'
      BY <1>1, <1>5, <2>2, <3>1, NextPosition DEF RenderInv, RenderedSoFar, bufferVars, Rendering
    <3>3. CursorPlaced'
      BY <1>1, <2>5, <3>1 DEF CursorPlaced, Moves
    <3>4. PenKnown'
      BY <1>1, <3>1 DEF RenderInv, PenKnown, Rendering
    <3> QED
      BY <1>2, <1>3, <2>1, <3>2, <3>3, <3>4 DEF RenderInv
  <2> QED
    BY <2>4, <2>5
<1> QED
  BY <1>4, <1>5

LEMMA FrameComplete ==
  ASSUME RenderInv, TypeOK', FrameWritten
  PROVE  RenderInv'
<1>1. /\ Rendering /\ at[2] = frameHeight /\ pc' = "idle"
      /\ previousBuffer' = frameBuffer
      /\ UNCHANGED <<frameVars, winSize, screen, spoilt>>
  BY DEF FrameWritten, SwapBuffers
<1>2. ScreenShowsFrame'
  <2> SUFFICES ASSUME ~spoilt PROVE screen = frameBuffer
    BY <1>1 DEF ScreenShowsFrame
  <2>1. DOMAIN screen = FrameCells /\ screen = [p \in FrameCells |-> screen[p]]
    BY <1>1, SizesSame DEF RenderInv, AtInFrame, ScreenCovered
  <2>2. frameBuffer = [p \in FrameCells |-> frameBuffer[p]]
    BY DEF RenderInv, TypeOK, FrameCells
  <2>3. ASSUME NEW p \in FrameCells PROVE screen[p] = frameBuffer[p]
    <3>1. p[2] < at[2]
      BY <1>1 DEF FrameCells, Cells, RenderInv, TypeOK
    <3> QED
      BY <1>1, <3>1 DEF RenderInv, RenderedSoFar, Before
  <2> QED
    BY <2>1, <2>2, <2>3
<1>3. ScreenCovered' /\ FrameFits'
  BY <1>1 DEF RenderInv, ScreenCovered, FrameFits, FrameSize, Cells, frameVars
<1> QED
  BY <1>1, <1>2, <1>3 DEF RenderInv, AtInFrame, RenderedSoFar, CursorPlaced, PenKnown, Rendering

LEMMA RenderStep ==
  ASSUME RenderInv, [TextNext]_vars
  PROVE  RenderInv'
<1>1. TypeOK'
  BY TypeStep DEF RenderInv
<1>2. CASE InitializeFrameBuffer \/ ResizeToTerminal
  <2>1. /\ frameWidth' = winSize.width /\ frameHeight' = winSize.height
        /\ pc' = "idle" /\ firstFrame' = TRUE
        /\ UNCHANGED <<winSize, screen, spoilt>>
    BY <1>2 DEF InitializeFrameBuffer, ResizeToTerminal, Reallocated, BuffersRenewed, terminalVars
  <2>2. winSize.width > 0 /\ winSize.height > 0 /\ winSize = FrameSize'
    BY <2>1, SizesTyped, IntAssumption DEF RenderInv, TypeOK, FrameSize
  <2> QED
    BY <1>1, <2>1, <2>2, IdleStep
<1>3. CASE ShutdownFrameBuffer
  BY <1>1, <1>3, IdleStep DEF ShutdownFrameBuffer, terminalVars
<1>4. CASE Invalidate
  BY <1>1, <1>4, IdleStep DEF Invalidate, terminalVars, frameVars
<1>5. CASE Clipping
  BY <1>1, <1>5, IdleStep
  DEF Clipping, ClearClips, PopClip, PushClip, ClipCall, terminalVars, bufferVars, frameVars
<1>6. ASSUME NEW dots, Draw(dots) PROVE RenderInv'
  BY <1>1, <1>6, IdleStep DEF Draw, terminalVars, frameVars
<1>7. CASE DrawInside \/ \E ink \in Inks : BeginFrame(ink)
  BY <1>6, <1>7, DrawingHeeds DEF BeginFrame
<1>8. CASE EndFrame
  BY <1>1, <1>8, NothingRendered, RenderingStarts DEF EndFrame
<1>9. CASE RenderCell
  BY <1>1, <1>9, CellRendered
<1>10. CASE FrameWritten
  BY <1>1, <1>10, FrameComplete
<1>11. CASE FrameFails
  BY <1>1, <1>11, IdleStep DEF FrameFails, MustRepaint, frameVars
<1>12. ASSUME NEW size \in Sizes, Disturb(size) PROVE RenderInv'
  <2>1. ScreenCovered' /\ AtInFrame'
    BY <1>12 DEF Disturb, ScreenCovered, RenderInv, AtInFrame, Rendering, Cells, frameVars,
                 renderVars
  <2> QED
    BY <1>1, <1>12, <2>1, SpoiltStep DEF Disturb
<1>13. CASE UNCHANGED vars
  BY <1>13 DEF vars, RenderInv, TypeOK, ScreenCovered, FrameFits, AtInFrame, ScreenShowsFrame,
     RenderedSoFar, CursorPlaced, PenKnown, frameVars, bufferVars, renderVars, terminalVars,
     clipVars, Rendering, FrameSize, FrameCells, Moves, Before, Cells
<1>14. ASSUME NEW area \in DrawAreas, NEW text \in WrappedTexts, NEW ink \in Inks,
             NEW alignment \in {"Left", "Centre", "Right"},
             DrawWrappedText(area, text, alignment, ink)
      PROVE  RenderInv'
  BY <1>14, <1>6, WrappedHeeds
<1> QED
  BY <1>2, <1>3, <1>4, <1>5, <1>7, <1>8, <1>9, <1>10, <1>11, <1>12, <1>13, <1>14
  DEF TextNext, Next, Session, Frame

(***************************************************************************)
(* After a frame has been presented the screen shows it, for frames of any *)
(* size, any drawing and failures at any point of the output.              *)
(***************************************************************************)
THEOREM FramesAreShown == TextSpec => []ScreenShowsFrame
<1>1. Init => RenderInv
  <2> SUFFICES ASSUME Init PROVE RenderInv
    OBVIOUS
  <2>1. TypeOK
    BY TypeInit
  <2>2. pc = "idle" /\ frameBufferActive = FALSE
        /\ screen = [p \in Cells(winSize.width, winSize.height) |-> Garbage]
    BY DEF Init
  <2> QED
    BY <2>1, <2>2 DEF RenderInv, ScreenCovered, FrameFits, AtInFrame, ScreenShowsFrame,
       RenderedSoFar, CursorPlaced, PenKnown, Rendering
<1>2. RenderInv => ScreenShowsFrame
  BY DEF RenderInv
<1> QED
  BY <1>1, <1>2, RenderStep, PTL DEF TextSpec

-----------------------------------------------------------------------------
(***************************************************************************)
(* Which cells the shapes cover: the loops run over the rows and columns   *)
(* of an intersection that is clamped to ints, the reference is a set.     *)
(***************************************************************************)

\* An intersection is empty in both directions or in neither, so its rows and
\* columns are exactly the positions it contains.
LEMMA IntersectionCells ==
  ASSUME NEW a \in Rects, NEW b \in Rects, NEW p \in Int \X Int
  PROVE  LET r == Intersect(a, b)
         IN p[1] \in Columns(r) /\ p[2] \in Rows(r) <=> Contains(r, p)
<1> DEFINE r == Intersect(a, b)
<1>1. r \in Rects
  BY IntersectType
<1>2. /\ r.x \in Int /\ r.y \in Int /\ r.width \in Int /\ r.height \in Int
      /\ p[1] \in Int /\ p[2] \in Int
  BY <1>1, IntAssumption DEF Rects, Ints
<1>3. p[1] \in Columns(r) /\ p[2] \in Rows(r) =>
        p[1] >= r.x /\ p[1] < r.x + r.width /\ p[2] >= r.y /\ p[2] < r.y + r.height
  <2> HIDE DEF r
  <2> QED
    BY <1>2 DEF Columns, Rows
<1>4. Contains(r, p) => p[1] \in Columns(r) /\ p[2] \in Rows(r)
  <2> HIDE DEF r
  <2> QED
    BY <1>2 DEF Columns, Rows, Contains
<1> HIDE DEF r
<1>5. p[1] >= r.x /\ p[1] < r.x + r.width /\ p[2] >= r.y /\ p[2] < r.y + r.height
        => r.width > 0 /\ r.height > 0
  BY <1>2
<1> QED
  BY <1>3, <1>4, <1>5 DEF Contains, r

LEMMA OneIsInt == 1 \in Ints /\ 0 \in Ints
BY SizesAssumption, IntAssumption DEF Ints

\* The cells that can be drawn on.
LEMMA ShownExact ==
  ASSUME ClipInv
  PROVE  ShownCells = {p \in Cells(frameWidth, frameHeight) : Contains(ActiveClip, p)}
<1>1. \A p \in Cells(frameWidth, frameHeight) : p \in Ints \X Ints
  BY IntAssumption DEF Cells, ClipInv, TypeOK, Ints
<1> QED
  BY <1>1, ActiveClipExact DEF ShownCells

\* Those that a loop visits.
LEMMA VisibleExact ==
  ASSUME ClipInv, NEW area \in Rects, NEW p \in Int \X Int
  PROVE  /\ Contains(Visible(area), p) <=> Contains(area, p) /\ p \in ShownCells
         /\ p[1] \in Columns(Visible(area)) /\ p[2] \in Rows(Visible(area))
              <=> Contains(area, p) /\ p \in ShownCells
<1>1. TypeOK /\ FrameRect \in Rects /\ ActiveClip \in Rects
  BY ActiveClipTyped, OneIsInt, IntAssumption DEF ClipInv, FrameRect, Rect, Rects, TypeOK, Ints
<1>2. Contains(FrameRect, p) <=> p \in Cells(frameWidth, frameHeight)
  BY <1>1, IntAssumption DEF Contains, FrameRect, Rect, Cells, TypeOK, Ints
<1>3. p \in ShownCells <=> p \in Cells(frameWidth, frameHeight) /\ Contains(ActiveClip, p)
  BY ShownExact
<1>4. Intersect(area, FrameRect) \in Rects
  BY <1>1, IntersectType
<1>5. Contains(Visible(area), p) <=> Contains(area, p) /\ p \in ShownCells
  BY <1>1, <1>2, <1>3, <1>4, IntersectionExact DEF Visible
<1>6. p[1] \in Columns(Visible(area)) /\ p[2] \in Rows(Visible(area)) <=> Contains(Visible(area), p)
  BY <1>1, <1>4, IntersectionCells DEF Visible
<1> QED
  BY <1>5, <1>6

\* A fill is what it is asked to fill.
LEMMA FillExact ==
  ASSUME ClipInv, NEW area \in Rects
  PROVE  Fill(area) = {p \in ShownCells : Contains(area, p)}
<1>1. Columns(Visible(area)) \subseteq Int /\ Rows(Visible(area)) \subseteq Int
  BY DEF Columns, Rows
<1>2. ShownCells \subseteq Int \X Int
  BY DEF ShownCells, Cells
<1>3. ASSUME NEW p \in Int \X Int
      PROVE  p \in Fill(area) <=> p \in ShownCells /\ Contains(area, p)
  <2>1. p \in Fill(area) <=> p[1] \in Columns(Visible(area)) /\ p[2] \in Rows(Visible(area))
    BY <1>3 DEF Fill
  <2> QED
    BY <2>1, <1>3, VisibleExact
<1>4. Fill(area) \subseteq Int \X Int
  BY <1>1 DEF Fill
<1> QED
  BY <1>2, <1>3, <1>4

\* An intersection that has columns has rows.
LEMMA BothSides ==
  ASSUME NEW a \in Rects, NEW b \in Rects
  PROVE  Intersect(a, b).width > 0 <=> Intersect(a, b).height > 0
<1> USE IntAssumption DEF Ints
<1>1. /\ a.x \in Ints /\ a.y \in Ints /\ a.width \in Ints /\ a.height \in Ints
      /\ b.x \in Ints /\ b.y \in Ints /\ b.width \in Ints /\ b.height \in Ints
  BY DEF Rects
<1> DEFINE left == Larger(a.x, b.x)
           top == Larger(a.y, b.y)
           right == Smaller(RightOf(a), RightOf(b))
           bottom == Smaller(BottomOf(a), BottomOf(b))
<1>2. left \in Int /\ top \in Int /\ right \in Int /\ bottom \in Int
  BY <1>1 DEF Larger, Smaller, RightOf, BottomOf
<1>3. IntMax > 0
  BY OneIsInt
<1> HIDE DEF left, top, right, bottom
<1>4. CASE right <= left \/ bottom <= top
  <2>1. Intersect(a, b) = Rect(ClampToInt(left), ClampToInt(top), 0, 0)
    BY <1>4 DEF Intersect, left, top, right, bottom
  <2> QED
    BY <2>1 DEF Rect
<1>5. CASE ~(right <= left \/ bottom <= top)
  <2>1. Intersect(a, b) = Rect(ClampToInt(left), ClampToInt(top),
                               Smaller(right - left, IntMax), Smaller(bottom - top, IntMax))
    BY <1>5 DEF Intersect, left, top, right, bottom
  <2>2. Smaller(right - left, IntMax) > 0 /\ Smaller(bottom - top, IntMax) > 0
    BY <1>2, <1>3, <1>5 DEF Smaller
  <2> QED
    BY <2>1, <2>2 DEF Rect
<1> QED
  BY <1>4, <1>5

\* What is visible has columns if and only if it has rows.
LEMMA VisibleSides ==
  ASSUME ClipInv, NEW area \in Rects
  PROVE  LET r == Visible(area)
         IN /\ r \in Rects
            /\ r.width > 0 <=> r.height > 0
<1>1. TypeOK /\ FrameRect \in Rects /\ ActiveClip \in Rects
  BY ActiveClipTyped, OneIsInt, IntAssumption DEF ClipInv, FrameRect, Rect, Rects, TypeOK, Ints
<1>2. Intersect(area, FrameRect) \in Rects
  BY <1>1, IntersectType
<1> QED
  BY <1>1, <1>2, IntersectType, BothSides DEF Visible

\* A line is a fill of one row or column; a negative length draws nothing.
LEMMA LinesAreFills ==
  ASSUME ClipInv, NEW x \in Ints, NEW y \in Ints, NEW n \in Ints
  PROVE  /\ HorizontalLine(x, y, n) = {p \in ShownCells : Contains(Rect(x, y, n, 1), p)}
         /\ VerticalLine(x, y, n) = {p \in ShownCells : Contains(Rect(x, y, 1, n), p)}
<1>0. x \in Int /\ y \in Int /\ n \in Int
  BY IntAssumption DEF Ints
<1>1. CASE n <= 0
  BY <1>0, <1>1 DEF HorizontalLine, VerticalLine, Contains, Rect
<1>2. CASE n > 0
  <2>1. HorizontalLine(x, y, n) = {p \in ShownCells : Contains(Rect(x, y, n, 1), p)}
    <3> DEFINE area == Rect(x, y, n, 1)
               r == Visible(area)
    <3>1. area \in Rects /\ Fill(area) = {p \in ShownCells : Contains(area, p)}
      BY OneIsInt, FillExact DEF Rect, Rects
    <3>2. \A p \in Int \X Int : Contains(area, p) => p[2] = y
      BY <1>0 DEF Contains, Rect
    <3>3. HorizontalLine(x, y, n) = Columns(r) \X {y}
      BY <1>0, <1>2 DEF HorizontalLine
    <3> HIDE DEF area
    <3>4. r \in Rects /\ (r.width > 0 <=> r.height > 0)
      BY <3>1, VisibleSides
    <3> HIDE DEF r
    <3>5. r.x \in Int /\ r.y \in Int /\ r.width \in Int /\ r.height \in Int
      BY <3>4, IntAssumption DEF Rects, Ints
    <3>6. ShownCells \subseteq Int \X Int
      BY DEF ShownCells, Cells
    <3>7. Columns(r) # {} => Rows(r) = {y}
      <4> SUFFICES ASSUME NEW column \in Columns(r) PROVE Rows(r) = {y}
        OBVIOUS
      <4>1. r.height > 0 /\ column \in Int
        BY <3>4, <3>5 DEF Columns
      <4>2. \A row \in Rows(r) : row = y
        <5> SUFFICES ASSUME NEW row \in Rows(r) PROVE row = y
          OBVIOUS
        <5>1. <<column, row>> \in Fill(area)
          BY DEF Fill, r
        <5> QED
          BY <5>1, <3>1, <3>2, <3>6
      <4>3. r.y \in Rows(r)
        BY <3>5, <4>1 DEF Rows
      <4> QED
        BY <4>2, <4>3
    <3>8. Columns(r) \X {y} = Fill(area)
      BY <3>7 DEF Fill, r
    <3> QED
      BY <3>1, <3>3, <3>8 DEF area
  <2>2. VerticalLine(x, y, n) = {p \in ShownCells : Contains(Rect(x, y, 1, n), p)}
    <3> DEFINE area == Rect(x, y, 1, n)
               r == Visible(area)
    <3>1. area \in Rects /\ Fill(area) = {p \in ShownCells : Contains(area, p)}
      BY OneIsInt, FillExact DEF Rect, Rects
    <3>2. \A p \in Int \X Int : Contains(area, p) => p[1] = x
      BY <1>0 DEF Contains, Rect
    <3>3. VerticalLine(x, y, n) = {x} \X Rows(r)
      BY <1>0, <1>2 DEF VerticalLine
    <3> HIDE DEF area
    <3>4. r \in Rects /\ (r.width > 0 <=> r.height > 0)
      BY <3>1, VisibleSides
    <3> HIDE DEF r
    <3>5. r.x \in Int /\ r.y \in Int /\ r.width \in Int /\ r.height \in Int
      BY <3>4, IntAssumption DEF Rects, Ints
    <3>6. ShownCells \subseteq Int \X Int
      BY DEF ShownCells, Cells
    <3>7. Rows(r) # {} => Columns(r) = {x}
      <4> SUFFICES ASSUME NEW row \in Rows(r) PROVE Columns(r) = {x}
        OBVIOUS
      <4>1. r.width > 0 /\ row \in Int
        BY <3>4, <3>5 DEF Rows
      <4>2. \A column \in Columns(r) : column = x
        <5> SUFFICES ASSUME NEW column \in Columns(r) PROVE column = x
          OBVIOUS
        <5>1. <<column, row>> \in Fill(area)
          BY DEF Fill, r
        <5> QED
          BY <5>1, <3>1, <3>2, <3>6
      <4>3. r.x \in Columns(r)
        BY <3>5, <4>1 DEF Columns
      <4> QED
        BY <4>2, <4>3
    <3>8. {x} \X Rows(r) = Fill(area)
      BY <3>7 DEF Fill, r
    <3> QED
      BY <3>1, <3>3, <3>8 DEF area
  <2> QED
    BY <2>1, <2>2
<1> QED
  BY <1>0, <1>1, <1>2

\* One drawing over another is somewhere if either is.
LEMMA OverPlaces ==
  ASSUME NEW f, NEW g, NEW p
  PROVE  p \in DOMAIN Over(f, g) <=> p \in DOMAIN f \/ p \in DOMAIN g
BY DEF Over

\* The parts of a box: its corners, and its edges between them.
LEMMA BoxParts ==
  ASSUME ClipInv, frameBufferActive, NEW area \in Rects, NEW ink,
         area.width > 1, area.height > 1, NEW p \in ShownCells
  PROVE  p \in DOMAIN Box(area, ink) <=> OnBorder(area, p)
<1> DEFINE left   == area.x
           top    == area.y
           right  == left + area.width - 1
           bottom == top + area.height - 1
           horizontals ==
             UNION {HorizontalLine(left + 1, y, area.width - 2) :
                      y \in {z \in {top, bottom} : FitsInt(left + 1) /\ FitsInt(z)}}
           verticals ==
             UNION {VerticalLine(x, top + 1, area.height - 2) :
                      x \in {z \in {left, right} : FitsInt(z) /\ FitsInt(top + 1)}}
           Corner(x, y, character) ==
             Dots({q \in {<<x, y>>} : FitsInt(x) /\ FitsInt(y)}, character, ink)
           corners == Over(Over(Corner(left, top, "topLeft"), Corner(right, top, "topRight")),
                           Over(Corner(left, bottom, "bottomLeft"),
                                Corner(right, bottom, "bottomRight")))
<1>1. /\ left \in Int /\ top \in Int /\ right \in Int /\ bottom \in Int
      /\ left \in Ints /\ top \in Ints
      /\ area.width \in Int /\ area.height \in Int
      /\ area.width - 2 \in Ints /\ area.height - 2 \in Ints
  BY IntAssumption DEF Rects, Ints
<1>2. /\ p \in Int \X Int /\ p[1] \in Ints /\ p[2] \in Ints /\ p = <<p[1], p[2]>>
      /\ p[1] \in Int /\ p[2] \in Int
  BY IntAssumption DEF ShownCells, Cells, ClipInv, TypeOK, Ints
<1>3. Drawable(p)
  BY ShownExact DEF Drawable
<1>4. p \in DOMAIN corners <=> p[1] \in {left, right} /\ p[2] \in {top, bottom}
  <2>1. ASSUME NEW x, NEW y, NEW character
        PROVE  p \in DOMAIN Corner(x, y, character) <=> p[1] = x /\ p[2] = y
    <3>1. DOMAIN Corner(x, y, character) =
            {q \in {r \in {<<x, y>>} : FitsInt(x) /\ FitsInt(y)} : Drawable(q)}
      BY DEF Dots
    <3> QED
      BY <1>2, <1>3, <3>1 DEF FitsInt
  <2> HIDE DEF Corner
  <2>2. p \in DOMAIN corners <=>
          \/ \/ p \in DOMAIN Corner(left, top, "topLeft")
             \/ p \in DOMAIN Corner(right, top, "topRight")
          \/ \/ p \in DOMAIN Corner(left, bottom, "bottomLeft")
             \/ p \in DOMAIN Corner(right, bottom, "bottomRight")
    <3>1. ASSUME NEW a, NEW b, NEW c, NEW d
          PROVE  p \in DOMAIN Over(Over(a, b), Over(c, d)) <=>
                   \/ p \in DOMAIN a \/ p \in DOMAIN b
                   \/ p \in DOMAIN c \/ p \in DOMAIN d
      <4>1. /\ p \in DOMAIN Over(a, b) <=> p \in DOMAIN a \/ p \in DOMAIN b
            /\ p \in DOMAIN Over(c, d) <=> p \in DOMAIN c \/ p \in DOMAIN d
        BY OverPlaces
      <4> QED
        BY <4>1, OverPlaces
    <3> HIDE DEF left, top, right, bottom
    <3> QED
      BY <3>1, Zenon
  <2> QED
    BY <2>1, <2>2
<1>5. p \in horizontals <=> p[2] \in {top, bottom} /\ left < p[1] /\ p[1] < right
  <2>1. ASSUME FitsInt(left + 1), NEW y \in {top, bottom}, FitsInt(y)
        PROVE  p \in HorizontalLine(left + 1, y, area.width - 2)
                 <=> p[2] = y /\ left < p[1] /\ p[1] < right
    <3>1. HorizontalLine(left + 1, y, area.width - 2) =
            {q \in ShownCells : Contains(Rect(left + 1, y, area.width - 2, 1), q)}
      BY <1>1, <2>1, LinesAreFills DEF FitsInt
    <3>2. Contains(Rect(left + 1, y, area.width - 2, 1), p)
            <=> p[2] = y /\ left < p[1] /\ p[1] < right
      BY <1>1, <1>2, <2>1 DEF Contains, Rect
    <3> QED
      BY <3>1, <3>2
  <2>2. p[2] \in {top, bottom} /\ left < p[1] => FitsInt(left + 1) /\ FitsInt(p[2])
    BY <1>1, <1>2, IntAssumption DEF FitsInt, Ints
  <2>3. p \in horizontals <=>
          \E y \in {top, bottom} : /\ FitsInt(left + 1) /\ FitsInt(y)
                                   /\ p \in HorizontalLine(left + 1, y, area.width - 2)
    OBVIOUS
  <2> QED
    BY <2>1, <2>2, <2>3
<1>6. p \in verticals <=> p[1] \in {left, right} /\ top < p[2] /\ p[2] < bottom
  <2>1. ASSUME FitsInt(top + 1), NEW x \in {left, right}, FitsInt(x)
        PROVE  p \in VerticalLine(x, top + 1, area.height - 2)
                 <=> p[1] = x /\ top < p[2] /\ p[2] < bottom
    <3>1. VerticalLine(x, top + 1, area.height - 2) =
            {q \in ShownCells : Contains(Rect(x, top + 1, 1, area.height - 2), q)}
      BY <1>1, <2>1, LinesAreFills DEF FitsInt
    <3>2. Contains(Rect(x, top + 1, 1, area.height - 2), p)
            <=> p[1] = x /\ top < p[2] /\ p[2] < bottom
      BY <1>1, <1>2, <2>1 DEF Contains, Rect
    <3> QED
      BY <3>1, <3>2
  <2>2. p[1] \in {left, right} /\ top < p[2] => FitsInt(top + 1) /\ FitsInt(p[1])
    BY <1>1, <1>2, IntAssumption DEF FitsInt, Ints
  <2>3. p \in verticals <=>
          \E x \in {left, right} : /\ FitsInt(x) /\ FitsInt(top + 1)
                                   /\ p \in VerticalLine(x, top + 1, area.height - 2)
    OBVIOUS
  <2> QED
    BY <2>1, <2>2, <2>3
<1>7. Box(area, ink) = Over(corners, Over(Dots(verticals, "vertical", ink),
                                          Dots(horizontals, "horizontal", ink)))
  BY <1>1 DEF Box
<1>8. OnBorder(area, p) <=>
        /\ left <= p[1] /\ p[1] <= right /\ top <= p[2] /\ p[2] <= bottom
        /\ p[1] \in {left, right} \/ p[2] \in {top, bottom}
  BY <1>1, <1>2 DEF OnBorder, Contains
<1> HIDE DEF corners, horizontals, verticals
<1>9. p \in DOMAIN Box(area, ink) <=> p \in DOMAIN corners \/ p \in verticals \/ p \in horizontals
  <2>1. /\ DOMAIN Dots(verticals, "vertical", ink) = {q \in verticals : Drawable(q)}
        /\ DOMAIN Dots(horizontals, "horizontal", ink) = {q \in horizontals : Drawable(q)}
    BY DEF Dots
  <2>2. p \in DOMAIN Box(area, ink) <=>
          \/ p \in DOMAIN corners
          \/ p \in DOMAIN Dots(verticals, "vertical", ink)
          \/ p \in DOMAIN Dots(horizontals, "horizontal", ink)
    <3>1. ASSUME NEW a, NEW b, NEW c
          PROVE  p \in DOMAIN Over(a, Over(b, c)) <=>
                   p \in DOMAIN a \/ p \in DOMAIN b \/ p \in DOMAIN c
      <4>1. p \in DOMAIN Over(b, c) <=> p \in DOMAIN b \/ p \in DOMAIN c
        BY OverPlaces
      <4> QED
        BY <4>1, OverPlaces
    <3>2. p \in DOMAIN Over(corners, Over(Dots(verticals, "vertical", ink),
                                          Dots(horizontals, "horizontal", ink))) <=>
            \/ p \in DOMAIN corners
            \/ p \in DOMAIN Dots(verticals, "vertical", ink)
            \/ p \in DOMAIN Dots(horizontals, "horizontal", ink)
      BY <3>1, Zenon
    <3> QED
      BY <1>7, <3>2, Zenon
  <2> QED
    BY <1>3, <2>1, <2>2
<1> QED
  BY <1>1, <1>2, <1>4, <1>5, <1>6, <1>8, <1>9

\* A box is drawn only where drawing is possible.
LEMMA BoxShown ==
  ASSUME ClipInv, NEW area, NEW p \in DOMAIN Box(area, DefaultInk)
  PROVE  p \in ShownCells
<1>1. Heeds(Box(area, DefaultInk))
  BY BoxHeeds, InksColoured, CharacterAssumption
<1>2. Drawable(p)
  BY <1>1 DEF Heeds
<1> QED
  BY <1>2, ShownExact DEF Drawable

(***************************************************************************)
(* Fills, lines and borders cover exactly the cells they are asked to      *)
(* cover that lie in the frame and in every clip, for any int coordinates. *)
(***************************************************************************)
THEOREM ShapesAreExact == TextSpec => []ShapesExact
<1>1. ASSUME ClipInv, frameBufferActive, NEW area \in Areas
      PROVE  /\ Fill(area) = {p \in ShownCells : Contains(area, p)}
             /\ HorizontalLine(area.x, area.y, area.width) =
                  {p \in ShownCells : Contains([area EXCEPT !.height = 1], p)}
             /\ VerticalLine(area.x, area.y, area.height) =
                  {p \in ShownCells : Contains([area EXCEPT !.width = 1], p)}
             /\ DOMAIN Box(area, DefaultInk) =
                  {p \in ShownCells : area.width > 1 /\ area.height > 1 /\ OnBorder(area, p)}
  <2>1. area \in Rects
    BY CharacterAssumption
  <2>2. /\ [area EXCEPT !.height = 1] = Rect(area.x, area.y, area.width, 1)
        /\ [area EXCEPT !.width = 1] = Rect(area.x, area.y, 1, area.height)
        /\ area.x \in Ints /\ area.y \in Ints /\ area.width \in Ints /\ area.height \in Ints
    BY <2>1 DEF Rect, Rects
  <2>3. CASE area.width > 1 /\ area.height > 1
    <3>1. \A p \in DOMAIN Box(area, DefaultInk) : p \in ShownCells
      BY <1>1, BoxShown
    <3>2. \A p \in ShownCells : p \in DOMAIN Box(area, DefaultInk) <=> OnBorder(area, p)
      BY <1>1, <2>1, <2>3, BoxParts
    <3>3. DOMAIN Box(area, DefaultInk) = {p \in ShownCells : OnBorder(area, p)}
      BY <3>1, <3>2
    <3> QED
      BY <1>1, <2>1, <2>2, <2>3, <3>3, FillExact, LinesAreFills
  <2>4. CASE ~(area.width > 1 /\ area.height > 1)
    <3>1. area.width < 2 \/ area.height < 2
      BY <2>2, <2>4, IntAssumption DEF Ints
    <3>2. DOMAIN Box(area, DefaultInk) = {}
      BY <3>1 DEF Box, Nothing, Dots
    <3> QED
      BY <1>1, <2>1, <2>2, <2>4, <3>2, FillExact, LinesAreFills
  <2> QED
    BY <2>3, <2>4
<1>2. ClipInv => ShapesExact
  BY <1>1 DEF ShapesExact
<1> QED
  BY <1>2, ClipInvariant, PTL

-----------------------------------------------------------------------------
(***************************************************************************)
(* Where an aligned text starts, and what of it is drawn.                  *)
(***************************************************************************)

\* Halves of a positive or negative difference differ by a cell at most.
LEMMA Halves ==
  ASSUME NEW n \in Int
  PROVE  /\ Half(n) \in Int /\ n - 2 * Half(n) \in {-1, 0, 1}
         /\ n >= 0 => 0 <= Half(n) /\ Half(n) <= n
         /\ n <= 0 => n <= Half(n) /\ Half(n) <= 0
<1>1. CASE n >= 0
  BY <1>1 DEF Half
<1>2. CASE n < 0
  <2>1. -n \in Int /\ -n > 0 /\ Half(n) = -((-n) \div 2)
    BY <1>2 DEF Half
  <2> QED
    BY <1>2, <2>1
<1> QED
  BY <1>1, <1>2

\* The start of an aligned text, in 64 bits, leaves the margins it should.
LEMMA StartAligned ==
  ASSUME NEW area \in Rects, area.width > 0, NEW length \in Nat,
         NEW alignment \in {"Left", "Centre", "Right"}
  PROVE  LET start == AlignedX(area, length, alignment)
         IN /\ start \in (IntMin - length) .. (2 * IntMax + length)
            /\ length <= area.width => area.x <= start /\ start <= area.x + area.width
            /\ Margins(area, length, alignment, start)
<1>1. /\ area.x \in Int /\ IntMin <= area.x /\ area.x <= IntMax
      /\ area.width \in Int /\ area.width <= IntMax
      /\ IntMin \in Int /\ IntMax \in Int
  BY IntAssumption DEF Rects, Ints
<1>2. CASE alignment = "Left"
  <2>1. AlignedX(area, length, alignment) = area.x
    BY <1>2 DEF AlignedX
  <2> QED
    BY <1>1, <1>2, <2>1, IntAssumption DEF Margins
<1>3. CASE alignment = "Right"
  <2>1. AlignedX(area, length, alignment) = area.x + area.width - length
    BY <1>3 DEF AlignedX
  <2> QED
    BY <1>1, <1>3, <2>1 DEF Margins
<1>4. CASE alignment = "Centre"
  <2> DEFINE n == area.width - length
  <2>1. AlignedX(area, length, alignment) = area.x + Half(n)
    BY <1>4 DEF AlignedX
  <2>2. /\ Half(n) \in Int /\ n - 2 * Half(n) \in {-1, 0, 1}
        /\ n >= 0 => 0 <= Half(n) /\ Half(n) <= n
        /\ n <= 0 => n <= Half(n) /\ Half(n) <= 0
    BY <1>1, Halves
  <2>3. /\ area.x + Half(n) \in (IntMin - length) .. (2 * IntMax + length)
        /\ length <= area.width =>
             area.x <= area.x + Half(n) /\ area.x + Half(n) <= area.x + area.width
    BY <1>1, <2>2
  <2>4. (area.x + Half(n) - area.x) - (area.x + area.width - (area.x + Half(n)) - length)
          \in {-1, 0, 1}
    BY <1>1, <2>2
  <2> HIDE DEF n
  <2> QED
    <3>1. Margins(area, length, "Centre", area.x + Half(n))
      BY <1>1, <2>2, <2>4 DEF Margins
    <3> QED
      BY <1>4, <2>1, <2>3, <3>1
<1> QED
  BY <1>2, <1>3, <1>4

\* What can be seen in an area of a text that starts at a place in some row.
SeenText(area, row, text, start, ink) ==
  [p \in {<<start + i - 1, row>> : i \in DOMAIN text}
           \cap {p \in ShownCells : Contains(area, p)} |->
     Cell(Sanitized(text[p[1] - start + 1]), ink)]

\* Clamping the start to an int moves no character that can be seen.
LEMMA ClampedText ==
  ASSUME ClipInv, frameBufferActive, NEW area \in Rects, NEW row,
         NEW text \in Seq(Characters), Len(text) <= IntMax, NEW start \in Int, NEW ink
  PROVE  TextClipped(ClampToInt(start), row, text, area, ink) =
           SeenText(area, row, text, start, ink)
<1> DEFINE x == ClampToInt(start)
           P(from) == {<<from + i - 1, row>> : i \in DOMAIN text}
           seen == {p \in ShownCells : Contains(area, p)}
           places == {p \in P(x) : FitsInt(p[1]) /\ Contains(Visible(area), p) /\ Drawable(p)}
<1>1. TextClipped(x, row, text, area, ink) =
        [p \in places |-> Cell(Sanitized(text[p[1] - x + 1]), ink)]
  BY DEF TextClipped, Visible
<1>2. \A p \in seen : /\ p \in Int \X Int /\ FitsInt(p[1]) /\ 0 <= p[1] /\ p[1] < IntMax
                      /\ Contains(Visible(area), p) /\ Drawable(p)
  <2> SUFFICES ASSUME NEW p \in seen
               PROVE  /\ p \in Int \X Int /\ FitsInt(p[1]) /\ 0 <= p[1] /\ p[1] < IntMax
                      /\ Contains(Visible(area), p) /\ Drawable(p)
    OBVIOUS
  <2>1. p \in Cells(frameWidth, frameHeight) /\ Contains(ActiveClip, p)
    BY ShownExact
  <2>2. p \in Int \X Int /\ FitsInt(p[1]) /\ 0 <= p[1] /\ p[1] < IntMax
    BY <2>1, IntAssumption DEF Cells, FitsInt, Ints, ClipInv, TypeOK
  <2> QED
    BY <2>1, <2>2, VisibleExact DEF Drawable
<1>3. \A p \in P(x) : Drawable(p) /\ Contains(Visible(area), p) => p \in seen
  <2> SUFFICES ASSUME NEW p \in P(x), Drawable(p), Contains(Visible(area), p)
               PROVE  p \in seen
    OBVIOUS
  <2>1. p \in ShownCells
    BY ShownExact DEF Drawable
  <2>2. p \in Int \X Int
    BY <2>1 DEF ShownCells, Cells
  <2> QED
    BY <2>1, <2>2, VisibleExact
<1>4. places = P(x) \cap seen
  BY <1>2, <1>3
<1>5. IntMax \in Nat /\ IntMin = -IntMax - 1 /\ Len(text) \in Nat /\ DOMAIN text = 1 .. Len(text)
  BY IntAssumption
<1>6. CASE start \in Ints
  <2>1. x = start
    BY <1>6, IntAssumption DEF ClampToInt, Ints
  <2> QED
    BY <1>1, <1>4, <2>1 DEF SeenText
<1>7. CASE start \notin Ints
  <2>1. P(x) \cap seen = {} /\ P(start) \cap seen = {}
    <3>1. ASSUME NEW i \in DOMAIN text
          PROVE  /\ ~(0 <= x + i - 1 /\ x + i - 1 < IntMax)
                 /\ ~(0 <= start + i - 1 /\ start + i - 1 < IntMax)
      <4>1. start < IntMin \/ start > IntMax
        BY <1>5, <1>7 DEF Ints
      <4>2. CASE start < IntMin
        BY <1>5, <3>1, <4>2 DEF ClampToInt
      <4>3. CASE start > IntMax
        BY <1>5, <3>1, <4>3 DEF ClampToInt
      <4> QED
        BY <4>1, <4>2, <4>3
    <3> HIDE DEF x, seen
    <3> QED
      BY <1>2, <3>1
  <2> HIDE DEF x, seen, places, P
  <2>2. [p \in {} |-> Cell(Sanitized(text[p[1] - x + 1]), ink)] =
          [p \in {} |-> Cell(Sanitized(text[p[1] - start + 1]), ink)]
    OBVIOUS
  <2>3. TextClipped(x, row, text, area, ink) =
          [p \in P(start) \cap seen |-> Cell(Sanitized(text[p[1] - start + 1]), ink)]
    BY <1>1, <1>4, <2>1, <2>2
  <2> QED
    BY <2>3 DEF SeenText, x, P, seen
<1> QED
  BY <1>6, <1>7

(***************************************************************************)
(* An aligned text starts where its margins say, up to the edges of int,   *)
(* and what is drawn of it is what lies in the area, the frame and every   *)
(* clip; for texts whose length is an int.                                 *)
(***************************************************************************)
THEOREM AlignmentIsExact ==
  ASSUME \A text \in Texts : Len(text) <= IntMax
  PROVE  TextSpec => []AlignmentExact
<1>1. ASSUME ClipInv, frameBufferActive, NEW area \in Areas, area.width > 0, area.height > 0,
             NEW text \in Texts, NEW alignment \in {"Left", "Centre", "Right"}
      PROVE  \E start \in (IntMin - Len(text)) .. (2 * IntMax + Len(text)) :
               /\ Margins(area, Len(text), alignment, start)
               /\ TextAligned(area, text, alignment, DefaultInk) =
                    [p \in {<<start + i - 1, area.y>> : i \in DOMAIN text}
                             \cap {p \in ShownCells : Contains(area, p)} |->
                       Cell(Sanitized(text[p[1] - start + 1]), DefaultInk)]
  <2> DEFINE start == AlignedX(area, Len(text), alignment)
  <2>1. area \in Rects /\ text \in Seq(Characters) /\ Len(text) <= IntMax /\ Len(text) \in Nat
    BY CharacterAssumption
  <2>2. /\ start \in (IntMin - Len(text)) .. (2 * IntMax + Len(text))
        /\ Margins(area, Len(text), alignment, start)
    BY <1>1, <2>1, StartAligned
  <2>3. start \in Int
    BY <2>1, <2>2
  <2>4. area.width \in Int /\ area.height \in Int
    BY <2>1, IntAssumption DEF Rects, Ints
  <2>5. TextAligned(area, text, alignment, DefaultInk) =
          TextClipped(ClampToInt(start), area.y, text, area, DefaultInk)
    BY <1>1, <2>4 DEF TextAligned
  <2> HIDE DEF start
  <2>6. TextAligned(area, text, alignment, DefaultInk) =
          SeenText(area, area.y, text, start, DefaultInk)
    BY <1>1, <2>1, <2>3, <2>5, ClampedText
  <2> QED
    BY <2>2, <2>6 DEF SeenText
<1>2. ClipInv => AlignmentExact
  BY <1>1 DEF AlignmentExact
<1> QED
  BY <1>2, ClipInvariant, PTL

(***************************************************************************)
(* Wrapped text: its lines one below the other.                            *)
(***************************************************************************)
LEMMA SeenPlaces ==
  ASSUME NEW area, NEW row \in Int, NEW text \in Seq(Characters), NEW start \in Int, NEW ink,
         NEW p \in ShownCells
  PROVE  p \in DOMAIN SeenText(area, row, text, start, ink) <=>
           Contains(area, p) /\ p[2] = row /\ p[1] - start + 1 \in DOMAIN text
<1>1. p = <<p[1], p[2]>> /\ p[1] \in Int /\ p[2] \in Int
  BY DEF ShownCells, Cells
<1>2. DOMAIN text \subseteq Int
  OBVIOUS
<1>3. p \in {<<start + i - 1, row>> : i \in DOMAIN text} <=>
        p[2] = row /\ p[1] - start + 1 \in DOMAIN text
  <2>1. ASSUME NEW i \in DOMAIN text, p = <<start + i - 1, row>>
        PROVE  p[2] = row /\ p[1] - start + 1 \in DOMAIN text
    <3>1. p[1] = start + i - 1 /\ p[2] = row /\ i \in Int
      BY <1>2, <2>1
    <3>2. p[1] - start + 1 = i
      BY <3>1
    <3> QED
      BY <3>1, <3>2
  <2>2. ASSUME p[2] = row, p[1] - start + 1 \in DOMAIN text
        PROVE  p \in {<<start + i - 1, row>> : i \in DOMAIN text}
    <3>1. start + (p[1] - start + 1) - 1 = p[1]
      BY <1>1
    <3> QED
      BY <1>1, <2>2, <3>1
  <2> QED
    BY <2>1, <2>2
<1> QED
  BY <1>3 DEF SeenText

Placed(area, text, alignment) ==
  LET lines == WrappedLines(text, area.width)
      drawn == TextWrapped(area, text, alignment, DefaultInk)
      inside == {p \in ShownCells : Contains(area, p)}
  IN Len(lines) <= IntMax =>
     /\ DOMAIN drawn \subseteq inside \cap (Int \X (area.y .. area.y + Len(lines) - 1))
     /\ \A i \in DOMAIN lines :
          \E start \in (IntMin - Len(text)) .. (2 * IntMax + Len(text)) :
            /\ Margins(area, Len(lines[i]), alignment, start)
            /\ \A p \in {q \in inside : q[2] = area.y + i - 1} :
                 IF p[1] - start + 1 \in DOMAIN lines[i]
                 THEN p \in DOMAIN drawn
                      /\ drawn[p] = Cell(Sanitized(lines[i][p[1] - start + 1]), DefaultInk)
                 ELSE p \notin DOMAIN drawn

LEMMA WrappedPlaced ==
  ASSUME ClipInv, frameBufferActive, NEW area \in Areas, area.width > 0, area.height > 0,
         NEW text \in WrappedTexts, Len(text) <= IntMax,
         NEW alignment \in {"Left", "Centre", "Right"}
  PROVE  Placed(area, text, alignment)
<1> DEFINE lines == WrappedLines(text, area.width)
           wrapped == TextWrapped(area, text, alignment, DefaultInk)
           inside == {p \in ShownCells : Contains(area, p)}
           LineStart(i) == AlignedX(area, Len(lines[i]), alignment)
           visible == {i \in 1 .. Smaller(area.height, AsInt(Len(lines))) : FitsInt(LineRow(area, i))}
           dots == [i \in visible |-> TextClipped(ClampToInt(LineStart(i)), LineRow(area, i), lines[i],
                                                  area, DefaultInk)]
           Seen(i) == SeenText(area, LineRow(area, i), lines[i], LineStart(i), DefaultInk)
           Line(p) == CHOOSE i \in visible : p \in DOMAIN dots[i]
<1> SUFFICES ASSUME Len(lines) <= IntMax PROVE Placed(area, text, alignment)
  BY DEF Placed
<1>1. /\ area \in Rects /\ text \in Seq(Wrappable) /\ area.width \in Nat \ {0}
      /\ area.y \in Int /\ area.height \in Int /\ area.x \in Int /\ area.width <= IntMax
      /\ IntMin <= area.x /\ area.x <= IntMax /\ IntMin \in Int /\ IntMax \in Int
      /\ Len(text) \in Nat
  <2>1. area \in Rects /\ text \in Seq(Wrappable)
    BY CharacterAssumption, WrappedAssumption DEF Wrappable
  <2> QED
    BY <2>1, IntAssumption DEF Rects, Ints
<1>2. lines \in Seq(Narrow(area.width))
  BY <1>1, LinesWrapped
<1>3. wrapped = [p \in UNION {DOMAIN dots[i] : i \in visible} |-> dots[Line(p)][p]]
  <2>1. ~(~frameBufferActive \/ area.width <= 0 \/ area.height <= 0)
    BY <1>1
  <2> HIDE DEF lines, visible
  <2> QED
    BY <2>1 DEF TextWrapped, lines, visible
<1> HIDE DEF lines, wrapped
<1>4. ASSUME NEW i \in DOMAIN lines
      PROVE  /\ lines[i] \in Seq(Characters) /\ Len(lines[i]) <= IntMax
             /\ LineStart(i) \in (IntMin - Len(text)) .. (2 * IntMax + Len(text))
             /\ Margins(area, Len(lines[i]), alignment, LineStart(i))
  <2>1. /\ lines[i] \in Seq(Characters) /\ Len(lines[i]) <= area.width
        /\ Len(lines[i]) \in Nat
    BY <1>2 DEF Narrow
  <2>2. /\ LineStart(i) \in Int /\ area.x <= LineStart(i) /\ LineStart(i) <= area.x + area.width
        /\ Margins(area, Len(lines[i]), alignment, LineStart(i))
    <3>1. /\ LineStart(i) \in (IntMin - Len(lines[i])) .. (2 * IntMax + Len(lines[i]))
          /\ Len(lines[i]) <= area.width => area.x <= LineStart(i) /\ LineStart(i) <= area.x + area.width
          /\ Margins(area, Len(lines[i]), alignment, LineStart(i))
      BY <1>1, <2>1, StartAligned
    <3> HIDE DEF LineStart
    <3> QED
      BY <1>1, <2>1, <3>1
  <2> HIDE DEF LineStart
  <2> QED
    BY <1>1, <2>1, <2>2
<1>5. /\ visible \subseteq DOMAIN lines /\ DOMAIN lines = 1 .. Len(lines) /\ Len(lines) \in Nat
      /\ \A i \in DOMAIN lines : i \in Int /\ LineRow(area, i) \in Int
      /\ \A i \in DOMAIN lines : LineRow(area, i) = area.y + i - 1
  <2>1. DOMAIN lines = 1 .. Len(lines) /\ Len(lines) \in Nat
    BY <1>2
  <2>2. AsInt(Len(lines)) = Len(lines)
    BY <2>1, AsIntSame
  <2> QED
    BY <1>1, <2>1, <2>2 DEF Smaller, LineRow
<1>6. ASSUME NEW i \in visible PROVE dots[i] = Seen(i)
  <2>1. i \in DOMAIN lines /\ LineStart(i) \in Int
    BY <1>1, <1>4, <1>5
  <2> HIDE DEF LineStart, visible
  <2>2. lines[i] \in Seq(Characters) /\ Len(lines[i]) <= IntMax
    BY <1>4, <2>1
  <2> QED
    BY <1>1, <2>1, <2>2, ClampedText
<1>7. ASSUME NEW i \in visible, NEW p
      PROVE  p \in DOMAIN dots[i] <=>
               /\ p \in inside /\ p[2] = area.y + i - 1
               /\ p[1] - LineStart(i) + 1 \in DOMAIN lines[i]
  <2>1. p \in DOMAIN Seen(i) => p \in ShownCells
    BY DEF SeenText
  <2>2. /\ i \in DOMAIN lines /\ LineStart(i) \in Int /\ lines[i] \in Seq(Characters)
        /\ LineRow(area, i) \in Int /\ LineRow(area, i) = area.y + i - 1
    BY <1>1, <1>4, <1>5
  <2> HIDE DEF LineStart, visible
  <2>3. p \in ShownCells =>
          (p \in DOMAIN Seen(i) <=> /\ Contains(area, p) /\ p[2] = area.y + i - 1
                                    /\ p[1] - LineStart(i) + 1 \in DOMAIN lines[i])
    BY <2>2, SeenPlaces
  <2> HIDE DEF dots, Seen
  <2> QED
    BY <1>6, <2>1, <2>3
<1>8. ASSUME NEW i \in visible, NEW p \in DOMAIN dots[i]
      PROVE  dots[i][p] = Cell(Sanitized(lines[i][p[1] - LineStart(i) + 1]), DefaultInk)
  <2>1. dots[i] = Seen(i) /\ p \in DOMAIN Seen(i)
    BY <1>6
  <2> HIDE DEF dots, visible
  <2> QED
    BY <2>1 DEF SeenText
<1> HIDE DEF dots, Seen
<1>9. ASSUME NEW p \in DOMAIN wrapped
      PROVE  p \in inside /\ p \in Int \X (area.y .. area.y + Len(lines) - 1)
  <2>1. PICK i \in visible : p \in DOMAIN dots[i]
    BY <1>3
  <2>2. p \in inside /\ p[2] = area.y + i - 1 /\ i \in 1 .. Len(lines)
    BY <1>5, <1>7, <2>1
  <2>3. p = <<p[1], p[2]>> /\ p[1] \in Int
    BY <2>2 DEF ShownCells, Cells
  <2>4. p[2] \in area.y .. area.y + Len(lines) - 1
    BY <1>1, <1>5, <2>2
  <2> QED
    BY <2>2, <2>3, <2>4
<1>10. ASSUME NEW i \in DOMAIN lines, NEW p \in inside, p[2] = area.y + i - 1
       PROVE  /\ i \in visible
              /\ p \in DOMAIN wrapped <=> p \in DOMAIN dots[i]
              /\ p \in DOMAIN dots[i] => wrapped[p] = dots[i][p]
  <2>1. i \in 1 .. Len(lines) /\ p[2] \in Ints /\ p[2] < area.y + area.height
    <3>1. p[2] \in 0 .. frameHeight - 1 /\ frameHeight \in 0 .. IntMax
      BY DEF ShownCells, Cells, ClipInv, TypeOK
    <3>2. Contains(area, p)
      OBVIOUS
    <3> QED
      BY <1>1, <1>5, <3>1, <3>2, IntAssumption DEF Ints, Contains
  <2>2. i \in visible
    <3>1. AsInt(Len(lines)) = Len(lines)
      BY <1>5, AsIntSame
    <3> QED
      BY <1>1, <1>5, <1>10, <2>1, <3>1 DEF Smaller, FitsInt, LineRow
  <2>3. ASSUME NEW j \in visible, p \in DOMAIN dots[j] PROVE j = i
    <3>1. p[2] = area.y + j - 1 /\ j \in Int /\ i \in Int
      BY <1>5, <1>7, <2>3
    <3> QED
      BY <1>1, <1>10, <3>1
  <2> HIDE DEF visible
  <2>4. p \in DOMAIN wrapped <=> p \in DOMAIN dots[i]
    BY <1>3, <2>2, <2>3
  <2>5. ASSUME p \in DOMAIN dots[i] PROVE wrapped[p] = dots[i][p]
    <3>1. Line(p) \in visible /\ p \in DOMAIN dots[Line(p)]
      BY <2>2, <2>5
    <3>2. Line(p) = i
      BY <2>3, <3>1
    <3> HIDE DEF Line
    <3> QED
      BY <1>3, <2>4, <2>5, <3>2
  <2> QED
    BY <2>2, <2>4, <2>5
<1>11. ASSUME NEW i \in DOMAIN lines, NEW p \in inside, p[2] = area.y + i - 1
       PROVE  IF p[1] - LineStart(i) + 1 \in DOMAIN lines[i]
              THEN p \in DOMAIN wrapped
                   /\ wrapped[p] = Cell(Sanitized(lines[i][p[1] - LineStart(i) + 1]), DefaultInk)
              ELSE p \notin DOMAIN wrapped
  <2> HIDE DEF visible, LineStart, inside
  <2> QED
    BY <1>7, <1>8, <1>10, <1>11
<1>12. DOMAIN wrapped \subseteq inside \cap (Int \X (area.y .. area.y + Len(lines) - 1))
  <2> HIDE DEF inside
  <2> QED
    BY <1>9
<1>13. ASSUME NEW i \in DOMAIN lines
       PROVE  \E start \in (IntMin - Len(text)) .. (2 * IntMax + Len(text)) :
                /\ Margins(area, Len(lines[i]), alignment, start)
                /\ \A p \in {q \in inside : q[2] = area.y + i - 1} :
                     IF p[1] - start + 1 \in DOMAIN lines[i]
                     THEN p \in DOMAIN wrapped
                          /\ wrapped[p] = Cell(Sanitized(lines[i][p[1] - start + 1]), DefaultInk)
                     ELSE p \notin DOMAIN wrapped
  <2> HIDE DEF LineStart, inside
  <2> QED
    BY <1>4, <1>11
<1> QED
  BY <1>12, <1>13 DEF Placed, lines, wrapped

(***************************************************************************)
(* The lines of a wrapped text stand one below the other, each aligned by  *)
(* its own length, and of each is drawn exactly what lies in the area, the *)
(* frame and every clip; for texts of any content whose characters, and    *)
(* whose lines, an int can count.                                          *)
(***************************************************************************)
THEOREM WrappedTextIsPlaced == TextSpec => []LinesPlaced
<1>1. ClipInv => LinesPlaced
  BY WrappedPlaced DEF LinesPlaced, Placed
<1> QED
  BY <1>1, ClipInvariant, PTL
=============================================================================
