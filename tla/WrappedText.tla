---------------------------- MODULE WrappedText ----------------------------
(***************************************************************************)
(* How Console::drawWrappedText() breaks a text into lines: the loop over  *)
(* its characters, with the line and the word that it is building.         *)
(***************************************************************************)
EXTENDS Integers, Sequences

Series == INSTANCE SequencesExt

CONSTANTS
  Blank, Tab, Newline, Return,   \* the characters it looks for
  IntMax                         \* std::numeric_limits<int>::max()

\* static_cast<int> of a size: what is left of it in the bits of an int.
AsInt(size) ==
  LET low == size % (2 * (IntMax + 1))
  IN IF low > IntMax THEN low - 2 * (IntMax + 1) ELSE low

\* What the loop keeps: lines, currentLine, currentWord, endedWithNewLine.
Empty == [lines |-> <<>>, line |-> <<>>, word |-> <<>>, ended |-> FALSE]

FlushLine(s, includeEmpty) ==
  IF s.line = <<>> /\ ~includeEmpty THEN s
  ELSE [s EXCEPT !.lines = Append(@, s.line), !.line = <<>>]

\* A word that is too long fills lines of its own; its rest goes on.  Sizes
\* are looked at as ints, and each chunk takes the width from that int.
Chunks(word, width) ==
  [i \in 1 .. (AsInt(Len(word)) - 1) \div width |-> SubSeq(word, (i - 1) * width + 1, i * width)]

CutWord(s, width) ==
  LET chunks == Chunks(s.word, width)
      flushed == FlushLine(s, FALSE)
  IN IF chunks = <<>> THEN s
     ELSE [flushed EXCEPT !.lines = @ \o chunks,
                          !.word = SubSeq(@, Len(chunks) * width + 1, Len(@))]

FitsUnspaced(line, word, width) == AsInt(Len(line) + Len(word)) <= width
Fits(line, word, width) == AsInt(Len(line) + 1 + Len(word)) <= width

AddWord(s, width) ==
  LET placed ==
        IF s.line = <<>> THEN [s EXCEPT !.line = s.word]
        ELSE IF Fits(s.line, s.word, width) THEN [s EXCEPT !.line = @ \o <<Blank>> \o s.word]
        ELSE [FlushLine(s, FALSE) EXCEPT !.line = s.word]
  IN [placed EXCEPT !.word = <<>>]

AppendWord(s, width) == IF s.word = <<>> THEN s ELSE AddWord(CutWord(s, width), width)

Wrapping(s, character, width) ==
  CASE character = Return -> s
    [] character = Newline ->
         [FlushLine(AppendWord(s, width), TRUE) EXCEPT !.ended = TRUE]
    [] character \in {Blank, Tab} -> [AppendWord(s, width) EXCEPT !.ended = FALSE]
    [] OTHER -> [s EXCEPT !.word = Append(@, character), !.ended = FALSE]

WrappedLines(text, width) ==
  LET Step(s, character) == Wrapping(s, character, width)
      done == AppendWord(Series!FoldLeft(Step, Empty, text), width)
  IN FlushLine(done, done.lines = <<>> \/ done.ended).lines
=============================================================================
