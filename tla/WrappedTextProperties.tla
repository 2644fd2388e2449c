------------------------ MODULE WrappedTextProperties ------------------------
(***************************************************************************)
(* Wrapping on growing texts, against a description by paragraphs.         *)
(***************************************************************************)
EXTENDS WrappedText, SequencesExt

CONSTANTS
  Letters,     \* the characters that may follow
  Widths,      \* widths of the area
  MaxLetters   \* bound: characters in all

ASSUME WrapAssumption ==
  /\ Widths \subseteq Nat \ {0} /\ MaxLetters \in Nat /\ IntMax \in Nat
  /\ \A c, d \in DOMAIN <<Blank, Tab, Newline, Return>> :
       <<Blank, Tab, Newline, Return>>[c] = <<Blank, Tab, Newline, Return>>[d] => c = d

VARIABLE text

WrapInit == text = <<>>
WrapNext ==
  /\ Len(text) < MaxLetters
  /\ \E c \in Letters : text' = Append(text, c)

Without(s, element) ==
  LET Keep(kept, e) == IF e = element THEN kept ELSE Append(kept, e)
  IN FoldLeft(Keep, <<>>, s)

\* The parts of a sequence between the elements of a set, empty ones too.
Split(s, separators) ==
  LET Cut(parts, c) ==
        IF c \in separators THEN Append(parts, <<>>)
        ELSE [parts EXCEPT ![Len(parts)] = Append(@, c)]
  IN FoldLeft(Cut, <<<<>>>>, s)

\* A word in pieces no wider than the area, of which only the last is narrower;
\* no word, no piece.
Pieces(word, width) ==
  [i \in 1 .. (Len(word) + width - 1) \div width |->
     SubSeq(word, (i - 1) * width + 1, Min({i * width, Len(word)}))]

\* Every line takes as many of the pieces as it has room for.
Filled(pieces, width) ==
  LET Put(lines, piece) ==
        IF lines # <<>> /\ Len(Last(lines)) + 1 + Len(piece) <= width
        THEN [lines EXCEPT ![Len(lines)] = @ \o <<Blank>> \o piece]
        ELSE Append(lines, piece)
  IN FoldLeft(Put, <<>>, pieces)

ParagraphLines(paragraph, width) ==
  LET words == Split(paragraph, {Blank, Tab})
      lines == Filled(FlattenSeq([i \in DOMAIN words |-> Pieces(words[i], width)]), width)
  IN IF lines = <<>> THEN <<<<>>>> ELSE lines

\* The paragraphs of a text; blanks after the last newline are not one.
Paragraphs ==
  LET parts == Split(Without(text, Return), {Newline})
      final == parts[Len(parts)]
      blankEnd == Len(parts) > 1 /\ final # <<>> /\ \A i \in DOMAIN final : final[i] \in {Blank, Tab}
  IN IF blankEnd THEN Front(parts) ELSE parts

\* "Newlines create explicit line breaks" (Console.h:243): every paragraph has
\* lines of its own, an empty one too; no word and no character of one is lost
\* or divided from the rest unless the area is narrower than the word, no line
\* is wider than the area and none is broken too early (Console.cpp:360-431).
\* Of texts of at most IntMax characters: of longer words and lines the code
\* compares what an int keeps of their sizes with the width.
LinesExact ==
  Len(text) <= IntMax => \A width \in Widths :
    WrappedLines(text, width) =
      FlattenSeq([i \in DOMAIN Paragraphs |-> ParagraphLines(Paragraphs[i], width)])
=============================================================================
