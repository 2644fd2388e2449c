----------------------- MODULE WindowsInputProperties -----------------------
(***************************************************************************)
(* What an application on Windows can rely on: the keys that are reported  *)
(* as held are held, modifiers are those of the moment, and text is what   *)
(* was entered.                                                            *)
(***************************************************************************)
EXTENDS WindowsInput

\* All that has been entered has been read and processed.
Settled == Between /\ records = <<>>

\* isHeld() never reports a key that nobody holds, once the records have been
\* read: a key that is released while another window has the focus was released
\* with the focus (WindowsTerminal.cpp:579-589, Input.cpp:155-165).  Without
\* focus events nothing tells of such keys.
NoStuckKeys ==
  Settled => current \subseteq physical \cup (IF enableFocusEvents THEN {} ELSE missed)

\* "Modifier state is tracked in event order instead of consulting global
\* asynchronous key state" (docs/platforms.md:18-20): a key event comes with the
\* modifiers that were held when it happened, however late it is read, of either
\* side and also when they went down in another window; a modifier too many is
\* one that was released in another window.
ModifiersReal ==
  /\ \A side \in {Shifts, Controls, Alts} :
       report.held \cap side # {} => report.modifiers \cap side # {}
  /\ \A side \in {Shifts, Controls, Alts, Supers} :
       report.modifiers \cap side # {} => (report.held \cup report.missed) \cap side # {}

\* One code unit after the other, as if there were no repeat counts: halves wait
\* in a queue until they find each other or something else comes.  Zero stands
\* for a lost focus.
OneUnit(s, unit) ==
  LET lost == [i \in DOMAIN s.queue |-> Unpaired]
  IN CASE unit = 0 -> [s EXCEPT !.queue = <<>>]
       [] unit \in HighSurrogates /\ s.queue # <<>> /\ unit # s.queue[1] ->
            [queue |-> <<unit>>, output |-> s.output \o lost]
       [] unit \in HighSurrogates /\ (s.queue = <<>> \/ unit = s.queue[1]) ->
            [s EXCEPT !.queue = Append(@, unit)]
       [] unit \in LowSurrogates /\ s.queue # <<>> ->
            [queue |-> Tail(s.queue), output |-> Append(s.output, Pair(s.queue[1], unit))]
       [] unit \in LowSurrogates /\ s.queue = <<>> ->
            [s EXCEPT !.output = Append(@, Unpaired)]
       [] OTHER -> [queue |-> <<>>, output |-> Append(s.output \o lost, unit)]

Characterwise == FoldLeft(OneUnit, [queue |-> <<>>, output |-> <<>>], typed)

FewHalves == Cardinality({i \in DOMAIN typed : typed[i] \in HighSurrogates}) <= MaxCount

\* "Repeated high and low surrogates are paired one-for-one" (Utf16.h:24-25), and
\* the repeats of every other key are all there: the text is that of the code
\* units one by one, however the console has put repeats together and reads have
\* cut them, as long as the counter of halves does not overflow.
TextExact ==
  Settled /\ FewHalves =>
    /\ decoded = Characterwise.output
    /\ utf16State.count = Len(Characterwise.queue)
=============================================================================
