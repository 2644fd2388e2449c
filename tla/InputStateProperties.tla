------------------------ MODULE InputStateProperties ------------------------
(***************************************************************************)
(* What Input promises: that its two views of the keyboard agree, that an  *)
(* application which watches eventOverflowed() is never misled, and that   *)
(* the raw events form a FIFO whose losses are counted.                    *)
(***************************************************************************)
EXTENDS InputState

\* Every variable has its type, and the queue is never longer than
\* TerminalOptions::maximumQueuedInputEvents.
TypeOK ==
  /\ current \subseteq Keys /\ pressed \subseteq Keys /\ released \subseteq Keys
  /\ text \in Seq(Characters)
  /\ eventQueue \in Seq(InputEvent)
  /\ maximumEventQueueSize \in Maxima
  /\ Len(eventQueue) <= maximumEventQueueSize
  /\ droppedEvents \in Nat
  /\ queueOverflowed \in BOOLEAN
  /\ focused \in BOOLEAN /\ gainedFocus \in BOOLEAN /\ lostFocus \in BOOLEAN
  /\ nativeEventBuffer \in Seq(NativeEvents)
  /\ pc \in {"closed", "ready", "processing", "releasing"}
  /\ pc = "releasing" => nativeEventBuffer # <<>>
  /\ view \subseteq Keys /\ before \subseteq Keys
  /\ budget \in [native : Nat, sessions : Nat]
-----------------------------------------------------------------------------
(* The state API.                                                          *)

\* isPressed() and isReleased() tell what happened to a key since update()
\* began: with isHeld() before and after they account for every transition,
\* whatever keys went down and up, repeated or lost the focus in between.
EdgesExact ==
  /\ current \ before \subseteq pressed
  /\ before \ current \subseteq released
  /\ pressed \subseteq current \cup released
  /\ released \cap current \subseteq pressed
  /\ pressed \cap before \subseteq released
  /\ released \ before \subseteq pressed
-----------------------------------------------------------------------------
(* The raw events.                                                         *)

About(e, k) == e.type \in {"KeyPressed", "KeyReleased"} /\ e.key = k

\* The keys held according to events q, when those in held were before.
Replay(held, q) ==
  {k \in Keys :
     \/ k \in held /\ \A i \in DOMAIN q : ~About(q[i], k)
     \/ \E i \in DOMAIN q :
          /\ About(q[i], k)
          /\ q[i].type = "KeyPressed"
          /\ \A j \in i + 1 .. Len(q) : ~About(q[j], k)}

\* As long as eventOverflowed() is false, the application that consumes the
\* raw events ends up with the keys that isHeld() reports: no event is
\* missing, none is out of order, also after a lost focus and a failed read.
ViewComplete ==
  maximumEventQueueSize > 0 /\ ~queueOverflowed => Replay(view, eventQueue) = current

\* A press that is not marked as a repeat is a new one: the application has
\* seen the release of the press before it.
FirstPressIsNew ==
  ~queueOverflowed =>
    \A i \in DOMAIN eventQueue :
      LET e == eventQueue[i]
      IN e.type = "KeyPressed" /\ ~e.repeated
           => e.key \notin Replay(view, SubSeq(eventQueue, 1, i - 1))

\* When the application reads that the focus was lost, it has read the
\* release of every key before.
FocusLossReleasesAll ==
  ~queueOverflowed =>
    \A i \in DOMAIN eventQueue :
      eventQueue[i].type = "FocusLost"
        => Replay(view, SubSeq(eventQueue, 1, i)) = {}

\* eventOverflowed() and droppedEventCount() are the bookkeeping of a FIFO
\* that loses nothing else, the oldest first and only when it is full.
Fifo == INSTANCE EventFifo WITH
  Event <- InputEvent, queue <- eventQueue, capacity <- maximumEventQueueSize,
  lost <- droppedEvents

LossesCounted == Fifo!Spec
=============================================================================
