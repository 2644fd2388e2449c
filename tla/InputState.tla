----------------------------- MODULE InputState -----------------------------
(***************************************************************************)
(* Input.cpp: the keyboard as the application sees it, twice.  The state   *)
(* API (isHeld, isPressed, isReleased, textInput) is replaced by every     *)
(* update(); the raw events stay in a bounded queue until they are polled. *)
(* The application keeps a view of its own, from the events it polls.      *)
(*                                                                         *)
(* A step of update() handles one native event; a lost focus takes a step  *)
(* for every key it releases.  Of an event only what its consumers tell    *)
(* apart is kept: type, key and repeated, or the character.                *)
(***************************************************************************)
EXTENDS Naturals, Sequences

CONSTANTS
  KeyOrder,       \* Key: the portable keys in the order of their index
  Unknown,        \* Key::Unknown
  Characters,     \* code points that are entered
  NativeEvents,   \* what the platform may report
  Maxima,         \* values of TerminalOptions::maximumQueuedInputEvents
  MayFail,        \* whether allocations and reads may fail
  MaxBatch,       \* bound: native events that one update() reads
  MaxNative,      \* bound: native events in all
  MaxSessions     \* bound: sessions, one after the other

Keys == {KeyOrder[i] : i \in DOMAIN KeyOrder}

KeyEvent(types) ==
  [type : types, key : Keys \cup {Unknown}, repeated : BOOLEAN]

\* NativeInputEvent, and InputEvent with the types the application sees.
NativeEvent ==
  KeyEvent({"KeyDown", "KeyUp"}) \cup [type : {"Text"}, character : Characters]
    \cup [type : {"FocusGained", "FocusLost"}]

InputEvent ==
  KeyEvent({"KeyPressed", "KeyReleased"})
    \cup [type : {"TextEntered"}, character : Characters]
    \cup [type : {"FocusGained", "FocusLost"}]

ASSUME InputAssumption ==
  /\ KeyOrder \in Seq(Keys)
  /\ Unknown \notin Keys
  /\ NativeEvents \subseteq NativeEvent
  /\ Maxima \subseteq Nat /\ Maxima # {}
  /\ MayFail \in BOOLEAN
  /\ MaxBatch \in Nat /\ MaxNative \in Nat /\ MaxSessions \in Nat

VARIABLES
  current, pressed, released,  \* the sets of keys whose flag is set
  text,                        \* the characters entered in this frame
  eventQueue, maximumEventQueueSize, droppedEvents, queueOverflowed,
  focused, gainedFocus, lostFocus,
  nativeEventBuffer,           \* the events update() has yet to process
  pc,                          \* "closed", "ready", "processing", "releasing"
  view,                        \* the application: keys held, by its events
  before,                      \* auxiliary: current when update() began
  budget                       \* the bounds left: [native, sessions]

keys == <<current, pressed, released>>
queueVars == <<eventQueue, maximumEventQueueSize, droppedEvents, queueOverflowed>>
focusVars == <<focused, gainedFocus, lostFocus>>
vars == <<keys, text, queueVars, focusVars, nativeEventBuffer, pc, view, before,
          budget>>

KeyPressed(k, r) == [type |-> "KeyPressed", key |-> k, repeated |-> r]
KeyReleased(k) == [type |-> "KeyReleased", key |-> k, repeated |-> FALSE]
-----------------------------------------------------------------------------
(* reset(), at both ends of a session, and initialize().                   *)

Reset ==
  /\ current' = {} /\ pressed' = {} /\ released' = {}
  /\ text' = <<>>
  /\ eventQueue' = <<>> /\ droppedEvents' = 0 /\ queueOverflowed' = FALSE
  /\ focused' = TRUE /\ gainedFocus' = FALSE /\ lostFocus' = FALSE
  /\ nativeEventBuffer' = <<>>
  /\ view' = {} /\ before' = {}

\* When platformFlushInput() fails the constructor resets again.
Initialize ==
  /\ pc = "closed"
  /\ budget.sessions > 0
  /\ budget' = [budget EXCEPT !.sessions = @ - 1]
  /\ Reset
  /\ maximumEventQueueSize' \in Maxima
  /\ \/ pc' = "ready"
     \/ MayFail /\ pc' = "closed"

Close ==
  /\ pc = "ready"
  /\ Reset
  /\ pc' = "closed"
  /\ UNCHANGED <<maximumEventQueueSize, budget>>
-----------------------------------------------------------------------------
(* enqueue(): the oldest event makes room, and push_back() may fail.       *)

FullLate == Len(eventQueue) > maximumEventQueueSize
Full == Len(eventQueue) >= maximumEventQueueSize

LostOnce(stored) == IF Full \/ ~stored THEN 1 ELSE 0
Lost(stored) == (IF Full THEN 1 ELSE 0) + (IF stored THEN 0 ELSE 1)

OverflowedWhenFull(stored) == queueOverflowed \/ Full
Overflowed(stored) == queueOverflowed \/ Full \/ ~stored

Push(event) ==
  LET kept == IF Full THEN Tail(eventQueue) ELSE eventQueue
  IN /\ maximumEventQueueSize > 0
     /\ \E stored \in BOOLEAN :
          /\ stored \/ MayFail
          /\ eventQueue' = IF stored THEN Append(kept, event) ELSE kept
          /\ droppedEvents' = droppedEvents + Lost(stored)
          /\ queueOverflowed' = Overflowed(stored)

Enqueue(event) ==
  /\ \/ Push(event)
     \/ /\ maximumEventQueueSize = 0
        /\ UNCHANGED <<eventQueue, droppedEvents, queueOverflowed>>
  /\ UNCHANGED maximumEventQueueSize
-----------------------------------------------------------------------------
(* update() and processNativeEvent().                                      *)

Batches == UNION {[1 .. n -> NativeEvents] : n \in 0 .. MaxBatch}

\* The flags of the last frame are cleared and the platform is read.  A read
\* that fails throws: what was parsed before it stays in nativeEventBuffer,
\* which the next update() clears.
BeginUpdate(batch) ==
  /\ pc = "ready"
  /\ Len(batch) <= budget.native
  /\ budget' = [budget EXCEPT !.native = @ - Len(batch)]
  /\ pressed' = {} /\ released' = {}
  /\ text' = <<>>
  /\ gainedFocus' = FALSE /\ lostFocus' = FALSE
  /\ nativeEventBuffer' = batch
  /\ before' = current
  /\ \/ pc' = "processing"
     \/ MayFail /\ pc' = "ready"
  /\ UNCHANGED <<current, queueVars, focused, view>>

\* The event that update() is processing has this type.
Processing(type) ==
  /\ pc = "processing"
  /\ nativeEventBuffer # <<>>
  /\ Head(nativeEventBuffer).type = type

Processed == nativeEventBuffer' = Tail(nativeEventBuffer)

\* setKeyState(key, true).  Key::Unknown has no state, only events.
PressedAlways(k) == {k} \cap Keys
NewlyPressed(k) == ({k} \cap Keys) \ current

RepeatedNatively(e) == e.repeated
Repeated(e) == e.repeated \/ e.key \in current

KeyDown ==
  /\ Processing("KeyDown")
  /\ LET e == Head(nativeEventBuffer)
     IN /\ current' = current \cup ({e.key} \cap Keys)
        /\ pressed' = pressed \cup NewlyPressed(e.key)
        /\ Enqueue(KeyPressed(e.key, Repeated(e)))
  /\ Processed
  /\ UNCHANGED <<released, text, focusVars, pc, view, before, budget>>

\* setKeyState(key, false).
KeyUp ==
  /\ Processing("KeyUp")
  /\ LET e == Head(nativeEventBuffer)
     IN /\ released' = released \cup ({e.key} \cap current)
        /\ current' = current \ {e.key}
        /\ Enqueue(KeyReleased(e.key))
  /\ Processed
  /\ UNCHANGED <<pressed, text, focusVars, pc, view, before, budget>>

\* appendUtf8() may fail to allocate: update() throws, the rest is lost.
TextEntered ==
  /\ Processing("Text")
  /\ LET e == Head(nativeEventBuffer)
     IN \/ /\ text' = Append(text, e.character)
           /\ Enqueue([type |-> "TextEntered", character |-> e.character])
           /\ Processed
           /\ UNCHANGED pc
        \/ /\ MayFail
           /\ pc' = "ready"
           /\ UNCHANGED <<text, queueVars, nativeEventBuffer>>
  /\ UNCHANGED <<keys, focusVars, view, before, budget>>

FocusGained ==
  /\ Processing("FocusGained")
  /\ focused' = TRUE
  /\ gainedFocus' = TRUE
  /\ Enqueue([type |-> "FocusGained"])
  /\ Processed
  /\ UNCHANGED <<keys, text, lostFocus, pc, view, before, budget>>

FocusLost ==
  /\ Processing("FocusLost")
  /\ focused' = FALSE
  /\ lostFocus' = TRUE
  /\ pc' = "releasing"
  /\ UNCHANGED <<keys, text, queueVars, gainedFocus, nativeEventBuffer, view,
                 before, budget>>

\* The key that the loop of releaseAllKeys() comes to next.
HeldBeforeLast ==
  {KeyOrder[i] : i \in {i \in 1 .. Len(KeyOrder) - 1 :
     /\ KeyOrder[i] \in current
     /\ \A j \in 1 .. i - 1 : KeyOrder[j] \notin current}}

FirstHeld ==
  {KeyOrder[i] : i \in {i \in DOMAIN KeyOrder :
     /\ KeyOrder[i] \in current
     /\ \A j \in 1 .. i - 1 : KeyOrder[j] \notin current}}

ReleaseKey(k) ==
  /\ pc = "releasing"
  /\ k \in FirstHeld
  /\ current' = current \ {k}
  /\ released' = released \cup {k}
  /\ Enqueue(KeyReleased(k))
  /\ UNCHANGED <<pressed, text, focusVars, nativeEventBuffer, pc, view, before,
                 budget>>

ReleasedAllKeys ==
  /\ pc = "releasing"
  /\ FirstHeld = {}
  /\ Enqueue([type |-> "FocusLost"])
  /\ Processed
  /\ pc' = "processing"
  /\ UNCHANGED <<keys, text, focusVars, view, before, budget>>

EndUpdate ==
  /\ pc = "processing"
  /\ nativeEventBuffer = <<>>
  /\ pc' = "ready"
  /\ UNCHANGED <<keys, text, queueVars, focusVars, nativeEventBuffer, view, before,
                 budget>>

Update ==
  \/ \E batch \in Batches : BeginUpdate(batch)
  \/ KeyDown \/ KeyUp \/ TextEntered \/ FocusGained
  \/ FocusLost \/ (\E k \in Keys : ReleaseKey(k)) \/ ReleasedAllKeys
  \/ EndUpdate
-----------------------------------------------------------------------------
(* The application, between updates.                                       *)

\* What a consumer of e believes is held, having believed held before.
Follow(held, e) ==
  CASE e.type = "KeyPressed" -> held \cup ({e.key} \cap Keys)
    [] e.type = "KeyReleased" -> held \ {e.key}
    [] OTHER -> held

PollEvent ==
  /\ pc = "ready"
  /\ eventQueue # <<>>
  /\ view' = Follow(view, Head(eventQueue))
  /\ eventQueue' = Tail(eventQueue)
  /\ UNCHANGED <<keys, text, maximumEventQueueSize, droppedEvents,
                 queueOverflowed, focusVars, nativeEventBuffer, pc, before, budget>>

\* An application that throws events away asks isHeld() instead.
ClearEvents ==
  /\ pc = "ready"
  /\ eventQueue' = <<>>
  /\ view' = current
  /\ UNCHANGED <<keys, text, maximumEventQueueSize, droppedEvents,
                 queueOverflowed, focusVars, nativeEventBuffer, pc, before, budget>>

\* As in the README: the events are drained, then the flag is looked at; an
\* application that finds it set asks isHeld() before it clears it.
ClearEventOverflow ==
  /\ pc = "ready"
  /\ eventQueue = <<>>
  /\ queueOverflowed
  /\ droppedEvents' = 0
  /\ queueOverflowed' = FALSE
  /\ view' = current
  /\ UNCHANGED <<keys, text, eventQueue, maximumEventQueueSize, focusVars,
                 nativeEventBuffer, pc, before, budget>>

Application == PollEvent \/ ClearEvents \/ ClearEventOverflow
-----------------------------------------------------------------------------
Init ==
  /\ current = {} /\ pressed = {} /\ released = {}
  /\ text = <<>>
  /\ eventQueue = <<>> /\ droppedEvents = 0 /\ queueOverflowed = FALSE
  /\ maximumEventQueueSize \in Maxima
  /\ focused = TRUE /\ gainedFocus = FALSE /\ lostFocus = FALSE
  /\ nativeEventBuffer = <<>>
  /\ pc = "closed"
  /\ view = {} /\ before = {}
  /\ budget = [native |-> MaxNative, sessions |-> MaxSessions]

Next == Initialize \/ Close \/ Update \/ Application

Spec == Init /\ [][Next]_vars
=============================================================================
