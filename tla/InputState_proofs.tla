-------------------------- MODULE InputState_proofs --------------------------
(***************************************************************************)
(* Input for any keys, any queue size, any batch of native events and any  *)
(* failures: the two views of the keyboard agree and the raw events are a  *)
(* FIFO whose losses are counted.                                          *)
(***************************************************************************)
EXTENDS InputStateProperties, FiniteSetTheorems, SequenceTheorems, TLAPS

USE DEF keys, queueVars, focusVars
-----------------------------------------------------------------------------
(* Enqueueing.                                                             *)

\* Enqueue() keeps the queue's type and bound.
LEMMA EnqueueType ==
  ASSUME TypeOK, NEW e \in InputEvent, Enqueue(e)
  PROVE  /\ eventQueue' \in Seq(InputEvent)
         /\ maximumEventQueueSize' \in Maxima
         /\ Len(eventQueue') <= maximumEventQueueSize'
         /\ droppedEvents' \in Nat
         /\ queueOverflowed' \in BOOLEAN
<1>0. maximumEventQueueSize \in Nat BY InputAssumption DEF TypeOK
<1>1. CASE Push(e)
  <2> DEFINE kept == IF Full THEN Tail(eventQueue) ELSE eventQueue
  <2>1. PICK stored \in BOOLEAN :
          /\ eventQueue' = IF stored THEN Append(kept, e) ELSE kept
          /\ droppedEvents' = droppedEvents + Lost(stored)
          /\ queueOverflowed' = Overflowed(stored)
    BY <1>1 DEF Push
  <2>2. kept \in Seq(InputEvent) /\ Len(kept) < maximumEventQueueSize
    <3>1. CASE Full
      <4>1. Len(eventQueue) = maximumEventQueueSize /\ eventQueue # <<>>
        BY <1>0, <1>1, <3>1 DEF TypeOK, Full, Push
      <4> QED BY <1>0, <3>1, <4>1 DEF TypeOK
    <3>2. CASE ~Full
      BY <1>0, <3>2 DEF TypeOK, Full
    <3> QED BY <3>1, <3>2
  <2>3. eventQueue' \in Seq(InputEvent) /\ Len(eventQueue') <= maximumEventQueueSize
    <3>1. Append(kept, e) \in Seq(InputEvent) /\ Len(Append(kept, e)) = Len(kept) + 1
      BY <2>2
    <3> QED BY <1>0, <2>1, <2>2, <3>1
  <2>4. droppedEvents' \in Nat BY <2>1 DEF TypeOK, Lost
  <2>5. queueOverflowed' \in BOOLEAN BY <2>1 DEF TypeOK, Overflowed, Full
  <2> QED BY <2>3, <2>4, <2>5 DEF Enqueue, TypeOK
<1>2. CASE ~Push(e)
  BY <1>2 DEF Enqueue, TypeOK
<1> QED BY <1>1, <1>2

\* Without an overflow the queue has grown by the event.
LEMMA EnqueueStores ==
  ASSUME TypeOK, NEW e, Enqueue(e), maximumEventQueueSize' > 0, ~queueOverflowed'
  PROVE  /\ ~queueOverflowed /\ maximumEventQueueSize' = maximumEventQueueSize
         /\ eventQueue' = Append(eventQueue, e)
<1>1. maximumEventQueueSize' = maximumEventQueueSize /\ Push(e)
  BY DEF Enqueue
<1>2. PICK stored \in BOOLEAN :
        /\ eventQueue' = IF stored THEN Append(IF Full THEN Tail(eventQueue)
                                             ELSE eventQueue, e)
                        ELSE IF Full THEN Tail(eventQueue) ELSE eventQueue
        /\ queueOverflowed' = (queueOverflowed \/ Full \/ ~stored)
  BY <1>1 DEF Push, Overflowed
<1>3. ~queueOverflowed /\ ~Full /\ stored
  BY <1>2
<1> QED BY <1>1, <1>2, <1>3

\* Every Enqueue() is a step of the FIFO, or nothing if it retains nothing.
LEMMA EnqueueOffers ==
  ASSUME TypeOK, NEW e \in InputEvent, Enqueue(e)
  PROVE  Fifo!Next \/ UNCHANGED Fifo!vars
<1>0. maximumEventQueueSize \in Nat BY InputAssumption DEF TypeOK
<1>1. CASE Push(e)
  <2>0. maximumEventQueueSize > 0 /\ maximumEventQueueSize' = maximumEventQueueSize
    BY <1>1 DEF Push, Enqueue
  <2> DEFINE q == eventQueue
             kept == IF Full THEN Tail(q) ELSE q
             n == IF Full THEN 1 ELSE 0
  <2>1. PICK stored \in BOOLEAN :
          /\ eventQueue' = IF stored THEN Append(kept, e) ELSE kept
          /\ droppedEvents' = droppedEvents + Lost(stored)
    BY <1>1 DEF Push
  <2>2. /\ n \in 0 .. Len(q)
        /\ n > 0 => n = 1 /\ Len(q) = maximumEventQueueSize
        /\ kept = SubSeq(q, n + 1, Len(q))
    <3>1. CASE Full
      <4>1. Len(q) = maximumEventQueueSize /\ Len(q) \in Nat
        BY <1>0, <3>1 DEF TypeOK, Full
      <4>2. Tail(q) = SubSeq(q, 2, Len(q))
        BY <2>0, <4>1 DEF TypeOK
      <4> QED BY <2>0, <3>1, <4>1, <4>2
    <3>2. CASE ~Full
      <4>1. q = SubSeq(q, 1, Len(q)) BY DEF TypeOK
      <4>2. Len(q) \in Nat BY DEF TypeOK
      <4> QED BY <3>2, <4>1, <4>2
    <3> QED BY <3>1, <3>2
  <2>3. Lost(stored) = n + (IF stored THEN 0 ELSE 1)
    BY DEF Lost
  <2>4. Fifo!Offer(e)
    <3> DEFINE rest == SubSeq(q, n + 1, Len(q))
    <3>1. \/ eventQueue' = Append(rest, e) /\ droppedEvents' = droppedEvents + n
          \/ eventQueue' = rest /\ droppedEvents' = droppedEvents + n + 1
      BY <2>1, <2>2, <2>3 DEF TypeOK
    <3> QED BY <2>0, <2>2, <3>1 DEF Fifo!Offer
  <2> QED BY <2>4 DEF Fifo!Next
<1>2. CASE ~Push(e)
  BY <1>2 DEF Enqueue, Fifo!vars
<1> QED BY <1>1, <1>2
-----------------------------------------------------------------------------
(* Types.                                                                  *)

\* What update() processes, and what it puts in the queue for it.
LEMMA ProcessedType ==
  ASSUME TypeOK, NEW type, Processing(type)
  PROVE  /\ Head(nativeEventBuffer) \in NativeEvent
         /\ Tail(nativeEventBuffer) \in Seq(NativeEvents)
BY InputAssumption DEF TypeOK, Processing

LEMMA KeyEventType ==
  ASSUME TypeOK, NEW type \in {"KeyDown", "KeyUp"}, Processing(type),
         NEW e, e = Head(nativeEventBuffer)
  PROVE  /\ e.key \in Keys \cup {Unknown} /\ e.repeated \in BOOLEAN
         /\ Repeated(e) \in BOOLEAN
         /\ KeyPressed(e.key, Repeated(e)) \in InputEvent
         /\ KeyReleased(e.key) \in InputEvent
<1>1. e \in NativeEvent /\ e.type \in {"KeyDown", "KeyUp"}
  BY ProcessedType DEF Processing
<1>2. e \in KeyEvent({"KeyDown", "KeyUp"})
  BY <1>1 DEF NativeEvent
<1>3. e.key \in Keys \cup {Unknown} /\ e.repeated \in BOOLEAN
  BY <1>2 DEF KeyEvent
<1>4. Repeated(e) \in BOOLEAN
  BY <1>3 DEF Repeated
<1> QED BY <1>3, <1>4 DEF InputEvent, KeyEvent, KeyPressed, KeyReleased

LEMMA TextEventType ==
  ASSUME TypeOK, Processing("Text"), NEW e, e = Head(nativeEventBuffer)
  PROVE  /\ e.character \in Characters
         /\ [type |-> "TextEntered", character |-> e.character] \in InputEvent
<1>1. e \in NativeEvent /\ e.type = "Text"
  BY ProcessedType DEF Processing
<1>2. e \in [type : {"Text"}, character : Characters]
  BY <1>1 DEF NativeEvent, KeyEvent
<1> QED BY <1>2 DEF InputEvent

LEMMA FocusEventType ==
  /\ [type |-> "FocusGained"] \in InputEvent
  /\ [type |-> "FocusLost"] \in InputEvent
BY DEF InputEvent

LEMMA TypeInit == Init => TypeOK
<1> SUFFICES ASSUME Init PROVE TypeOK OBVIOUS
<1>1. maximumEventQueueSize \in Nat BY InputAssumption DEF Init
<1>2. Len(eventQueue) <= maximumEventQueueSize BY <1>1 DEF Init
<1>3. text \in Seq(Characters) /\ eventQueue \in Seq(InputEvent)
      /\ nativeEventBuffer \in Seq(NativeEvents)
  BY DEF Init
<1>4. budget \in [native : Nat, sessions : Nat]
  BY InputAssumption DEF Init
<1> QED BY <1>2, <1>3, <1>4 DEF Init, TypeOK

LEMMA TypeNext ==
  ASSUME TypeOK, [Next]_vars
  PROVE  TypeOK'
<1>1. CASE Initialize
  <2>1. maximumEventQueueSize' \in Nat BY <1>1, InputAssumption DEF Initialize
  <2>2. Len(eventQueue') <= maximumEventQueueSize'
    BY <1>1, <2>1 DEF Initialize, Reset
  <2>3. budget' \in [native : Nat, sessions : Nat]
    BY <1>1 DEF Initialize, TypeOK
  <2>4. text' \in Seq(Characters) /\ eventQueue' \in Seq(InputEvent)
        /\ nativeEventBuffer' \in Seq(NativeEvents)
    BY <1>1 DEF Initialize, Reset
  <2> QED BY <1>1, <2>2, <2>3, <2>4 DEF Initialize, Reset, TypeOK
<1>2. CASE Close
  <2>1. Len(eventQueue') <= maximumEventQueueSize'
    BY <1>2, InputAssumption DEF Close, Reset, TypeOK
  <2>2. text' \in Seq(Characters) /\ eventQueue' \in Seq(InputEvent)
        /\ nativeEventBuffer' \in Seq(NativeEvents)
    BY <1>2 DEF Close, Reset
  <2> QED BY <1>2, <2>1, <2>2 DEF Close, Reset, TypeOK
<1>3. ASSUME NEW batch \in Batches, BeginUpdate(batch) PROVE TypeOK'
  <2>1. batch \in Seq(NativeEvents)
    BY InputAssumption DEF Batches
  <2>2. Len(batch) \in Nat BY <2>1
  <2>3. budget' \in [native : Nat, sessions : Nat]
    <3>1. budget.native \in Nat /\ budget.sessions \in Nat
      BY DEF TypeOK
    <3>2. budget.native - Len(batch) \in Nat
      BY <1>3, <2>2, <3>1 DEF BeginUpdate
    <3>3. budget' = [budget EXCEPT !.native = budget.native - Len(batch)]
      BY <1>3 DEF BeginUpdate
    <3> QED BY <3>1, <3>2, <3>3 DEF TypeOK
  <2>4. text' \in Seq(Characters) BY <1>3 DEF BeginUpdate
  <2> QED BY <1>3, <2>1, <2>3, <2>4 DEF BeginUpdate, TypeOK
<1>4. CASE KeyDown
  <2> DEFINE e == Head(nativeEventBuffer)
  <2>1. Processing("KeyDown") /\ Enqueue(KeyPressed(e.key, Repeated(e)))
    BY <1>4 DEF KeyDown
  <2>2. KeyPressed(e.key, Repeated(e)) \in InputEvent
    BY <2>1, KeyEventType
  <2>3. nativeEventBuffer' \in Seq(NativeEvents)
    BY <1>4, <2>1, ProcessedType DEF KeyDown, Processed
  <2>4. current' \subseteq Keys /\ pressed' \subseteq Keys
    BY <1>4 DEF KeyDown, TypeOK, NewlyPressed
  <2> HIDE DEF e
  <2> QED BY <1>4, <2>1, <2>2, <2>3, <2>4, EnqueueType
       DEF KeyDown, Processing, TypeOK
<1>5. CASE KeyUp
  <2> DEFINE e == Head(nativeEventBuffer)
  <2>1. Processing("KeyUp") /\ Enqueue(KeyReleased(e.key))
    BY <1>5 DEF KeyUp
  <2>2. KeyReleased(e.key) \in InputEvent
    BY <2>1, KeyEventType
  <2>3. nativeEventBuffer' \in Seq(NativeEvents)
    BY <1>5, <2>1, ProcessedType DEF KeyUp, Processed
  <2>4. current' \subseteq Keys /\ released' \subseteq Keys
    BY <1>5 DEF KeyUp, TypeOK
  <2> HIDE DEF e
  <2> QED BY <1>5, <2>1, <2>2, <2>3, <2>4, EnqueueType
       DEF KeyUp, Processing, TypeOK
<1>6. CASE TextEntered
  <2> DEFINE e == Head(nativeEventBuffer)
             c == [type |-> "TextEntered", character |-> e.character]
  <2>1. Processing("Text") BY <1>6 DEF TextEntered
  <2>2. e.character \in Characters /\ c \in InputEvent
    BY <2>1, TextEventType
  <2>3. CASE text' = Append(text, e.character) /\ Enqueue(c) /\ Processed
             /\ UNCHANGED pc
    <3>1. nativeEventBuffer' \in Seq(NativeEvents)
      BY <2>1, <2>3, ProcessedType DEF Processed
    <3>2. text' \in Seq(Characters) BY <2>2, <2>3 DEF TypeOK
    <3> HIDE DEF c
    <3> QED BY <1>6, <2>2, <2>3, <3>1, <3>2, EnqueueType
       DEF TextEntered, Processing, TypeOK
  <2>4. CASE pc' = "ready" /\ UNCHANGED <<text, queueVars, nativeEventBuffer>>
    BY <1>6, <2>4 DEF TextEntered, TypeOK
  <2> QED BY <1>6, <2>3, <2>4 DEF TextEntered
<1>7. CASE FocusGained
  <2>1. nativeEventBuffer' \in Seq(NativeEvents)
    BY <1>7, ProcessedType DEF FocusGained, Processed
  <2> QED BY <1>7, <2>1, FocusEventType, EnqueueType
       DEF FocusGained, Processing, TypeOK
<1>8. CASE FocusLost
  BY <1>8 DEF FocusLost, Processing, TypeOK
<1>9. ASSUME NEW k \in Keys, ReleaseKey(k) PROVE TypeOK'
  <2>1. KeyReleased(k) \in InputEvent
    BY DEF KeyReleased, InputEvent, KeyEvent
  <2>2. current' \subseteq Keys /\ released' \subseteq Keys
    BY <1>9 DEF ReleaseKey, TypeOK
  <2> QED BY <1>9, <2>1, <2>2, EnqueueType DEF ReleaseKey, TypeOK
<1>10. CASE ReleasedAllKeys
  <2>1. nativeEventBuffer' \in Seq(NativeEvents)
    BY <1>10 DEF ReleasedAllKeys, Processed, TypeOK
  <2> QED BY <1>10, <2>1, FocusEventType, EnqueueType
       DEF ReleasedAllKeys, Processed, TypeOK
<1>11. CASE EndUpdate
  BY <1>11 DEF EndUpdate, TypeOK
<1>12. CASE PollEvent
  <2>1. view' \subseteq Keys
    BY <1>12 DEF PollEvent, Follow, TypeOK
  <2>2. eventQueue' \in Seq(InputEvent) /\ Len(eventQueue') <= Len(eventQueue)
        /\ Len(eventQueue') \in Nat /\ Len(eventQueue) \in Nat
    BY <1>12 DEF PollEvent, TypeOK
  <2>3. Len(eventQueue') <= maximumEventQueueSize'
    BY <1>12, <2>2, InputAssumption DEF PollEvent, TypeOK
  <2> QED BY <1>12, <2>1, <2>2, <2>3 DEF PollEvent, TypeOK
<1>13. CASE ClearEvents
  <2>1. Len(eventQueue') <= maximumEventQueueSize'
    BY <1>13, InputAssumption DEF ClearEvents, TypeOK
  <2> QED BY <1>13, <2>1 DEF ClearEvents, TypeOK
<1>14. CASE ClearEventOverflow
  BY <1>14 DEF ClearEventOverflow, TypeOK
<1>15. CASE UNCHANGED vars
  BY <1>15 DEF vars, TypeOK
<1> QED
  BY <1>1, <1>2, <1>3, <1>4, <1>5, <1>6, <1>7, <1>8, <1>9, <1>10, <1>11, <1>12,
     <1>13, <1>14, <1>15 DEF Next, Update, Application

\* The types, and the bound of the queue.
THEOREM TypeCorrect == Spec => []TypeOK
<1>1. TypeOK /\ [Next]_vars => TypeOK' BY TypeNext
<1> QED BY <1>1, TypeInit, PTL DEF Spec
-----------------------------------------------------------------------------
(* The state API.                                                          *)

\* isPressed() and isReleased() account for every transition of every key.
THEOREM EdgesAccountedFor == Spec => []EdgesExact
<1>1. Init => EdgesExact BY DEF Init, EdgesExact
<1>2. EdgesExact /\ [Next]_vars => EdgesExact'
  <2> SUFFICES ASSUME EdgesExact, [Next]_vars PROVE EdgesExact' OBVIOUS
  <2> USE DEF EdgesExact
  <2>1. CASE Initialize \/ Close
    BY <2>1 DEF Initialize, Close, Reset
  <2>2. CASE \E batch \in Batches : BeginUpdate(batch)
    BY <2>2 DEF BeginUpdate
  <2>3. CASE KeyDown
    BY <2>3 DEF KeyDown, NewlyPressed
  <2>4. CASE KeyUp
    BY <2>4 DEF KeyUp
  <2>5. CASE TextEntered \/ FocusGained \/ FocusLost \/ ReleasedAllKeys \/ EndUpdate
    BY <2>5 DEF TextEntered, FocusGained, FocusLost, ReleasedAllKeys, EndUpdate
  <2>6. CASE \E k \in Keys : ReleaseKey(k)
    BY <2>6 DEF ReleaseKey, FirstHeld
  <2>7. CASE Application
    BY <2>7 DEF Application, PollEvent, ClearEvents, ClearEventOverflow
  <2>8. CASE UNCHANGED vars
    BY <2>8 DEF vars
  <2> QED BY <2>1, <2>2, <2>3, <2>4, <2>5, <2>6, <2>7, <2>8 DEF Next, Update
<1> QED BY <1>1, <1>2, PTL DEF Spec
-----------------------------------------------------------------------------
(* Replaying events.                                                       *)

\* Nothing happens in an empty queue.
LEMMA ReplayNone ==
  ASSUME NEW held \in SUBSET Keys
  PROVE  Replay(held, <<>>) = held
BY DEF Replay

\* The newest event is followed last.
LEMMA ReplayAppend ==
  ASSUME NEW held \in SUBSET Keys, NEW S, NEW q \in Seq(S), NEW e
  PROVE  Replay(held, Append(q, e)) = Follow(Replay(held, q), e)
<1> DEFINE r == Append(q, e)
           n == Len(q)
<1>1. /\ n \in Nat /\ Len(r) = n + 1
      /\ DOMAIN q = 1 .. n /\ DOMAIN r = 1 .. n + 1
      /\ \A i \in 1 .. n : r[i] = q[i]
      /\ r[n + 1] = e
  OBVIOUS
<1> HIDE DEF r, n
<1>2. ASSUME NEW k \in Keys
      PROVE  k \in Replay(held, r) <=> k \in Follow(Replay(held, q), e)
  <2>1. CASE About(e, k)
    <3>1. k \in Replay(held, r) <=> e.type = "KeyPressed"
      BY <1>1, <2>1 DEF Replay
    <3>2. k \in Follow(Replay(held, q), e) <=> e.type = "KeyPressed"
      BY <2>1 DEF Follow, About
    <3> QED BY <3>1, <3>2
  <2>2. CASE ~About(e, k)
    <3>1. k \in Replay(held, r) <=> k \in Replay(held, q)
      <4>1. (\A i \in DOMAIN r : ~About(r[i], k)) <=> \A i \in DOMAIN q : ~About(q[i], k)
        BY <1>1, <2>2
      <4>2. ASSUME NEW i \in DOMAIN r, About(r[i], k)
            PROVE  /\ i \in DOMAIN q /\ r[i] = q[i]
                   /\ (\A j \in i + 1 .. Len(r) : ~About(r[j], k))
                        <=> \A j \in i + 1 .. Len(q) : ~About(q[j], k)
        BY <1>1, <2>2, <4>2 DEF n
      <4>3. ASSUME NEW i \in DOMAIN q PROVE i \in DOMAIN r /\ r[i] = q[i]
        BY <1>1
      <4> QED BY <4>1, <4>2, <4>3 DEF Replay
    <3>2. k \in Follow(Replay(held, q), e) <=> k \in Replay(held, q)
      BY <2>2 DEF Follow, About
    <3> QED BY <3>1, <3>2
  <2> QED BY <2>1, <2>2
<1>3. Replay(held, r) \subseteq Keys BY DEF Replay
<1>4. Follow(Replay(held, q), e) \subseteq Keys BY DEF Replay, Follow
<1> QED BY <1>2, <1>3, <1>4 DEF r

\* The oldest event is followed first.
LEMMA ReplayTail ==
  ASSUME NEW held \in SUBSET Keys, NEW S, NEW q \in Seq(S), q # <<>>
  PROVE  Replay(Follow(held, Head(q)), Tail(q)) = Replay(held, q)
<1> DEFINE t == Tail(q)
           n == Len(q)
           e == q[1]
<1>1. /\ n \in Nat /\ n >= 1 /\ Len(t) = n - 1
      /\ DOMAIN q = 1 .. n /\ DOMAIN t = 1 .. n - 1
      /\ \A i \in 1 .. n - 1 : t[i] = q[i + 1]
      /\ Head(q) = e
  OBVIOUS
<1> HIDE DEF t, n
<1>2. ASSUME NEW k \in Keys
      PROVE  k \in Replay(Follow(held, e), t) <=> k \in Replay(held, q)
  <2>1. ASSUME NEW i \in 1 .. n - 1
        PROVE  (\A j \in i + 1 .. n - 1 : ~About(t[j], k))
                 <=> \A j \in i + 2 .. n : ~About(q[j], k)
    <3>1. ASSUME \A j \in i + 1 .. n - 1 : ~About(t[j], k), NEW j \in i + 2 .. n
          PROVE  ~About(q[j], k)
      <4>1. j - 1 \in i + 1 .. n - 1 /\ j - 1 \in 1 .. n - 1 /\ (j - 1) + 1 = j
        BY <1>1
      <4> QED BY <1>1, <3>1, <4>1
    <3>2. ASSUME \A j \in i + 2 .. n : ~About(q[j], k), NEW j \in i + 1 .. n - 1
          PROVE  ~About(t[j], k)
      <4>1. j + 1 \in i + 2 .. n /\ j \in 1 .. n - 1
        BY <1>1
      <4> QED BY <1>1, <3>2, <4>1
    <3> QED BY <3>1, <3>2
  <2>2. (\A i \in DOMAIN t : ~About(t[i], k)) <=> \A i \in 2 .. n : ~About(q[i], k)
    <3>1. ASSUME \A i \in 1 .. n - 1 : ~About(t[i], k), NEW i \in 2 .. n
          PROVE  ~About(q[i], k)
      <4>1. i - 1 \in 1 .. n - 1 /\ (i - 1) + 1 = i BY <1>1
      <4> QED BY <1>1, <3>1, <4>1
    <3>2. ASSUME \A i \in 2 .. n : ~About(q[i], k), NEW i \in 1 .. n - 1
          PROVE  ~About(t[i], k)
      <4>1. i + 1 \in 2 .. n BY <1>1
      <4> QED BY <1>1, <3>2, <4>1
    <3> QED BY <1>1, <3>1, <3>2
  <2> DEFINE Last(i) == /\ About(q[i], k) /\ q[i].type = "KeyPressed"
                        /\ \A j \in i + 1 .. n : ~About(q[j], k)
  <2>3. k \in Replay(held, q)
          <=> \/ k \in held /\ \A i \in 1 .. n : ~About(q[i], k)
              \/ \E i \in 1 .. n : Last(i)
    BY <1>1 DEF Replay, n
  <2>4. k \in Replay(Follow(held, e), t)
          <=> \/ k \in Follow(held, e) /\ \A i \in 2 .. n : ~About(q[i], k)
              \/ \E i \in 2 .. n : Last(i)
    <3>1. ASSUME NEW i \in 1 .. n - 1
          PROVE  (/\ About(t[i], k) /\ t[i].type = "KeyPressed"
                  /\ \A j \in i + 1 .. Len(t) : ~About(t[j], k))
                   <=> Last(i + 1)
      <4>1. t[i] = q[i + 1] /\ Len(t) = n - 1 /\ (i + 1) + 1 = i + 2
        BY <1>1
      <4> QED BY <2>1, <4>1
    <3>2. ASSUME NEW i \in 2 .. n PROVE i - 1 \in 1 .. n - 1 /\ (i - 1) + 1 = i
      BY <1>1
    <3>3. ASSUME NEW i \in 1 .. n - 1 PROVE i + 1 \in 2 .. n
      BY <1>1
    <3>4. (\E i \in DOMAIN t : /\ About(t[i], k) /\ t[i].type = "KeyPressed"
                               /\ \A j \in i + 1 .. Len(t) : ~About(t[j], k))
            <=> \E i \in 2 .. n : Last(i)
      <4> DEFINE Sent(i) == /\ About(t[i], k) /\ t[i].type = "KeyPressed"
                            /\ \A j \in i + 1 .. Len(t) : ~About(t[j], k)
      <4>1. \A i \in 1 .. n - 1 : Sent(i) <=> Last(i + 1) BY <3>1
      <4> HIDE DEF Last, Sent
      <4>2. ASSUME NEW i \in 1 .. n - 1, Sent(i) PROVE \E j \in 2 .. n : Last(j)
        BY <3>3, <4>1, <4>2
      <4>3. ASSUME NEW j \in 2 .. n, Last(j) PROVE \E i \in 1 .. n - 1 : Sent(i)
        BY <3>2, <4>1, <4>3
      <4>4. (\E i \in DOMAIN t : Sent(i)) <=> \E i \in 2 .. n : Last(i)
        BY <1>1, <4>2, <4>3
      <4> QED BY <4>4 DEF Sent
    <3> QED BY <2>2, <3>4 DEF Replay
  <2>5. k \in Follow(held, e)
          <=> \/ k \in held /\ ~About(e, k)
              \/ About(e, k) /\ e.type = "KeyPressed"
    BY DEF Follow, About
  <2>6. (\E i \in 1 .. n : Last(i)) <=> Last(1) \/ \E i \in 2 .. n : Last(i)
    <3>1. \A i \in 1 .. n : i = 1 \/ i \in 2 .. n BY <1>1
    <3>2. 1 \in 1 .. n /\ \A i \in 2 .. n : i \in 1 .. n BY <1>1
    <3> HIDE DEF Last
    <3> QED BY <3>1, <3>2
  <2>7. (\A i \in 1 .. n : ~About(q[i], k))
          <=> ~About(e, k) /\ \A i \in 2 .. n : ~About(q[i], k)
    <3>1. \A i \in 1 .. n : i = 1 \/ i \in 2 .. n BY <1>1
    <3>2. 1 \in 1 .. n /\ \A i \in 2 .. n : i \in 1 .. n BY <1>1
    <3> QED BY <3>1, <3>2
  <2>8. Last(1) <=> /\ About(e, k) /\ e.type = "KeyPressed"
                    /\ \A i \in 2 .. n : ~About(q[i], k)
    OBVIOUS
  <2> HIDE DEF Last
  <2> QED BY <2>3, <2>4, <2>5, <2>6, <2>7, <2>8
<1>3. Replay(Follow(held, e), t) \subseteq Keys /\ Replay(held, q) \subseteq Keys
  BY DEF Replay
<1> QED BY <1>1, <1>2, <1>3 DEF t
-----------------------------------------------------------------------------
(* The raw events tell what the state API tells.                           *)

\* A step that queues e and changes the keys held as e says.
LEMMA EnqueueViewed ==
  ASSUME TypeOK, ViewComplete, NEW e, Enqueue(e),
         current' = Follow(current, e), view' = view
  PROVE  ViewComplete'
<1> SUFFICES ASSUME maximumEventQueueSize' > 0, ~queueOverflowed'
             PROVE  Replay(view, eventQueue') = current'
  BY DEF ViewComplete
<1>1. /\ ~queueOverflowed /\ maximumEventQueueSize > 0
      /\ eventQueue' = Append(eventQueue, e)
  BY EnqueueStores
<1>2. Replay(view, eventQueue) = current
  BY <1>1 DEF ViewComplete
<1>3. view \in SUBSET Keys /\ eventQueue \in Seq(InputEvent)
  BY DEF TypeOK
<1> QED BY <1>1, <1>2, <1>3, ReplayAppend

\* As long as nothing overflows, replaying the raw events gives isHeld().
THEOREM ViewsAgree == Spec => []ViewComplete
<1>1. Init => ViewComplete
  BY ReplayNone DEF Init, ViewComplete
<1>2. TypeOK /\ ViewComplete /\ [Next]_vars => ViewComplete'
  <2> SUFFICES ASSUME TypeOK, ViewComplete, [Next]_vars PROVE ViewComplete' OBVIOUS
  <2>1. CASE Initialize \/ Close
    BY <2>1, ReplayNone DEF Initialize, Close, Reset, ViewComplete
  <2>2. CASE \E batch \in Batches : BeginUpdate(batch)
    BY <2>2 DEF BeginUpdate, ViewComplete
  <2>3. CASE KeyDown
    <3> DEFINE e == Head(nativeEventBuffer)
               d == KeyPressed(e.key, Repeated(e))
    <3>1. Follow(current, d) = current \cup ({e.key} \cap Keys)
      BY DEF Follow, KeyPressed
    <3>2. Enqueue(d) /\ current' = Follow(current, d) /\ view' = view
      BY <2>3, <3>1 DEF KeyDown
    <3> HIDE DEF d
    <3> QED BY <3>2, EnqueueViewed
  <2>4. CASE KeyUp
    <3> DEFINE e == Head(nativeEventBuffer)
               u == KeyReleased(e.key)
    <3>1. Follow(current, u) = current \ {e.key}
      BY DEF Follow, KeyReleased
    <3>2. Enqueue(u) /\ current' = Follow(current, u) /\ view' = view
      BY <2>4, <3>1 DEF KeyUp
    <3> HIDE DEF u
    <3> QED BY <3>2, EnqueueViewed
  <2>5. CASE TextEntered
    <3> DEFINE c == [type |-> "TextEntered",
                     character |-> Head(nativeEventBuffer).character]
    <3>1. Follow(current, c) = current BY DEF Follow
    <3>2. CASE Enqueue(c)
      <4>1. current' = current /\ view' = view BY <2>5 DEF TextEntered
      <4> HIDE DEF c
      <4> QED BY <3>1, <3>2, <4>1, EnqueueViewed
    <3>3. CASE UNCHANGED queueVars
      BY <2>5, <3>3 DEF TextEntered, ViewComplete
    <3> QED BY <2>5, <3>2, <3>3 DEF TextEntered
  <2>6. CASE FocusGained
    <3>1. Follow(current, [type |-> "FocusGained"]) = current BY DEF Follow
    <3> QED BY <2>6, <3>1, EnqueueViewed DEF FocusGained
  <2>7. CASE \E k \in Keys : ReleaseKey(k)
    <3>1. PICK k \in Keys : ReleaseKey(k) BY <2>7
    <3>2. Follow(current, KeyReleased(k)) = current \ {k}
      BY DEF Follow, KeyReleased
    <3> QED BY <3>1, <3>2, EnqueueViewed DEF ReleaseKey
  <2>8. CASE ReleasedAllKeys
    <3>1. Follow(current, [type |-> "FocusLost"]) = current BY DEF Follow
    <3> QED BY <2>8, <3>1, EnqueueViewed DEF ReleasedAllKeys
  <2>9. CASE FocusLost \/ EndUpdate
    BY <2>9 DEF FocusLost, EndUpdate, ViewComplete
  <2>10. CASE PollEvent
    <3>1. Replay(view', eventQueue') = Replay(view, eventQueue)
      <4>1. view \in SUBSET Keys /\ eventQueue \in Seq(InputEvent)
        BY DEF TypeOK
      <4> QED BY <2>10, <4>1, ReplayTail DEF PollEvent
    <3> QED BY <2>10, <3>1 DEF PollEvent, ViewComplete
  <2>11. CASE ClearEvents \/ ClearEventOverflow
    <3>1. current \in SUBSET Keys BY DEF TypeOK
    <3>2. eventQueue' = <<>> /\ view' = current /\ current' = current
      BY <2>11 DEF ClearEvents, ClearEventOverflow
    <3> QED BY <3>1, <3>2, ReplayNone DEF ViewComplete
  <2>12. CASE UNCHANGED vars
    BY <2>12 DEF vars, ViewComplete
  <2> QED
    BY <2>1, <2>2, <2>3, <2>4, <2>5, <2>6, <2>7, <2>8, <2>9, <2>10, <2>11, <2>12
       DEF Next, Update, Application
<1> QED BY <1>1, <1>2, TypeCorrect, PTL DEF Spec
-----------------------------------------------------------------------------
(* What an application knows when it reads an event.                       *)

\* A nonempty set of naturals has a least element: the strict subsets of a
\* finite set are well-founded, and 1 .. i is one of 1 .. n.
LEMMA LeastElement ==
  ASSUME NEW n \in Nat, NEW S \in SUBSET (1 .. n), S # {}
  PROVE  \E m \in S : \A j \in 1 .. m - 1 : j \notin S
<1> DEFINE Upto == {1 .. i : i \in S}
<1>1. IsFiniteSet(1 .. n)
  BY FS_Interval
<1>2. IsWellFoundedOn(StrictSubsetOrdering(1 .. n), FiniteSubsetsOf(1 .. n))
  BY <1>1, FS_StrictSubsetOrderingWellFounded
<1>3. Upto \subseteq FiniteSubsetsOf(1 .. n) /\ Upto # {}
  <2>1. ASSUME NEW i \in S PROVE IsFiniteSet(1 .. i) /\ 1 .. i \subseteq 1 .. n
    BY FS_Interval
  <2> QED
    BY <2>1 DEF FiniteSubsetsOf
<1>4. PICK x \in Upto : \A y \in Upto : <<y, x>> \notin StrictSubsetOrdering(1 .. n)
  <2> HIDE DEF Upto
  <2> QED
    BY <1>2, <1>3, WFMin, Zenon
<1>5. PICK m \in S : x = 1 .. m
  OBVIOUS
<1>6. ASSUME NEW j \in 1 .. m - 1, j \in S PROVE FALSE
  <2>1. 1 .. j \in Upto /\ 1 .. j \subseteq 1 .. m /\ m \in 1 .. m /\ m \notin 1 .. j
    BY <1>6
  <2>2. 1 .. j \subseteq 1 .. n /\ 1 .. m \subseteq 1 .. n
    BY <1>6
  <2>3. <<1 .. j, x>> \in StrictSubsetOrdering(1 .. n)
    BY <1>5, <2>1, <2>2 DEF StrictSubsetOrdering
  <2> QED
    BY <1>4, <2>1, <2>3
<1> QED
  BY <1>6

\* releaseAllKeys() comes to an end only when no key is held.
LEMMA FirstHeldFinds ==
  ASSUME current \subseteq Keys, FirstHeld = {}
  PROVE  current = {}
<1> SUFFICES ASSUME NEW k \in current PROVE FALSE
  OBVIOUS
<1> DEFINE S == {i \in DOMAIN KeyOrder : KeyOrder[i] \in current}
<1>1. Len(KeyOrder) \in Nat /\ DOMAIN KeyOrder = 1 .. Len(KeyOrder)
  BY InputAssumption
<1>2. S # {}
  BY DEF Keys
<1>3. PICK m \in S : \A j \in 1 .. m - 1 : j \notin S
  <2> HIDE DEF S
  <2>1. S \subseteq 1 .. Len(KeyOrder)
    BY <1>1 DEF S
  <2> QED
    BY <1>1, <1>2, <2>1, LeastElement
<1>4. \A j \in 1 .. m - 1 : KeyOrder[j] \notin current
  BY <1>1, <1>3
<1> QED
  BY <1>3, <1>4 DEF FirstHeld

\* An event is true to the keys held before it.
True(held, e) ==
  /\ e.type = "KeyPressed" /\ ~e.repeated => e.key \notin held
  /\ e.type = "FocusLost" => held = {}

EventsTrue ==
  ~queueOverflowed =>
    \A i \in DOMAIN eventQueue : True(Replay(view, SubSeq(eventQueue, 1, i - 1)), eventQueue[i])

LEMMA EnqueueTrue ==
  ASSUME TypeOK, ViewComplete, EventsTrue, NEW e \in InputEvent, Enqueue(e), view' = view,
         True(current, e), TypeOK'
  PROVE  EventsTrue'
<1> SUFFICES ASSUME ~queueOverflowed', NEW i \in DOMAIN eventQueue'
             PROVE  True(Replay(view, SubSeq(eventQueue', 1, i - 1)), eventQueue'[i])
  BY DEF EventsTrue
<1> DEFINE q == eventQueue
           n == Len(q)
<1>1. maximumEventQueueSize' \in Nat /\ Len(eventQueue') <= maximumEventQueueSize'
  BY InputAssumption DEF TypeOK
<1>2. maximumEventQueueSize' > 0
  <2>1. Len(eventQueue') \in Nat /\ i \in 1 .. Len(eventQueue')
    BY DEF TypeOK
  <2> QED
    BY <1>1, <2>1
<1>3. /\ ~queueOverflowed /\ maximumEventQueueSize > 0
      /\ eventQueue' = Append(q, e)
  BY <1>2, EnqueueStores
<1>4. q \in Seq(InputEvent) /\ n \in Nat /\ i \in 1 .. n + 1
  BY <1>3 DEF TypeOK
<1>5. CASE i = n + 1
  <2>1. SubSeq(eventQueue', 1, i - 1) = q /\ eventQueue'[i] = e
    <3>1. SubSeq(Append(q, e), 1, n) = q
      BY <1>4
    <3> QED
      BY <1>3, <1>4, <1>5, <3>1
  <2>2. Replay(view, q) = current
    BY <1>3 DEF ViewComplete
  <2> QED
    BY <2>1, <2>2
<1>6. CASE i \in 1 .. n
  <2>1. SubSeq(eventQueue', 1, i - 1) = SubSeq(q, 1, i - 1) /\ eventQueue'[i] = q[i]
    BY <1>3, <1>4, <1>6
  <2> QED
    <3>1. i \in DOMAIN q
      BY <1>4, <1>6
    <3>2. True(Replay(view, SubSeq(q, 1, i - 1)), q[i])
      BY <1>3, <3>1 DEF EventsTrue
    <3> QED
      BY <2>1, <3>2
<1> QED
  BY <1>4, <1>5, <1>6

LEMMA PollTrue ==
  ASSUME TypeOK, EventsTrue, PollEvent
  PROVE  EventsTrue'
<1> DEFINE q == eventQueue
           n == Len(q)
<1> SUFFICES ASSUME ~queueOverflowed, NEW i \in DOMAIN Tail(q)
             PROVE  True(Replay(Follow(view, Head(q)), SubSeq(Tail(q), 1, i - 1)), Tail(q)[i])
  BY DEF EventsTrue, PollEvent
<1>1. q \in Seq(InputEvent) /\ n \in Nat /\ n >= 1 /\ i \in 1 .. n - 1 /\ Tail(q)[i] = q[i + 1]
  BY DEF TypeOK, PollEvent
<1>2. SubSeq(Tail(q), 1, i - 1) = Tail(SubSeq(q, 1, i))
  BY <1>1
<1>3. Head(SubSeq(q, 1, i)) = Head(q) /\ SubSeq(q, 1, i) # <<>>
      /\ SubSeq(q, 1, i) \in Seq(InputEvent)
  BY <1>1
<1>4. view \in SUBSET Keys
  BY DEF TypeOK
<1>5. Replay(Follow(view, Head(q)), Tail(SubSeq(q, 1, i))) = Replay(view, SubSeq(q, 1, i))
  BY <1>3, <1>4, ReplayTail
<1>6. True(Replay(view, SubSeq(q, 1, i)), q[i + 1])
  <2>1. i + 1 \in DOMAIN q /\ (i + 1) - 1 = i
    BY <1>1
  <2> QED
    BY <2>1 DEF EventsTrue
<1> QED
  BY <1>1, <1>2, <1>5, <1>6
LEMMA EventsTrueStep ==
  ASSUME TypeOK, TypeOK', ViewComplete, EventsTrue, [Next]_vars
  PROVE  EventsTrue'
<1>1. CASE Initialize \/ Close \/ ClearEvents \/ ClearEventOverflow
  <2>1. eventQueue' = <<>>
    BY <1>1 DEF Initialize, Close, Reset, ClearEvents, ClearEventOverflow
  <2> QED
    BY <2>1 DEF EventsTrue
<1>2. CASE \/ \E batch \in Batches : BeginUpdate(batch)
           \/ FocusLost
           \/ EndUpdate
           \/ UNCHANGED vars
  <2>1. UNCHANGED <<eventQueue, queueOverflowed, view>>
    BY <1>2 DEF BeginUpdate, FocusLost, EndUpdate, vars
  <2> QED
    BY <2>1 DEF EventsTrue
<1>3. CASE KeyDown
  <2> DEFINE e == Head(nativeEventBuffer)
             d == KeyPressed(e.key, Repeated(e))
  <2>1. d \in InputEvent
    BY <1>3, KeyEventType DEF KeyDown
  <2>2. Enqueue(d) /\ view' = view
    BY <1>3 DEF KeyDown
  <2>3. True(current, d)
    BY DEF True, KeyPressed, Repeated
  <2> HIDE DEF d
  <2> QED
    BY <2>1, <2>2, <2>3, EnqueueTrue
<1>4. CASE KeyUp
  <2> DEFINE u == KeyReleased(Head(nativeEventBuffer).key)
  <2>1. u \in InputEvent
    BY <1>4, KeyEventType DEF KeyUp
  <2>2. Enqueue(u) /\ view' = view /\ True(current, u)
    BY <1>4 DEF KeyUp, True, KeyReleased
  <2> HIDE DEF u
  <2> QED
    BY <2>1, <2>2, EnqueueTrue
<1>5. CASE TextEntered
  <2> DEFINE c == [type |-> "TextEntered", character |-> Head(nativeEventBuffer).character]
  <2>1. c \in InputEvent /\ True(current, c)
    BY <1>5, TextEventType DEF TextEntered, True
  <2>2. view' = view
    BY <1>5 DEF TextEntered
  <2>3. CASE Enqueue(c)
    <3> HIDE DEF c
    <3> QED
      BY <2>1, <2>2, <2>3, EnqueueTrue
  <2>4. CASE UNCHANGED queueVars
    BY <2>2, <2>4 DEF EventsTrue
  <2> QED
    BY <1>5, <2>3, <2>4 DEF TextEntered
<1>6. CASE FocusGained
  <2>1. True(current, [type |-> "FocusGained"])
    BY DEF True
  <2> QED
    BY <1>6, <2>1, FocusEventType, EnqueueTrue DEF FocusGained
<1>7. CASE \E k \in Keys : ReleaseKey(k)
  <2>1. PICK k \in Keys : ReleaseKey(k)
    BY <1>7
  <2>2. KeyReleased(k) \in InputEvent /\ True(current, KeyReleased(k))
    BY DEF KeyReleased, InputEvent, KeyEvent, True
  <2> QED
    BY <2>1, <2>2, EnqueueTrue DEF ReleaseKey
<1>8. CASE ReleasedAllKeys
  <2>1. True(current, [type |-> "FocusLost"])
    BY <1>8, FirstHeldFinds DEF ReleasedAllKeys, True, TypeOK
  <2> QED
    BY <1>8, <2>1, FocusEventType, EnqueueTrue DEF ReleasedAllKeys
<1>9. CASE PollEvent
  BY <1>9, PollTrue
<1> QED
  BY <1>1, <1>2, <1>3, <1>4, <1>5, <1>6, <1>7, <1>8, <1>9 DEF Next, Update, Application

THEOREM EventsStayTrue == Spec => []EventsTrue
<1>1. Init => EventsTrue
  BY DEF Init, EventsTrue
<1> QED
  BY <1>1, EventsTrueStep, TypeCorrect, ViewsAgree, PTL DEF Spec

\* An application that reads a press which is not marked as a repeat has read
\* the release of the press before it.
THEOREM PressesAreNew == Spec => []FirstPressIsNew
<1>1. EventsTrue => FirstPressIsNew
  BY DEF EventsTrue, FirstPressIsNew, True
<1> QED
  BY <1>1, EventsStayTrue, PTL

\* An application that reads that the focus was lost has read the release of
\* every key before.
THEOREM FocusLossIsLast == Spec => []FocusLossReleasesAll
<1>1. TypeOK /\ EventsTrue => FocusLossReleasesAll
  <2> SUFFICES ASSUME TypeOK, EventsTrue, ~queueOverflowed, NEW i \in DOMAIN eventQueue,
                      eventQueue[i].type = "FocusLost"
               PROVE  Replay(view, SubSeq(eventQueue, 1, i)) = {}
    BY DEF FocusLossReleasesAll
  <2> DEFINE q == eventQueue
             older == SubSeq(q, 1, i - 1)
  <2>1. q \in Seq(InputEvent) /\ i \in 1 .. Len(q) /\ Len(q) \in Nat /\ view \in SUBSET Keys
    BY DEF TypeOK
  <2>2. SubSeq(q, 1, i) = Append(older, q[i]) /\ older \in Seq(InputEvent)
    BY <2>1
  <2>3. Replay(view, older) = {}
    BY DEF EventsTrue, True
  <2>4. Replay(view, SubSeq(q, 1, i)) = Follow(Replay(view, older), q[i])
    <3> HIDE DEF older
    <3>1. Replay(view, Append(older, q[i])) = Follow(Replay(view, older), q[i])
      BY <2>1, <2>2, ReplayAppend
    <3> QED
      BY <2>2, <3>1
  <2> QED
    BY <2>3, <2>4 DEF Follow
<1> QED
  BY <1>1, TypeCorrect, EventsStayTrue, PTL
-----------------------------------------------------------------------------
(* The queue is a FIFO whose losses are counted.                           *)

LEMMA FifoInit == Init => Fifo!Init
BY InputAssumption DEF Init, Fifo!Init

LEMMA FifoNext ==
  ASSUME TypeOK, [Next]_vars
  PROVE  [Fifo!Next]_(Fifo!vars)
<1>1. CASE Initialize \/ Close
  <2>1. Fifo!Restart
    BY <1>1, InputAssumption DEF Initialize, Close, Reset, Fifo!Restart, TypeOK
  <2> QED BY <2>1 DEF Fifo!Next
<1>2. CASE \E batch \in Batches : BeginUpdate(batch)
  BY <1>2 DEF BeginUpdate, Fifo!vars
<1>3. CASE KeyDown
  <2>1. KeyPressed(Head(nativeEventBuffer).key, Repeated(Head(nativeEventBuffer)))
          \in InputEvent
    BY <1>3, KeyEventType DEF KeyDown
  <2> QED BY <1>3, <2>1, EnqueueOffers DEF KeyDown
<1>4. CASE KeyUp
  <2>1. KeyReleased(Head(nativeEventBuffer).key) \in InputEvent
    BY <1>4, KeyEventType DEF KeyUp
  <2> QED BY <1>4, <2>1, EnqueueOffers DEF KeyUp
<1>5. CASE TextEntered
  <2> DEFINE c == [type |-> "TextEntered",
                   character |-> Head(nativeEventBuffer).character]
  <2>1. c \in InputEvent BY <1>5, TextEventType DEF TextEntered
  <2>2. CASE Enqueue(c) BY <2>1, <2>2, EnqueueOffers
  <2>3. CASE UNCHANGED queueVars BY <2>3 DEF Fifo!vars
  <2> QED BY <1>5, <2>2, <2>3 DEF TextEntered
<1>6. CASE FocusGained
  BY <1>6, FocusEventType, EnqueueOffers DEF FocusGained
<1>7. CASE \E k \in Keys : ReleaseKey(k)
  <2>1. PICK k \in Keys : ReleaseKey(k) BY <1>7
  <2>2. KeyReleased(k) \in InputEvent
    BY DEF KeyReleased, InputEvent, KeyEvent
  <2> QED BY <2>1, <2>2, EnqueueOffers DEF ReleaseKey
<1>8. CASE ReleasedAllKeys
  BY <1>8, FocusEventType, EnqueueOffers DEF ReleasedAllKeys
<1>9. CASE FocusLost \/ EndUpdate
  BY <1>9 DEF FocusLost, EndUpdate, Fifo!vars
<1>10. CASE PollEvent
  BY <1>10 DEF PollEvent, Fifo!Take, Fifo!Next
<1>11. CASE ClearEvents
  BY <1>11 DEF ClearEvents, Fifo!Discard, Fifo!Next
<1>12. CASE ClearEventOverflow
  BY <1>12 DEF ClearEventOverflow, Fifo!Acknowledge, Fifo!Next
<1>13. CASE UNCHANGED vars
  BY <1>13 DEF vars, Fifo!vars
<1> QED
  BY <1>1, <1>2, <1>3, <1>4, <1>5, <1>6, <1>7, <1>8, <1>9, <1>10, <1>11, <1>12,
     <1>13 DEF Next, Update, Application

\* Input's queue, with its counter, implements the FIFO.
THEOREM QueueImplementsFifo == Spec => LossesCounted
<1>1. TypeOK /\ [Next]_vars => [Fifo!Next]_(Fifo!vars) BY FifoNext
<1> QED BY <1>1, FifoInit, TypeCorrect, PTL DEF Spec, LossesCounted, Fifo!Spec
=============================================================================
