------------------------------ MODULE EventFifo ------------------------------
(***************************************************************************)
(* What Input promises of its raw event queue (Input.h, docs/input.md): a  *)
(* bounded FIFO that loses events only under pressure, the oldest first,   *)
(* and that counts every event it loses.                                   *)
(***************************************************************************)
EXTENDS Naturals, Sequences

CONSTANT Event

VARIABLES
  queue,     \* the events the application has not consumed, oldest first
  capacity,  \* how many are retained; zero retains none and counts none
  lost       \* how many were lost since the application last looked

vars == <<queue, capacity, lost>>

Init == queue = <<>> /\ capacity \in Nat /\ lost = 0

\* A session begins or ends.
Restart ==
  /\ queue' = <<>>
  /\ capacity' \in Nat
  /\ lost' = 0

\* e is offered: either it is queued, in place of the oldest event if there
\* is no room left, or it is lost itself.  What is lost is counted.
Offer(e) ==
  /\ capacity > 0
  /\ \E n \in 0 .. Len(queue) :
       LET rest == SubSeq(queue, n + 1, Len(queue))
       IN /\ n > 0 => n = 1 /\ Len(queue) = capacity
          /\ \/ queue' = Append(rest, e) /\ lost' = lost + n
             \/ queue' = rest /\ lost' = lost + n + 1
  /\ UNCHANGED capacity

\* The application takes the oldest event.
Take ==
  /\ queue # <<>>
  /\ queue' = Tail(queue)
  /\ UNCHANGED <<capacity, lost>>

Discard == queue' = <<>> /\ UNCHANGED <<capacity, lost>>

Acknowledge == lost' = 0 /\ UNCHANGED <<queue, capacity>>

Next ==
  \/ Restart \/ Take \/ Discard \/ Acknowledge
  \/ \E e \in Event : Offer(e)

Spec == Init /\ [][Next]_vars
=============================================================================
