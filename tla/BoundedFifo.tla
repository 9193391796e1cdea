----------------------------- MODULE BoundedFifo -----------------------------
(***************************************************************************)
(* What a RingBuffer<T, Capacity> promises its two users: a FIFO queue of  *)
(* at most Capacity elements.  `in' is the element the producer has handed *)
(* over and that is not queued yet, `out' the element the consumer was     *)
(* given last.                                                             *)
(***************************************************************************)
EXTENDS Naturals, Sequences

CONSTANTS
  Values,     \* elements of type T
  Capacity,   \* number of slots
  NoItem      \* "nothing handed over"

VARIABLES queue, in, out

vars == <<queue, in, out>>

Init ==
  /\ queue = <<>>
  /\ in = NoItem
  /\ out = NoItem

\* The producer hands an element over ...
Offer(v) ==
  /\ in = NoItem
  /\ in' = v
  /\ UNCHANGED <<queue, out>>

\* ... which enters the queue exactly once, at the back.
Put ==
  /\ in # NoItem
  /\ Len(queue) < Capacity
  /\ queue' = Append(queue, in)
  /\ in' = NoItem
  /\ UNCHANGED out

\* The consumer receives the oldest element.
Take ==
  /\ queue # <<>>
  /\ out' = Head(queue)
  /\ queue' = Tail(queue)
  /\ UNCHANGED in

Next == (\E v \in Values : Offer(v)) \/ Put \/ Take

Spec == Init /\ [][Next]_vars
==============================================================================
