----------------------------- MODULE RingBuffer ------------------------------
(***************************************************************************)
(* The lock-free single-producer / single-consumer ring of                 *)
(* src/src/common/ring_buffer.hpp, one action per shared memory access.    *)
(*                                                                         *)
(* head_ and tail_ are 64-bit counters that only grow and wrap at 2^64:    *)
(* here they wrap at Wrap, a multiple of Capacity.  An acquire load of the *)
(* other side's counter may return any value that side has stored since    *)
(* the last one this side has seen (seenHead, seenTail): the C++ memory    *)
(* model promises no more than that an atomic never goes back.             *)
(***************************************************************************)
EXTENDS Integers, Sequences

CONSTANTS
  Values,     \* elements of type T
  Capacity,   \* number of slots
  Wrap,       \* 2^64 in the code
  NoItem      \* no element; also the content of a slot never written

\* static_assert: Capacity is a power of two that is at least 2, so it divides
\* the modulus of the counters.
ASSUME RingAssumption ==
  /\ Capacity \in Nat /\ Capacity >= 2
  /\ Wrap \in Nat
  /\ \E k \in 2..Wrap : Wrap = k * Capacity
  /\ NoItem \notin Values

VARIABLES
  head, tail,     \* head_, tail_
  slots,          \* buffer_
  ppc, pitem,     \* the push() in progress and its argument
  seenHead,       \* the newest head_ the producer has loaded
  cpc, out,       \* the pop() in progress and its out parameter
  seenTail,       \* the newest tail_ the consumer has loaded
  psize, csize    \* what size() last returned to the producer, to the consumer

producer == <<ppc, pitem, seenHead, psize>>
consumer == <<cpc, out, seenTail, csize>>
vars == <<head, tail, slots, producer, consumer>>

Counter == 0..(Wrap - 1)
Inc(x) == (x + 1) % Wrap
Dist(a, b) == (a - b) % Wrap         \* a - b on uint64_t
\* Mutant of Slot: the mask is off by one.
SlotShortMask(x) == x % (Capacity - 1)
Slot(x) == x % Capacity              \* x & kMask

\* What an acquire load of a counter at `current' may return to a side that has
\* seen `seen'.
Loads(seen, current) == {c \in Counter : Dist(c, seen) <= Dist(current, seen)}

TypeOK ==
  /\ head \in Counter /\ tail \in Counter
  /\ slots \in [0..(Capacity - 1) -> Values \cup {NoItem}]
  /\ ppc \in {"idle", "write", "publish"}
  /\ pitem \in Values \cup {NoItem}
  /\ seenHead \in Counter
  /\ cpc \in {"idle", "read", "advance"}
  /\ out \in Values \cup {NoItem}
  /\ seenTail \in Counter
  /\ psize \in Counter /\ csize \in Counter

Init ==
  /\ head = 0 /\ tail = 0
  /\ slots = [i \in 0..(Capacity - 1) |-> NoItem]
  /\ ppc = "idle" /\ pitem = NoItem /\ seenHead = 0 /\ psize = 0
  /\ cpc = "idle" /\ out = NoItem /\ seenTail = 0 /\ csize = 0

------------------------------------------------------------------------------
\* push(): load head_; full, return false.
PushFull(h) ==
  /\ ppc = "idle"
  /\ h \in Loads(seenHead, head)
  /\ Dist(Inc(tail), h) > Capacity
  /\ seenHead' = h
  /\ UNCHANGED <<head, tail, slots, ppc, pitem, psize, consumer>>

\* Mutant of PushLoad: the full check is off by one.
PushLoadOverfull(v, h) ==
  /\ ppc = "idle"
  /\ h \in Loads(seenHead, head)
  /\ Dist(Inc(tail), h) <= Capacity + 1
  /\ seenHead' = h
  /\ pitem' = v
  /\ ppc' = "write"
  /\ UNCHANGED <<head, tail, slots, psize, consumer>>

\* push(): load head_; there is space.
PushLoad(v, h) ==
  /\ ppc = "idle"
  /\ h \in Loads(seenHead, head)
  /\ Dist(Inc(tail), h) <= Capacity
  /\ seenHead' = h
  /\ pitem' = v
  /\ ppc' = "write"
  /\ UNCHANGED <<head, tail, slots, psize, consumer>>

\* push(): buffer_[tail & kMask] = value.
PushWrite ==
  /\ ppc = "write"
  /\ slots' = [slots EXCEPT ![Slot(tail)] = pitem]
  /\ ppc' = "publish"
  /\ UNCHANGED <<head, tail, pitem, seenHead, psize, consumer>>

\* push(): tail_.store(next, release); return true.
PushPublish ==
  /\ ppc = "publish"
  /\ tail' = Inc(tail)
  /\ pitem' = NoItem
  /\ ppc' = "idle"
  /\ UNCHANGED <<head, slots, seenHead, psize, consumer>>

\* pop(): load tail_; empty, return false.
PopEmpty(t) ==
  /\ cpc = "idle"
  /\ t \in Loads(seenTail, tail)
  /\ head = t
  /\ seenTail' = t
  /\ UNCHANGED <<head, tail, slots, cpc, out, csize, producer>>

\* Mutant of PopLoad: the counters are compared by size, not for equality.
PopLoadByOrder(t) ==
  /\ cpc = "idle"
  /\ t \in Loads(seenTail, tail)
  /\ head < t
  /\ seenTail' = t
  /\ cpc' = "read"
  /\ UNCHANGED <<head, tail, slots, out, csize, producer>>

\* pop(): load tail_; there is an element.
PopLoad(t) ==
  /\ cpc = "idle"
  /\ t \in Loads(seenTail, tail)
  /\ head # t
  /\ seenTail' = t
  /\ cpc' = "read"
  /\ UNCHANGED <<head, tail, slots, out, csize, producer>>

\* pop(): out = buffer_[head & kMask].
PopRead ==
  /\ cpc = "read"
  /\ out' = slots[Slot(head)]
  /\ cpc' = "advance"
  /\ UNCHANGED <<head, tail, slots, seenTail, csize, producer>>

\* pop(): head_.store(head + 1, release); return true.
PopAdvance ==
  /\ cpc = "advance"
  /\ head' = Inc(head)
  /\ cpc' = "idle"
  /\ UNCHANGED <<tail, slots, out, seenTail, csize, producer>>

\* size() and empty() on the producer's thread: only head_ is the other side's.
SizeByProducer(h) ==
  /\ ppc = "idle"
  /\ h \in Loads(seenHead, head)
  /\ seenHead' = h
  /\ psize' = Dist(tail, h)
  /\ UNCHANGED <<head, tail, slots, ppc, pitem, consumer>>

\* Mutant of SizeByConsumer: the operands of the difference are swapped.
SizeByConsumerSwapped(t) ==
  /\ cpc = "idle"
  /\ t \in Loads(seenTail, tail)
  /\ seenTail' = t
  /\ csize' = Dist(head, t)
  /\ UNCHANGED <<head, tail, slots, cpc, out, producer>>

\* size() and empty() on the consumer's thread: only tail_ is the other side's.
SizeByConsumer(t) ==
  /\ cpc = "idle"
  /\ t \in Loads(seenTail, tail)
  /\ seenTail' = t
  /\ csize' = Dist(t, head)
  /\ UNCHANGED <<head, tail, slots, cpc, out, producer>>

Producer ==
  \/ \E h \in Counter : PushFull(h) \/ SizeByProducer(h)
  \/ \E v \in Values, h \in Counter : PushLoad(v, h)
  \/ PushWrite
  \/ PushPublish

Consumer ==
  \/ \E t \in Counter : PopEmpty(t) \/ PopLoad(t) \/ SizeByConsumer(t)
  \/ PopRead
  \/ PopAdvance

Next == Producer \/ Consumer

Spec == Init /\ [][Next]_vars

------------------------------------------------------------------------------
\* The elements a consumer can still be given: from the one after the last it
\* copied out to the last published.
Front == IF cpc = "advance" THEN Inc(head) ELSE head
Queue == [i \in 1..Dist(tail, Front) |-> slots[Slot((Front + i - 1) % Wrap)]]

Fifo == INSTANCE BoundedFifo WITH queue <- Queue, in <- pitem, out <- out

\* push() and pop() implement a bounded FIFO queue: every element accepted is
\* delivered exactly once, intact and in order, for every interleaving of the
\* two threads and every staleness of the counters they load.
ImplementsFifo == Fifo!Spec

\* The slot push() writes (ring_buffer.hpp:41) is never the slot pop() copies
\* (line 52) at that moment: the non-atomic accesses to buffer_ do not race.
NoSlotRace == ~ (ppc = "write" /\ cpc = "read" /\ Slot(tail) = Slot(head))

\* "Approximate count of queued elements (safe to call from either side)": with
\* one counter stale, size() still never underflows or exceeds the capacity.
SizeSafe == psize <= Capacity /\ csize <= Capacity

\* An element the producer published is eventually consumed: the consumer never
\* polls for ever without seeing it.
Delivered == \A h \in Counter : (head = h /\ tail # h) ~> (head # h)

------------------------------------------------------------------------------
(* The inductive strengthening: in the order of the modular counters           *)
(* seenHead, head, seenTail, tail come in that order within one Capacity.       *)
CountersOrdered ==
  /\ Dist(head, seenHead) <= Dist(seenTail, seenHead)
  /\ Dist(seenTail, seenHead) <= Dist(tail, seenHead)
  /\ Dist(tail, seenHead) <= Capacity

PushReserved ==
  /\ ppc = "idle" <=> pitem = NoItem
  /\ ppc # "idle" => Dist(tail, seenHead) < Capacity
  /\ ppc = "publish" => slots[Slot(tail)] = pitem

PopReserved == cpc # "idle" => head # seenTail

RingInv == TypeOK /\ CountersOrdered /\ PushReserved /\ PopReserved /\ SizeSafe
==============================================================================
