-------------------------- MODULE RingBufferProofs ---------------------------
(***************************************************************************)
(* Proofs about RingBuffer, for every capacity, counter width and set of   *)
(* elements.  Modular differences are first turned into linear arithmetic; *)
(* the invariant RingInv then gives the absence of races, the bounds of    *)
(* size() and the refinement of BoundedFifo.                               *)
(***************************************************************************)
EXTENDS RingBuffer, SequenceTheorems, TLAPS

\* The counters' modulus is at least two turns of the ring.
LEMMA WrapBound == Wrap >= 2 * Capacity /\ Wrap > Capacity + 1 /\ Wrap \in Nat /\ Capacity \in Nat
<1>1. PICK k \in 2..Wrap : Wrap = k * Capacity
  BY RingAssumption
<1>2. k * Capacity >= 2 * Capacity
  BY <1>1, RingAssumption
<1>3. QED
  BY <1>1, <1>2, RingAssumption

\* The difference of two counters on uint64_t, without the modulus.
LEMMA DistLinear ==
  ASSUME NEW a \in Counter, NEW b \in Counter
  PROVE  Dist(a, b) = (IF a >= b THEN a - b ELSE a - b + Wrap)
<1>1. Wrap \in Nat /\ Wrap > 0 /\ a \in Int /\ b \in Int /\ a < Wrap /\ b < Wrap /\ 0 <= a /\ 0 <= b
  BY WrapBound DEF Counter
<1>2. ASSUME a >= b PROVE (a - b) % Wrap = a - b
  BY <1>1, <1>2
<1>3. ASSUME ~(a >= b) PROVE (a - b) % Wrap = a - b + Wrap
  BY <1>1, <1>3
<1>4. QED
  BY <1>2, <1>3 DEF Dist

\* The successor of a counter, without the modulus.
LEMMA IncLinear ==
  ASSUME NEW a \in Counter
  PROVE  Inc(a) = (IF a + 1 = Wrap THEN 0 ELSE a + 1)
<1>1. Wrap \in Nat /\ Wrap > 0 /\ a \in Int /\ a < Wrap /\ 0 <= a 
  BY WrapBound DEF Counter
<1>2. QED
  BY <1>1 DEF Inc

\* The sum of two counters, without the modulus.
LEMMA AddLinear ==
  ASSUME NEW a \in Counter, NEW d \in Counter
  PROVE  (a + d) % Wrap = (IF a + d >= Wrap THEN a + d - Wrap ELSE a + d)
<1>1. Wrap \in Nat /\ Wrap > 0 /\ a \in Int /\ a < Wrap /\ 0 <= a /\ d \in Int /\ d < Wrap /\ 0 <= d
  BY WrapBound DEF Counter
<1>2. QED
  BY <1>1

\* x & kMask is an index of buffer_.
LEMMA SlotType ==
  ASSUME NEW a \in Counter
  PROVE  Slot(a) \in 0..(Capacity - 1)
BY RingAssumption DEF Slot, Counter

\* Counters less than Capacity apart use different slots, across the wrap too.
LEMMA SlotsDistinct ==
  ASSUME NEW a \in Counter, NEW b \in Counter, a # b, Dist(a, b) < Capacity
  PROVE  Slot(a) # Slot(b)
<1> SUFFICES ASSUME Slot(a) = Slot(b) PROVE FALSE
  OBVIOUS
<1> DEFINE qa == a \div Capacity
           qb == b \div Capacity
<1>1. Capacity \in Nat /\ Capacity > 0 /\ a \in Nat /\ b \in Nat
  BY RingAssumption DEF Counter
<1>2. a = Capacity * qa + Slot(a) /\ qa \in Int
  BY <1>1 DEF Slot
<1>3. b = Capacity * qb + Slot(b) /\ qb \in Int
  BY <1>1 DEF Slot
<1>4. PICK k \in 2..Wrap : Wrap = k * Capacity
  BY RingAssumption
<1>5. \A n \in Int : Capacity * n > 0 => Capacity * n >= Capacity
  BY <1>1
<1> HIDE DEF qa, qb
<1>6. Slot(a) \in Int
  BY SlotType, <1>1
<1>7. a - b = Capacity * (qa - qb)
  BY <1>1, <1>2, <1>3, <1>6
<1>8. a - b + Wrap = Capacity * (qa - qb + k)
  BY <1>1, <1>2, <1>3, <1>4, <1>7
<1>9. CASE a >= b
  <2>1. Dist(a, b) = a - b /\ a - b > 0
    BY <1>9, <1>1, DistLinear
  <2>2. qa - qb \in Int
    BY <1>2, <1>3
  <2> QED
    BY <2>1, <2>2, <1>7, <1>5, <1>1
<1>10. CASE ~(a >= b)
  <2>1. Dist(a, b) = a - b + Wrap /\ a - b + Wrap > 0
    BY <1>10, <1>1, DistLinear, WrapBound DEF Counter
  <2>2. qa - qb + k \in Int
    BY <1>2, <1>3, <1>4
  <2> QED
    BY <2>1, <2>2, <1>8, <1>5, <1>1
<1> QED
  BY <1>9, <1>10

\* Distances add up along counters that come in order.
LEMMA DistChain ==
  ASSUME NEW a \in Counter, NEW b \in Counter, NEW c \in Counter, Dist(b, a) <= Dist(c, a)
  PROVE  Dist(c, b) = Dist(c, a) - Dist(b, a)
<1>1. /\ Dist(b, a) = (IF b >= a THEN b - a ELSE b - a + Wrap)
      /\ Dist(c, a) = (IF c >= a THEN c - a ELSE c - a + Wrap)
      /\ Dist(c, b) = (IF c >= b THEN c - b ELSE c - b + Wrap)
  BY DistLinear
<1>2. QED
  BY <1>1, WrapBound DEF Counter

\* Only equal counters are at distance zero.
LEMMA DistZero ==
  ASSUME NEW a \in Counter, NEW b \in Counter
  PROVE  Dist(a, b) \in Counter /\ (Dist(a, b) = 0 <=> a = b)
BY DistLinear, WrapBound DEF Counter

\* Different counters are at different distances from a third.
LEMMA DistInjective ==
  ASSUME NEW a \in Counter, NEW b \in Counter, NEW c \in Counter, a # b
  PROVE  Dist(a, c) # Dist(b, c)
<1>1. /\ Dist(a, c) = (IF a >= c THEN a - c ELSE a - c + Wrap)
      /\ Dist(b, c) = (IF b >= c THEN b - c ELSE b - c + Wrap)
  BY DistLinear
<1>2. QED
  BY <1>1, WrapBound DEF Counter

\* Advancing a counter adds one to its distance from another.
LEMMA DistInc ==
  ASSUME NEW a \in Counter, NEW b \in Counter
  PROVE  /\ Inc(a) \in Counter
         /\ Dist(Inc(a), b) = (IF Dist(a, b) = Wrap - 1 THEN 0 ELSE Dist(a, b) + 1)
<1>1. Inc(a) = (IF a + 1 = Wrap THEN 0 ELSE a + 1)
  BY IncLinear
<1>2. Inc(a) \in Counter
  BY <1>1, WrapBound DEF Counter
<1>3. /\ Dist(a, b) = (IF a >= b THEN a - b ELSE a - b + Wrap)
      /\ Dist(Inc(a), b) = (IF Inc(a) >= b THEN Inc(a) - b ELSE Inc(a) - b + Wrap)
  BY <1>2, DistLinear
<1>4. QED
  BY <1>1, <1>2, <1>3, WrapBound DEF Counter

\* An empty ring satisfies the invariant.
LEMMA RingInit == Init => RingInv
<1> SUFFICES ASSUME Init PROVE RingInv
  OBVIOUS
<1>1. 0 \in Counter
  BY WrapBound DEF Counter
<1>2. Dist(0, 0) = 0
  BY <1>1, DistLinear
<1>3. TypeOK
  BY <1>1 DEF Init, TypeOK
<1>4. QED
  BY <1>2, <1>3, RingAssumption DEF Init, RingInv, CountersOrdered, PushReserved, PopReserved, SizeSafe

\* Every memory access of push(), pop() and size() preserves the invariant.
LEMMA RingStep == RingInv /\ [Next]_vars => RingInv'
<1> SUFFICES ASSUME RingInv, [Next]_vars PROVE RingInv'
  OBVIOUS
<1> USE DEF RingInv
<1>1. /\ head \in Counter /\ tail \in Counter /\ seenHead \in Counter /\ seenTail \in Counter
      /\ Dist(head, seenHead) \in Nat /\ Dist(seenTail, seenHead) \in Nat
      /\ Dist(tail, seenHead) \in Nat
  BY DistZero DEF TypeOK, Counter
<1>2. ASSUME NEW h \in Counter, h \in Loads(seenHead, head)
      PROVE  /\ Dist(head, h) = Dist(head, seenHead) - Dist(h, seenHead)
             /\ Dist(seenTail, h) = Dist(seenTail, seenHead) - Dist(h, seenHead)
             /\ Dist(tail, h) = Dist(tail, seenHead) - Dist(h, seenHead)
             /\ Dist(h, seenHead) \in Nat
             /\ Dist(Inc(tail), h) = Dist(tail, h) + 1
  <2>1. Dist(h, seenHead) \in Nat /\ Dist(h, seenHead) <= Dist(head, seenHead)
    BY <1>1, <1>2, DistZero DEF Loads, Counter
  <2>2. /\ Dist(head, h) = Dist(head, seenHead) - Dist(h, seenHead)
        /\ Dist(seenTail, h) = Dist(seenTail, seenHead) - Dist(h, seenHead)
        /\ Dist(tail, h) = Dist(tail, seenHead) - Dist(h, seenHead)
    BY <1>1, <2>1, DistChain DEF CountersOrdered
  <2>3. Dist(Inc(tail), h) = (IF Dist(tail, h) = Wrap - 1 THEN 0 ELSE Dist(tail, h) + 1)
    BY <1>1, DistInc
  <2>4. Dist(tail, h) < Wrap - 1
    BY <1>1, <2>1, <2>2, WrapBound DEF CountersOrdered
  <2>5. QED
    BY <1>1, <2>1, <2>2, <2>3, <2>4
<1>3. ASSUME NEW t \in Counter, t \in Loads(seenTail, tail)
      PROVE  /\ Dist(head, seenHead) <= Dist(t, seenHead)
             /\ Dist(t, seenHead) <= Dist(tail, seenHead)
             /\ Dist(t, head) <= Capacity
  <2>1. Dist(t, seenTail) \in Nat /\ Dist(t, seenTail) <= Dist(tail, seenTail)
    BY <1>1, <1>3, DistZero DEF Loads, Counter
  <2>2. Dist(tail, seenTail) = Dist(tail, seenHead) - Dist(seenTail, seenHead)
    BY <1>1, DistChain DEF CountersOrdered
  <2>3. Dist(t, seenHead) = Dist(t, seenTail) + Dist(seenTail, seenHead)
    <3>1. /\ Dist(t, seenTail) = (IF t >= seenTail THEN t - seenTail ELSE t - seenTail + Wrap)
          /\ Dist(t, seenHead) = (IF t >= seenHead THEN t - seenHead ELSE t - seenHead + Wrap)
          /\ Dist(seenTail, seenHead) =
                (IF seenTail >= seenHead THEN seenTail - seenHead ELSE seenTail - seenHead + Wrap)
      BY <1>1, DistLinear
    <3>2. Dist(t, seenTail) + Dist(seenTail, seenHead) < Wrap
      BY <1>1, <2>1, <2>2, WrapBound DEF CountersOrdered
    <3>3. QED
      BY <1>1, <3>1, <3>2, WrapBound DEF Counter
  <2>4. /\ Dist(head, seenHead) <= Dist(t, seenHead)
        /\ Dist(t, seenHead) <= Dist(tail, seenHead)
    BY <1>1, <2>1, <2>2, <2>3 DEF CountersOrdered
  <2>5. Dist(t, head) = Dist(t, seenHead) - Dist(head, seenHead)
    BY <1>1, <2>4, DistChain
  <2>6. QED
    BY <1>1, <2>1, <2>3, <2>4, <2>5, WrapBound DEF CountersOrdered
<1>4. ASSUME NEW h \in Counter, PushFull(h)
      PROVE  RingInv'
  <2>1. TypeOK'
    BY <1>4 DEF PushFull, TypeOK, consumer
  <2>2. CountersOrdered'
    BY <1>1, <1>2, <1>4, WrapBound DEF PushFull, consumer, CountersOrdered
  <2>3. QED
    BY <2>1, <2>2, <1>4 DEF PushFull, consumer, PushReserved, PopReserved, SizeSafe
<1>5. ASSUME NEW v \in Values, NEW h \in Counter, PushLoad(v, h)
      PROVE  RingInv'
  <2>1. TypeOK'
    BY <1>5 DEF PushLoad, TypeOK, consumer
  <2>2. CountersOrdered' /\ Dist(tail, h) < Capacity
    BY <1>1, <1>2, <1>5, WrapBound DEF PushLoad, consumer, CountersOrdered
  <2>3. QED
    BY <2>1, <2>2, <1>5, RingAssumption DEF PushLoad, consumer, PushReserved, PopReserved, SizeSafe
<1>6. ASSUME PushWrite PROVE RingInv'
  <2>1. Slot(tail) \in 0..(Capacity - 1)
    BY SlotType DEF TypeOK
  <2>2. TypeOK'
    BY <1>6, <2>1 DEF PushWrite, TypeOK, consumer
  <2>3. QED
    BY <1>6, <2>1, <2>2
    DEF PushWrite, TypeOK, consumer, CountersOrdered, PushReserved, PopReserved, SizeSafe
<1>7. ASSUME PushPublish PROVE RingInv'
  <2>1. TypeOK'
    BY <1>1, <1>7, DistInc DEF PushPublish, TypeOK, consumer
  <2>2. Dist(Inc(tail), seenHead) = Dist(tail, seenHead) + 1
    BY <1>1, <1>7, DistInc, WrapBound DEF PushPublish, PushReserved
  <2>3. CountersOrdered'
    BY <1>1, <1>7, <2>2, WrapBound DEF PushPublish, consumer, CountersOrdered, PushReserved
  <2>4. QED
    BY <1>7, <2>1, <2>3 DEF PushPublish, consumer, PushReserved, PopReserved, SizeSafe
<1>8. ASSUME NEW t \in Counter, PopEmpty(t) PROVE RingInv'
  <2>1. TypeOK'
    BY <1>8 DEF PopEmpty, TypeOK, producer
  <2>2. CountersOrdered'
    BY <1>3, <1>8 DEF PopEmpty, producer, CountersOrdered
  <2>3. QED
    BY <1>8, <2>1, <2>2 DEF PopEmpty, producer, PushReserved, PopReserved, SizeSafe
<1>9. ASSUME NEW t \in Counter, PopLoad(t) PROVE RingInv'
  <2>1. TypeOK'
    BY <1>9 DEF PopLoad, TypeOK, producer
  <2>2. CountersOrdered'
    BY <1>3, <1>9 DEF PopLoad, producer, CountersOrdered
  <2>3. QED
    BY <1>9, <2>1, <2>2 DEF PopLoad, producer, PushReserved, PopReserved, SizeSafe
<1>10. ASSUME PopRead PROVE RingInv'
  <2>1. Slot(head) \in 0..(Capacity - 1)
    BY SlotType DEF TypeOK
  <2>2. TypeOK'
    BY <1>10, <2>1 DEF PopRead, TypeOK, producer
  <2>3. QED
    BY <1>10, <2>2 DEF PopRead, producer, CountersOrdered, PushReserved, PopReserved, SizeSafe
<1>11. ASSUME PopAdvance PROVE RingInv'
  <2>1. TypeOK'
    BY <1>1, <1>11, DistInc DEF PopAdvance, TypeOK, producer
  <2>2. Dist(head, seenHead) # Dist(seenTail, seenHead)
    BY <1>1, <1>11, DistInjective DEF PopAdvance, PopReserved
  <2>3. Dist(Inc(head), seenHead) = Dist(head, seenHead) + 1
    BY <1>1, <2>2, DistInc, WrapBound DEF CountersOrdered
  <2>4. CountersOrdered'
    BY <1>1, <1>11, <2>2, <2>3 DEF PopAdvance, producer, CountersOrdered
  <2>5. QED
    BY <1>11, <2>1, <2>4 DEF PopAdvance, producer, PushReserved, PopReserved, SizeSafe
<1>12. ASSUME NEW h \in Counter, SizeByProducer(h) PROVE RingInv'
  <2>1. TypeOK'
    BY <1>1, <1>12, DistZero DEF SizeByProducer, TypeOK, consumer
  <2>2. CountersOrdered' /\ Dist(tail, h) <= Capacity
    BY <1>1, <1>2, <1>12, WrapBound DEF SizeByProducer, consumer, CountersOrdered
  <2>3. QED
    BY <1>12, <2>1, <2>2 DEF SizeByProducer, consumer, PushReserved, PopReserved, SizeSafe
<1>13. ASSUME NEW t \in Counter, SizeByConsumer(t) PROVE RingInv'
  <2>1. TypeOK'
    BY <1>1, <1>13, DistZero DEF SizeByConsumer, TypeOK, producer
  <2>2. CountersOrdered' /\ Dist(t, head) <= Capacity
    BY <1>3, <1>13 DEF SizeByConsumer, producer, CountersOrdered
  <2>3. QED
    BY <1>13, <2>1, <2>2 DEF SizeByConsumer, producer, PushReserved, PopReserved, SizeSafe
<1>14. CASE UNCHANGED vars
  BY <1>14 DEF vars, producer, consumer, TypeOK, CountersOrdered, PushReserved, PopReserved, SizeSafe
<1> QED
  BY <1>4, <1>5, <1>6, <1>7, <1>8, <1>9, <1>10, <1>11, <1>12, <1>13, <1>14
  DEF Next, Producer, Consumer

\* In every reachable state the counters are ordered and push() and pop() own the
\* slots they are about to access.
THEOREM RingInvariant == Spec => []RingInv
<1>1. QED
  BY RingInit, RingStep, PTL DEF Spec

\* size() returns at most Capacity on either thread, however stale its loads.
THEOREM SizeCorrect == Spec => []SizeSafe
<1>1. RingInv => SizeSafe
  BY DEF RingInv
<1>2. QED
  BY <1>1, RingInvariant, PTL

\* The first undelivered element lies between what the producer has seen of head_
\* and tail_.
LEMMA FrontInOrder ==
  ASSUME RingInv
  PROVE  /\ Front \in Counter
         /\ Dist(tail, Front) \in Nat
         /\ Dist(tail, Front) <= Dist(tail, seenHead)
<1> USE DEF RingInv
<1>1. /\ head \in Counter /\ tail \in Counter /\ seenHead \in Counter /\ seenTail \in Counter
      /\ Dist(head, seenHead) \in Nat /\ Dist(seenTail, seenHead) \in Nat
      /\ Dist(tail, seenHead) \in Nat
  BY DistZero DEF TypeOK, Counter
<1>2. Front \in Counter
  BY <1>1, DistInc DEF Front
<1>3. Dist(tail, Front) \in Nat /\ Dist(Front, seenHead) \in Nat
  BY <1>1, <1>2, DistZero DEF Counter
<1>4. Dist(Front, seenHead) <= Dist(tail, seenHead)
  <2>1. CASE cpc = "advance"
    <3>1. Dist(head, seenHead) # Dist(seenTail, seenHead)
      BY <1>1, <2>1, DistInjective DEF PopReserved
    <3>2. Dist(Inc(head), seenHead) = Dist(head, seenHead) + 1
      BY <1>1, <3>1, DistInc, WrapBound DEF CountersOrdered
    <3>3. QED
      BY <1>1, <2>1, <3>1, <3>2 DEF Front, CountersOrdered
  <2>2. CASE cpc # "advance"
    BY <1>1, <2>2 DEF Front, CountersOrdered
  <2>3. QED
    BY <2>1, <2>2
<1>5. Dist(tail, Front) = Dist(tail, seenHead) - Dist(Front, seenHead)
  BY <1>1, <1>2, <1>4, DistChain
<1>6. QED
  BY <1>1, <1>2, <1>3, <1>5

\* While pop() is past its empty check, head_ is a published element.
LEMMA ReadBehindWrite ==
  ASSUME RingInv, cpc # "idle"
  PROVE  head # tail /\ Dist(tail, head) \in Nat /\ Dist(tail, head) <= Dist(tail, seenHead)
<1> USE DEF RingInv
<1>1. /\ head \in Counter /\ tail \in Counter /\ seenHead \in Counter /\ seenTail \in Counter
      /\ Dist(head, seenHead) \in Nat /\ Dist(seenTail, seenHead) \in Nat
      /\ Dist(tail, seenHead) \in Nat
  BY DistZero DEF TypeOK, Counter
<1>2. Dist(head, seenHead) # Dist(seenTail, seenHead)
  BY <1>1, DistInjective DEF PopReserved
<1>3. Dist(tail, head) = Dist(tail, seenHead) - Dist(head, seenHead)
  BY <1>1, DistChain DEF CountersOrdered
<1>4. QED
  BY <1>1, <1>2, <1>3 DEF CountersOrdered

\* push() never writes the slot that pop() is copying.
THEOREM NoRace == Spec => []NoSlotRace
<1>1. RingInv => NoSlotRace
  <2> SUFFICES ASSUME RingInv, ppc = "write", cpc = "read"
               PROVE  Slot(tail) # Slot(head)
    BY DEF NoSlotRace
  <2>1. head # tail /\ Dist(tail, head) < Capacity
    <3>1. head # tail /\ Dist(tail, head) \in Nat /\ Dist(tail, head) <= Dist(tail, seenHead)
      BY ReadBehindWrite
    <3>2. Dist(tail, seenHead) \in Nat /\ Dist(tail, seenHead) < Capacity
      BY DistZero DEF RingInv, TypeOK, PushReserved, Counter
    <3>3. QED
      BY <3>1, <3>2, RingAssumption
  <2>2. QED
    BY <2>1, SlotsDistinct DEF RingInv, TypeOK
<1>2. QED
  BY <1>1, RingInvariant, PTL

\* The i-th queued element sits i - 1 places after Front, hence before tail.
LEMMA Position ==
  ASSUME NEW f \in Counter, NEW t \in Counter, NEW i \in 1..Dist(t, f)
  PROVE  /\ (f + i - 1) % Wrap \in Counter
         /\ Dist(t, (f + i - 1) % Wrap) = Dist(t, f) - (i - 1)
         /\ t # (f + i - 1) % Wrap
<1> DEFINE d == i - 1
           p == (f + d) % Wrap
<1>1. Dist(t, f) \in Counter /\ i \in Int /\ d \in Counter /\ f + i - 1 = f + d
  <2>1. Dist(t, f) \in 0..(Wrap - 1) /\ f \in Int
    BY DistZero DEF Counter
  <2>2. QED
    BY <2>1, WrapBound DEF Counter
<1>2. p = (IF f + d >= Wrap THEN f + d - Wrap ELSE f + d)
  BY <1>1, AddLinear
<1> HIDE DEF p
<1>3. p \in Counter
  BY <1>1, <1>2, WrapBound DEF Counter
<1>4. /\ Dist(t, f) = (IF t >= f THEN t - f ELSE t - f + Wrap)
      /\ Dist(t, p) = (IF t >= p THEN t - p ELSE t - p + Wrap)
  BY <1>3, DistLinear
<1>5. Dist(t, p) = Dist(t, f) - d /\ t # p
  BY <1>1, <1>2, <1>3, <1>4, WrapBound DEF Counter
<1>6. QED
  BY <1>1, <1>3, <1>5 DEF p

\* What Queue is, as a sequence.
QueueShape ==
  /\ Queue \in Seq(Values \cup {NoItem})
  /\ Len(Queue) = Dist(tail, Front)
  /\ \A i \in 1..Dist(tail, Front) : Queue[i] = slots[Slot((Front + i - 1) % Wrap)]

\* Queue has that shape in every state that satisfies the invariant.
LEMMA QueueIsSeq == RingInv => QueueShape
<1> SUFFICES ASSUME RingInv PROVE QueueShape
  OBVIOUS
<1> DEFINE n == Dist(tail, Front)
<1>1. n \in Nat /\ Front \in Counter /\ tail \in Counter
  BY FrontInOrder DEF RingInv, TypeOK
<1>2. \A i \in 1..n : slots[Slot((Front + i - 1) % Wrap)] \in Values \cup {NoItem}
  BY <1>1, Position, SlotType DEF RingInv, TypeOK
<1> HIDE DEF n
<1>3. QED
  BY <1>1, <1>2 DEF Queue, QueueShape, n

\* An empty ring is an empty queue.
LEMMA FifoInit == Init => Fifo!Init
<1> SUFFICES ASSUME Init PROVE Fifo!Init
  OBVIOUS
<1>1. Dist(tail, Front) = 0
  BY DistZero, WrapBound DEF Init, Front, Counter
<1>2. Queue = <<>>
  BY <1>1 DEF Queue
<1>3. QED
  BY <1>2 DEF Init, Fifo!Init

\* Every step of the ring is a step of the queue or leaves it unchanged.
LEMMA FifoStep == RingInv /\ RingInv' /\ [Next]_vars => [Fifo!Next]_(Fifo!vars)
<1> SUFFICES ASSUME RingInv, RingInv', [Next]_vars
             PROVE  [Fifo!Next]_(Fifo!vars)
  OBVIOUS
<1> USE DEF Fifo!vars
<1>0. QueueShape /\ QueueShape'
  BY QueueIsSeq, PTL
<1>1. ASSUME NEW v \in Values, NEW h \in Counter, PushLoad(v, h)
      PROVE  Fifo!Offer(v)
  <2>1. Queue' = Queue
    BY <1>1 DEF PushLoad, Queue, Front, consumer
  <2>2. pitem = NoItem /\ pitem' = v /\ out' = out
    BY <1>1 DEF PushLoad, consumer, RingInv, PushReserved
  <2>3. QED
    BY <2>1, <2>2 DEF Fifo!Offer
<1>2. ASSUME PushWrite
      PROVE  UNCHANGED Fifo!vars
  <2>1. Dist(tail, Front) < Capacity /\ Front \in Counter /\ tail \in Counter /\ Dist(tail, Front) \in Nat
    <3>1. Dist(tail, seenHead) \in Nat /\ Dist(tail, seenHead) < Capacity /\ tail \in Counter
      BY <1>2, DistZero DEF PushWrite, RingInv, TypeOK, PushReserved, Counter
    <3>2. QED
      BY <3>1, FrontInOrder, RingAssumption
  <2>2. Front' = Front /\ tail' = tail /\ pitem' = pitem /\ out' = out
    BY <1>2 DEF PushWrite, Front, consumer
  <2>3. ASSUME NEW i \in 1..Dist(tail, Front)
        PROVE  slots'[Slot((Front + i - 1) % Wrap)] = slots[Slot((Front + i - 1) % Wrap)]
    <3> DEFINE p == (Front + i - 1) % Wrap
    <3>1. p \in Counter /\ tail # p /\ Dist(tail, p) < Capacity
      BY <2>1, Position, RingAssumption
    <3> HIDE DEF p
    <3>2. Slot(tail) # Slot(p) /\ Slot(p) \in 0..(Capacity - 1)
      BY <3>1, <2>1, SlotsDistinct, SlotType
    <3>3. slots'[Slot(p)] = slots[Slot(p)]
      BY <1>2, <3>2 DEF PushWrite, RingInv, TypeOK
    <3>4. QED
      BY <3>3 DEF p
  <2>4. Queue' = Queue
    BY <2>2, <2>3 DEF Queue
  <2>5. QED
    BY <2>2, <2>4
<1>3. ASSUME PushPublish
      PROVE  Fifo!Put
  <2> DEFINE n == Dist(tail, Front)
  <2>1. n < Capacity /\ Front \in Counter /\ tail \in Counter /\ n \in Nat
    <3>1. Dist(tail, seenHead) \in Nat /\ Dist(tail, seenHead) < Capacity /\ tail \in Counter
      BY <1>3, DistZero DEF PushPublish, RingInv, TypeOK, PushReserved, Counter
    <3>2. QED
      BY <3>1, FrontInOrder, RingAssumption
  <2>2. Front' = Front /\ slots' = slots /\ tail' = Inc(tail) /\ out' = out
    BY <1>3 DEF PushPublish, Front, consumer
  <2>3. Dist(tail', Front) = n + 1
    BY <2>1, <2>2, DistInc, WrapBound
  <2>4. (Front + (n + 1) - 1) % Wrap = tail
    <3>1. n = (IF tail >= Front THEN tail - Front ELSE tail - Front + Wrap) /\ n \in Counter
      BY <2>1, DistLinear, DistZero
    <3>2. (Front + n) % Wrap = (IF Front + n >= Wrap THEN Front + n - Wrap ELSE Front + n)
      BY <2>1, <3>1, AddLinear
    <3>3. (Front + n) % Wrap = tail
      BY <2>1, <3>1, <3>2, WrapBound DEF Counter
    <3>4. Front + (n + 1) - 1 = Front + n
      BY <2>1 DEF Counter
    <3>5. QED
      BY <3>3, <3>4
  <2>5. slots[Slot(tail)] = pitem /\ pitem # NoItem /\ pitem' = NoItem
    BY <1>3 DEF PushPublish, RingInv, PushReserved
  <2>6. /\ Queue \in Seq(Values \cup {NoItem}) /\ Len(Queue) = n
        /\ \A i \in 1..n : Queue[i] = slots[Slot((Front + i - 1) % Wrap)]
    BY <1>0 DEF QueueShape
  <2>7. /\ Queue' \in Seq(Values \cup {NoItem}) /\ Len(Queue') = n + 1
        /\ \A i \in 1..(n + 1) : Queue'[i] = slots[Slot((Front + i - 1) % Wrap)]
    BY <1>0, <2>2, <2>3 DEF QueueShape
  <2> HIDE DEF n
  <2>8. Queue' = Append(Queue, pitem)
    <3>2. /\ Append(Queue, pitem) \in Seq(Values \cup {NoItem})
          /\ Len(Append(Queue, pitem)) = n + 1
          /\ \A i \in 1..n : Append(Queue, pitem)[i] = Queue[i]
          /\ Append(Queue, pitem)[n + 1] = pitem
      BY <2>6, AppendProperties DEF RingInv, TypeOK
    <3>3. \A i \in 1..(n + 1) : Queue'[i] = Append(Queue, pitem)[i]
      BY <2>1, <2>4, <2>5, <2>6, <2>7, <3>2
    <3>4. QED
      BY <2>7, <3>2, <3>3, SeqEqual
  <2>9. QED
    BY <2>1, <2>2, <2>5, <2>6, <2>8 DEF Fifo!Put
<1>4. ASSUME PopRead
      PROVE  Fifo!Take
  <2> DEFINE n == Dist(tail, head)
  <2>1. Front = head /\ Front' = Inc(head) /\ tail' = tail /\ slots' = slots /\ pitem' = pitem
    BY <1>4 DEF PopRead, Front, producer
  <2>2. head \in Counter /\ tail \in Counter /\ n \in Nat /\ n # 0
    BY <1>4, ReadBehindWrite, DistZero DEF PopRead, RingInv, TypeOK
  <2>3. Inc(head) = (IF head + 1 = Wrap THEN 0 ELSE head + 1) /\ Inc(head) \in Counter
    BY <2>2, IncLinear, DistInc
  <2>4. Dist(tail, Inc(head)) = n - 1
    BY <2>2, <2>3, DistLinear, WrapBound, SMTT(60) DEF Counter
  <2>5. ASSUME NEW i \in 1..(n - 1)
        PROVE  (Inc(head) + i - 1) % Wrap = (head + (i + 1) - 1) % Wrap
    <3>1. i \in Counter /\ i - 1 \in Counter /\ head \in Int
      <4>1. n \in 0..(Wrap - 1) /\ head \in Int
        BY <2>2, DistZero DEF Counter
      <4>2. QED
        BY <4>1, WrapBound DEF Counter
    <3>2. (head + i) % Wrap = (IF head + i >= Wrap THEN head + i - Wrap ELSE head + i)
      BY <2>2, <3>1, AddLinear
    <3>3. (Inc(head) + (i - 1)) % Wrap =
            (IF Inc(head) + (i - 1) >= Wrap THEN Inc(head) + (i - 1) - Wrap ELSE Inc(head) + (i - 1))
      BY <2>3, <3>1, AddLinear
    <3>4. (Inc(head) + (i - 1)) % Wrap = (head + i) % Wrap
      BY <2>2, <2>3, <3>1, <3>2, <3>3, WrapBound DEF Counter
    <3>5. Inc(head) + i - 1 = Inc(head) + (i - 1) /\ head + (i + 1) - 1 = head + i
      BY <2>3, <3>1 DEF Counter
    <3>6. QED
      BY <3>4, <3>5
  <2>6. /\ Queue \in Seq(Values \cup {NoItem}) /\ Len(Queue) = n
        /\ \A i \in 1..n : Queue[i] = slots[Slot((head + i - 1) % Wrap)]
    BY <1>0, <2>1 DEF QueueShape
  <2>7. /\ Queue' \in Seq(Values \cup {NoItem}) /\ Len(Queue') = n - 1
        /\ \A i \in 1..(n - 1) : Queue'[i] = slots[Slot((Inc(head) + i - 1) % Wrap)]
    BY <1>0, <2>1, <2>4 DEF QueueShape
  <2>8. Queue[1] = slots[Slot(head)]
    <3>1. (head + 1 - 1) % Wrap = head
      BY <2>2, WrapBound DEF Counter
    <3>2. QED
      BY <2>2, <2>6, <3>1
  <2> HIDE DEF n
  <2>9. Queue' = Tail(Queue)
    <3>1. Queue # <<>>
      BY <2>2, <2>6
    <3>2. /\ Tail(Queue) \in Seq(Values \cup {NoItem}) /\ Len(Tail(Queue)) = n - 1
          /\ \A i \in 1..(n - 1) : Tail(Queue)[i] = Queue[i + 1]
      BY <2>6, <3>1, HeadTailProperties
    <3>3. ASSUME NEW i \in 1..(n - 1)
          PROVE  Queue'[i] = Tail(Queue)[i]
      <4>1. i + 1 \in 1..n
        BY <2>2
      <4>2. QED
        BY <4>1, <2>5, <2>6, <2>7, <3>2
    <3>4. QED
      BY <2>7, <3>2, <3>3, SeqEqual
  <2>10. Queue # <<>> /\ Head(Queue) = Queue[1]
    BY <2>2, <2>6
  <2>11. QED
    BY <1>4, <2>1, <2>8, <2>9, <2>10 DEF PopRead, Fifo!Take
<1>5. ASSUME PopAdvance PROVE UNCHANGED Fifo!vars
  <2>1. Front' = Front /\ tail' = tail /\ slots' = slots /\ pitem' = pitem /\ out' = out
    BY <1>5 DEF PopAdvance, Front, producer
  <2>2. QED
    BY <2>1 DEF Queue
<1>6. ASSUME \/ \E h \in Counter : PushFull(h) \/ SizeByProducer(h)
             \/ \E t \in Counter : PopEmpty(t) \/ PopLoad(t) \/ SizeByConsumer(t)
             \/ UNCHANGED vars
      PROVE  UNCHANGED Fifo!vars
  <2>1. Front' = Front /\ tail' = tail /\ slots' = slots /\ pitem' = pitem /\ out' = out
    BY <1>6 DEF PushFull, SizeByProducer, PopEmpty, PopLoad, SizeByConsumer, Front, producer, consumer, vars
  <2>2. QED
    BY <2>1 DEF Queue
<1>7. QED
  BY <1>1, <1>2, <1>3, <1>4, <1>5, <1>6 DEF Next, Producer, Consumer, Fifo!Next

\* The ring implements the bounded FIFO queue, for every capacity and set of
\* elements, every interleaving and every staleness of the loads.
THEOREM Refinement == Spec => ImplementsFifo
<1>1. QED
  BY RingInvariant, FifoInit, FifoStep, PTL DEF Spec, ImplementsFifo, Fifo!Spec
==============================================================================
