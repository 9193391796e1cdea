----------------------------- MODULE OrderTable ------------------------------
(***************************************************************************)
(* orders_, the open-addressing table of src/src/order_book/order_book.hpp *)
(* (linear probing, backward-shift delete).  A slot holds the number of    *)
(* the order recorded in it, or Free (occupied == false); records move as  *)
(* a whole, so their price, quantity and side are left out.  Hash() is an  *)
(* arbitrary function, chosen in the initial state.  EraseOrder() is       *)
(* modelled one iteration of its while loop at a time.                     *)
(***************************************************************************)
EXTENDS Integers, FiniteSets

CONSTANTS
  OrderNos,    \* order numbers the exchange uses
  TableSize,   \* order_mask_ + 1
  Free         \* an unoccupied slot

ASSUME TableAssumption ==
  /\ TableSize \in Nat \ {0}
  /\ Free \notin OrderNos

VARIABLES
  home,        \* Hash(), fixed
  orders,      \* orders_
  pc,          \* "shift" while EraseOrder() is in its while loop
  hole, next   \* its locals

vars == <<home, orders, pc, hole, next>>

Slots == 0..(TableSize - 1)
Succ(i) == (i + 1) % TableSize
Probe(o, k) == (home[o] + k) % TableSize

Init ==
  /\ home \in [OrderNos -> Slots]
  /\ orders = [i \in Slots |-> Free]
  /\ pc = "idle"
  /\ hole = 0 /\ next = 0

------------------------------------------------------------------------------
\* Where probing for o ends: a free slot, or the slot of o.
Stops(o) == {i \in Slots : orders[i] \in {Free, o}}

\* The first slot of S in the probe order of o.
First(o, S) ==
  Probe(o, CHOOSE k \in Slots : /\ Probe(o, k) \in S
                                /\ \A j \in 0..(k - 1) : Probe(o, j) \notin S)

\* FindOrder(): the slots it returns, none or one.
FindOrder(o) == {i \in Stops(o) : orders[i] = o /\ i = First(o, Stops(o))}

\* InsertOrder(): a new record, or the overwriting of the record of o.
InsertOrder(o) ==
  /\ pc = "idle"
  /\ Stops(o) # {}
  /\ orders' = [orders EXCEPT ![First(o, Stops(o))] = o]
  /\ UNCHANGED <<home, pc, hole, next>>

\* EraseOrder(): the probe loop finds o; without a match it returns and nothing
\* changes.
EraseBegin(o) ==
  /\ pc = "idle"
  /\ \E i \in FindOrder(o) : hole' = i /\ next' = Succ(i)
  /\ pc' = "shift"
  /\ UNCHANGED <<home, orders>>

\* Mutant of CanMove: the case of a probe that wraps is missing.
CanMoveNoWrap(ho, ne, at) == ~ (ho < at /\ at <= ne)

\* "Can orders_[next] move into hole?"
CanMove(ho, ne, at) ==
  IF ho <= ne THEN ~ (ho < at /\ at <= ne) ELSE ~ (ho < at \/ at <= ne)

\* Mutant of EraseShift: hole moves on without the record being copied.
EraseShiftNoCopy ==
  /\ pc = "shift"
  /\ orders[next] # Free
  /\ hole' = IF CanMove(hole, next, home[orders[next]]) THEN next ELSE hole
  /\ next' = Succ(next)
  /\ UNCHANGED <<home, pc, orders>>

\* Mutant of EraseShift: next advances only past a record that moved.
EraseShiftStuck ==
  /\ pc = "shift"
  /\ orders[next] # Free
  /\ CanMove(hole, next, home[orders[next]])
  /\ orders' = [orders EXCEPT ![hole] = orders[next]]
  /\ hole' = next
  /\ next' = Succ(next)
  /\ UNCHANGED <<home, pc>>

\* EraseOrder(): one iteration of while (orders_[next].occupied).
EraseShift ==
  /\ pc = "shift"
  /\ orders[next] # Free
  /\ IF CanMove(hole, next, home[orders[next]])
     THEN /\ orders' = [orders EXCEPT ![hole] = orders[next]]
          /\ hole' = next
     ELSE UNCHANGED <<orders, hole>>
  /\ next' = Succ(next)
  /\ UNCHANGED <<home, pc>>

\* EraseOrder(): the loop ends, orders_[hole].occupied = false.
EraseDone ==
  /\ pc = "shift"
  /\ orders[next] = Free
  /\ orders' = [orders EXCEPT ![hole] = Free]
  /\ pc' = "idle"
  /\ UNCHANGED <<home, hole, next>>

Next ==
  \/ \E o \in OrderNos : InsertOrder(o) \/ EraseBegin(o)
  \/ EraseShift
  \/ EraseDone

Spec == Init /\ [][Next]_vars

\* EraseOrder() runs to its end: nothing in its loop blocks.
FairSpec == Spec /\ WF_vars(EraseShift \/ EraseDone)

------------------------------------------------------------------------------
\* The orders recorded; the slot EraseOrder() is vacating does not count.
Live == IF pc = "shift" THEN Slots \ {hole} ELSE Slots
Keys == {orders[i] : i \in Live} \ {Free}

Set == INSTANCE OrderSet WITH members <- Keys

\* InsertOrder() and EraseOrder() implement a set of at most TableSize orders:
\* moving records backward neither loses an order nor resurrects one.
ImplementsSet == Set!Spec

\* Between two calls FindOrder() finds exactly the recorded orders: backward
\* shifting "keep[s] probe sequences intact" (order_book.hpp:211), whatever the
\* hash function.
Findable == pc = "idle" => \A o \in OrderNos : FindOrder(o) # {} <=> o \in Keys

\* EraseOrder() returns.
EraseReturns == (pc = "shift") ~> (pc = "idle")
==============================================================================
