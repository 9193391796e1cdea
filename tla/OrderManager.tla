---------------------------- MODULE OrderManager -----------------------------
(***************************************************************************)
(* The table of live orders of src/src/order_manager/order_manager.hpp.    *)
(* A slot keeps of a LiveOrder what the handlers branch on: the client     *)
(* order id, quantity, state, exchange order number (0 is none), filled    *)
(* quantity and the occupied flag.  This module's own specification calls  *)
(* the handlers in any order, for any id: replies may be lost, repeated,   *)
(* late or about orders never sent.                                        *)
(***************************************************************************)
EXTENDS Integers, FiniteSets

CONSTANTS
  TableSize,    \* kOrderTableSize
  MaxId,        \* bound on client order ids
  MaxQty,       \* bound on the quantity of an order and of a fill
  MaxFilled     \* bound on the filled quantity of a slot

ASSUME ManagerAssumption ==
  /\ TableSize \in Nat \ {0}
  /\ MaxId \in Nat /\ MaxQty \in Nat /\ MaxFilled \in Nat

VARIABLES
  table,        \* table_
  nextId,       \* next_clordid_
  live          \* live_count_

omVars == <<table, nextId, live>>

Ids == 1..MaxId
Index(id) == id % TableSize
Slots == 0..(TableSize - 1)

Open == {"PendingNew", "Acknowledged", "PartiallyFilled"}
Terminal == {"Filled", "Cancelled", "Rejected"}

LiveOrder ==
  [id : 0..MaxId, qty : Nat, state : {"Idle"} \cup Open \cup Terminal,
   exNo : Nat, filled : Nat, occupied : BOOLEAN]

TypeOK ==
  /\ table \in [Slots -> LiveOrder]
  /\ nextId \in 1..(MaxId + 1)
  /\ live \in Nat

\* LiveOrder.order has no initializer: the ids and quantities of unused slots are
\* whatever the memory held.
Init ==
  /\ table \in [Slots -> [id : 0..MaxId, qty : 0..MaxQty, state : {"Idle"},
                          exNo : {0}, filled : {0}, occupied : {FALSE}]]
  /\ nextId = 1
  /\ live = 0

------------------------------------------------------------------------------
\* get(): does the slot of this id hold it, live or terminal?
Holds(id) == table[Index(id)].id = id

\* Mutant of Taken: a partially filled order does not keep its slot.
TakenUnlessPartial(i) ==
  table[i].occupied /\ table[i].state \notin Terminal \cup {"PartiallyFilled"}

\* The slot's order is live: new_order() may not take the slot.
Taken(i) == table[i].occupied /\ table[i].state \notin Terminal

\* new_order(): client_order_id, or a fresh one when it is 0.
Assigned(id) == IF id = 0 THEN nextId ELSE id
AssignId(id) ==
  /\ id = 0 => nextId <= MaxId
  /\ nextId' = IF id = 0 THEN nextId + 1 ELSE nextId

\* new_order(): the order is recorded and sent.
NewOrder(id, qty) ==
  /\ AssignId(id)
  /\ ~ Taken(Index(Assigned(id)))
  /\ table' = [table EXCEPT ![Index(Assigned(id))] =
                 [id |-> Assigned(id), qty |-> qty, state |-> "PendingNew",
                  exNo |-> 0, filled |-> 0, occupied |-> TRUE]]
  /\ live' = live + 1

\* new_order(): duplicate live id or slot conflict, returns 0.
NewOrderRefused(id) ==
  /\ AssignId(id)
  /\ Taken(Index(Assigned(id)))
  /\ UNCHANGED <<table, live>>

\* Mutant of Close: a slot already released counts again.
CloseTwice(i, rec) ==
  /\ table' = [table EXCEPT ![i] = [rec EXCEPT !.occupied = FALSE]]
  /\ live' = IF live > 0 THEN live - 1 ELSE live

\* Release(), and the new content of the slot.
Close(i, rec) ==
  /\ table' = [table EXCEPT ![i] = [rec EXCEPT !.occupied = FALSE]]
  /\ live' = IF table[i].occupied /\ live > 0 THEN live - 1 ELSE live

\* Mutant of on_ack: the exchange's number is not stored.
AckWithoutNumber(id, exNo) ==
  /\ Holds(id) /\ table[Index(id)].state = "PendingNew"
  /\ table' = [table EXCEPT ![Index(id)].state = "Acknowledged"]
  /\ UNCHANGED <<nextId, live>>

on_ack(id, exNo) ==
  /\ Holds(id) /\ table[Index(id)].state = "PendingNew"
  /\ table' = [table EXCEPT ![Index(id)].exNo = exNo, ![Index(id)].state = "Acknowledged"]
  /\ UNCHANGED <<nextId, live>>

\* Mutant of on_fill: the fill replaces the quantity filled so far.
FillReplaces(id, qty, remaining) ==
  /\ Holds(id)
  /\ LET i == Index(id)
     IN IF qty >= table[i].qty \/ remaining = 0
        THEN Close(i, [table[i] EXCEPT !.filled = qty, !.state = "Filled"])
        ELSE /\ table' = [table EXCEPT ![i].filled = qty, ![i].state = "PartiallyFilled"]
             /\ UNCHANGED live
  /\ UNCHANGED nextId

on_fill(id, qty, remaining) ==
  /\ Holds(id)
  /\ LET i == Index(id)
         filled == table[i].filled + qty
     IN IF filled >= table[i].qty \/ remaining = 0
        THEN Close(i, [table[i] EXCEPT !.filled = filled, !.state = "Filled"])
        ELSE /\ table' = [table EXCEPT ![i].filled = filled, ![i].state = "PartiallyFilled"]
             /\ UNCHANGED live
  /\ UNCHANGED nextId

\* Mutant of on_cancel_ack: the slot is not released.
CancelAckKeeps(id) ==
  /\ Holds(id)
  /\ table' = [table EXCEPT ![Index(id)].state = "Cancelled"]
  /\ UNCHANGED <<nextId, live>>

on_cancel_ack(id) ==
  /\ Holds(id)
  /\ Close(Index(id), [table[Index(id)] EXCEPT !.state = "Cancelled"])
  /\ UNCHANGED nextId

on_reject(id) ==
  /\ Holds(id)
  /\ Close(Index(id), [table[Index(id)] EXCEPT !.state = "Rejected"])
  /\ UNCHANGED nextId

\* encode_cancel() returns a message.
Encodable(id) == Holds(id) /\ table[Index(id)].exNo # 0

Next ==
  \/ \E id \in Ids \cup {0} : NewOrderRefused(id) \/ \E qty \in 1..MaxQty : NewOrder(id, qty)
  \/ \E id \in Ids : on_ack(id, id) \/ on_cancel_ack(id) \/ on_reject(id)
  \/ \E id \in Ids, qty \in 1..MaxQty, remaining \in 0..MaxQty :
        table[Index(id)].filled + qty <= MaxFilled /\ on_fill(id, qty, remaining)

Spec == Init /\ [][Next]_omVars

------------------------------------------------------------------------------
Occupied == {i \in Slots : table[i].occupied}

\* live_count() is the number of occupied slots, after any sequence of calls: no
\* late, repeated or unknown reply makes the counter drift (order_manager.hpp:160
\* guards against its underflow).
LiveCountExact == live = Cardinality(Occupied)

\* An occupied slot's order is open: terminal orders have released their slot.
OccupiedIsOpen == \A i \in Slots : table[i].occupied => table[i].state \in Open

\* new_order() never takes the slot of a live order: the order in an occupied slot
\* stays the same until the slot is released.
LiveOrderKept ==
  [][\A i \in Slots : table[i].occupied /\ table'[i].occupied =>
        table'[i].id = table[i].id /\ table'[i].qty = table[i].qty]_omVars

ManagerInv == TypeOK /\ OccupiedIsOpen /\ LiveCountExact
==============================================================================
