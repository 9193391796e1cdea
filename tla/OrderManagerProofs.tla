------------------------- MODULE OrderManagerProofs --------------------------
(***************************************************************************)
(* Proofs about OrderManager for every table size and any number of ids.   *)
(***************************************************************************)
EXTENDS OrderManager, FiniteSetTheorems, TLAPS

\* Every id has a slot.
LEMMA IndexInSlots == \A id \in Nat : Index(id) \in Slots
BY ManagerAssumption DEF Index, Slots

\* The occupied slots are countable by Cardinality.
LEMMA OccupiedFinite == IsFiniteSet(Occupied) /\ Cardinality(Occupied) \in Nat
<1>1. IsFiniteSet(Slots)
  BY FS_Interval, ManagerAssumption DEF Slots
<1> QED
  BY <1>1, FS_Subset, FS_CardinalityType DEF Occupied

\* Occupying a free slot and releasing an occupied one move the count by one.
LEMMA CountMoves ==
  ASSUME NEW S, IsFiniteSet(S), NEW i
  PROVE  /\ i \notin S => Cardinality(S \cup {i}) = Cardinality(S) + 1
         /\ i \in S => Cardinality(S \ {i}) = Cardinality(S) - 1 /\ Cardinality(S) > 0
         /\ i \notin S => Cardinality(S \ {i}) = Cardinality(S)
<1>1. Cardinality(S) \in Nat
  BY FS_CardinalityType
<1>2. i \notin S => Cardinality(S \cup {i}) = Cardinality(S) + 1
  BY FS_AddElement
<1>3. i \in S => Cardinality(S \ {i}) = Cardinality(S) - 1
  BY FS_RemoveElement
<1>4. i \in S => Cardinality(S) > 0
  BY <1>1, FS_EmptySet
<1>5. i \notin S => S \ {i} = S
  OBVIOUS
<1> QED
  BY <1>2, <1>3, <1>4, <1>5

\* An empty table satisfies the invariant, whatever its memory held.
LEMMA ManagerInit == Init => ManagerInv
<1> SUFFICES ASSUME Init PROVE ManagerInv
  OBVIOUS
<1>1. TypeOK
  <2>1. \A r \in [id : 0..MaxId, qty : 0..MaxQty, state : {"Idle"},
                exNo : {0}, filled : {0}, occupied : {FALSE}] : r \in LiveOrder
    <3>1. 0..MaxQty \subseteq Nat /\ {0} \subseteq Nat /\ {FALSE} \subseteq BOOLEAN
            /\ {"Idle"} \subseteq {"Idle"} \cup Open \cup Terminal
      BY ManagerAssumption
    <3> QED
      BY <3>1, ZenonT(60) DEF LiveOrder
  <2>2. table \in [Slots -> LiveOrder]
    BY <2>1 DEF Init
  <2> QED
    BY <2>2, ManagerAssumption DEF Init, TypeOK
<1>2. OccupiedIsOpen
  BY DEF Init, OccupiedIsOpen
<1>3. Occupied = {}
  BY DEF Init, Occupied
<1> QED
  BY <1>1, <1>2, <1>3, FS_EmptySet DEF Init, ManagerInv, LiveCountExact

\* Release() in any handler preserves the invariant.
LEMMA CloseStep ==
  ASSUME ManagerInv, NEW i \in Slots, NEW rec \in LiveOrder, Close(i, rec)
  PROVE  table' \in [Slots -> LiveOrder] /\ live' \in Nat /\ OccupiedIsOpen' /\ LiveCountExact'
<1>1. table' = [table EXCEPT ![i] = [rec EXCEPT !.occupied = FALSE]]
  BY DEF Close
<1>2. [rec EXCEPT !.occupied = FALSE] \in LiveOrder /\ [rec EXCEPT !.occupied = FALSE].occupied = FALSE
  BY DEF LiveOrder
<1>3. table' \in [Slots -> LiveOrder]
  BY <1>1, <1>2 DEF ManagerInv, TypeOK
<1>4. OccupiedIsOpen'
  BY <1>1, <1>2 DEF ManagerInv, TypeOK, OccupiedIsOpen
<1>5. Occupied' = Occupied \ {i}
  BY <1>1, <1>2 DEF ManagerInv, TypeOK, Occupied
<1>6. i \in Occupied <=> table[i].occupied
  BY DEF Occupied
<1>7. LiveCountExact' /\ live' \in Nat
  <2>1. live \in Nat /\ live = Cardinality(Occupied)
    BY DEF ManagerInv, TypeOK, LiveCountExact
  <2>2. CASE table[i].occupied
    <3>1. Cardinality(Occupied') = live - 1 /\ live > 0
      BY <1>5, <1>6, <2>1, <2>2, OccupiedFinite, CountMoves
    <3>2. live' = live - 1
      BY <2>1, <2>2, <3>1 DEF Close
    <3> QED
      BY <2>1, <3>1, <3>2 DEF LiveCountExact
  <2>3. CASE ~ table[i].occupied
    <3>1. Cardinality(Occupied') = live
      BY <1>5, <1>6, <2>1, <2>3, OccupiedFinite, CountMoves
    <3>2. live' = live
      BY <2>3 DEF Close
    <3> QED
      BY <2>1, <3>1, <3>2 DEF LiveCountExact
  <2> QED
    BY <2>2, <2>3
<1> QED
  BY <1>3, <1>4, <1>7

\* A handler that keeps the slot's occupied flag and leaves it open preserves it.
LEMMA UpdateStep ==
  ASSUME ManagerInv, NEW i \in Slots, NEW rec \in LiveOrder,
         rec.occupied = table[i].occupied, rec.state \in Open,
         table' = [table EXCEPT ![i] = rec], live' = live
  PROVE  table' \in [Slots -> LiveOrder] /\ live' \in Nat /\ OccupiedIsOpen' /\ LiveCountExact'
<1>1. table' \in [Slots -> LiveOrder] /\ live' \in Nat
  BY DEF ManagerInv, TypeOK
<1>2. OccupiedIsOpen'
  BY DEF ManagerInv, TypeOK, OccupiedIsOpen
<1>3. Occupied' = Occupied
  BY DEF ManagerInv, TypeOK, Occupied
<1> QED
  BY <1>1, <1>2, <1>3 DEF ManagerInv, LiveCountExact

\* Every call of the manager preserves the invariant.
LEMMA ManagerStep == ManagerInv /\ [Next]_omVars => ManagerInv'
<1> SUFFICES ASSUME ManagerInv, [Next]_omVars PROVE ManagerInv'
  OBVIOUS
<1> USE ManagerAssumption
<1>0. \A id \in Ids : Index(id) \in Slots /\ table[Index(id)] \in LiveOrder
  BY IndexInSlots DEF Ids, ManagerInv, TypeOK
<1>1. ASSUME NEW id \in Ids \cup {0}, NEW qty \in 1..MaxQty, NewOrder(id, qty) PROVE ManagerInv'
  <2> DEFINE i == Index(Assigned(id))
             rec == [id |-> Assigned(id), qty |-> qty, state |-> "PendingNew",
                     exNo |-> 0, filled |-> 0, occupied |-> TRUE]
  <2>1. Assigned(id) \in Ids /\ nextId' \in 1..(MaxId + 1)
    BY <1>1 DEF NewOrder, AssignId, Assigned, Ids, ManagerInv, TypeOK
  <2>2. i \in Slots /\ rec \in LiveOrder
    BY <1>0, <2>1 DEF LiveOrder, Open, Ids
  <2>3. table' = [table EXCEPT ![i] = rec] /\ live' = live + 1
    BY <1>1 DEF NewOrder
  <2> HIDE DEF i, rec
  <2>4. rec.occupied = TRUE /\ rec.state \in Open
    BY DEF rec, Open
  <2>5. ~ table[i].occupied
    BY <1>1, <2>2 DEF NewOrder, Taken, i, ManagerInv, OccupiedIsOpen, Open, Terminal
  <2>6. Occupied' = Occupied \cup {i} /\ i \notin Occupied
    BY <2>2, <2>3, <2>4, <2>5 DEF Occupied, ManagerInv, TypeOK
  <2>7. TypeOK'
    BY <2>1, <2>2, <2>3 DEF ManagerInv, TypeOK
  <2>8. OccupiedIsOpen'
    BY <2>2, <2>3, <2>4 DEF ManagerInv, TypeOK, OccupiedIsOpen
  <2>9. LiveCountExact'
    BY <2>3, <2>6, OccupiedFinite, CountMoves DEF ManagerInv, LiveCountExact
  <2> QED
    BY <2>7, <2>8, <2>9 DEF ManagerInv
<1>2. ASSUME NEW id \in Ids \cup {0}, NewOrderRefused(id) PROVE ManagerInv'
  BY <1>2 DEF NewOrderRefused, AssignId, ManagerInv, TypeOK, OccupiedIsOpen, LiveCountExact, Occupied
<1>3. ASSUME NEW id \in Ids, on_ack(id, id) PROVE ManagerInv'
  <2> DEFINE rec == [table[Index(id)] EXCEPT !.exNo = id, !.state = "Acknowledged"]
  <2>1. rec \in LiveOrder /\ rec.occupied = table[Index(id)].occupied /\ rec.state \in Open
    <3>1. id \in Nat
      BY DEF Ids
    <3>2. "Acknowledged" \in Open
      BY DEF Open
    <3> QED
      BY <1>0, <3>1, <3>2 DEF LiveOrder
  <2>2. table' = [table EXCEPT ![Index(id)] = rec] /\ live' = live /\ nextId' = nextId
    BY <1>3, <1>0 DEF on_ack, ManagerInv, TypeOK
  <2> QED
    BY <1>0, <2>1, <2>2, UpdateStep DEF ManagerInv, TypeOK
<1>4. ASSUME NEW id \in Ids, NEW qty \in 1..MaxQty, NEW remaining \in 0..MaxQty,
             on_fill(id, qty, remaining)
      PROVE  ManagerInv'
  <2> DEFINE i == Index(id)
             filled == table[i].filled + qty
             done == [table[i] EXCEPT !.filled = filled, !.state = "Filled"]
             part == [table[i] EXCEPT !.filled = filled, !.state = "PartiallyFilled"]
  <2>1. done \in LiveOrder /\ part \in LiveOrder
    <3>1. filled \in Nat
      BY <1>0 DEF LiveOrder
    <3>2. "Filled" \in Terminal /\ "PartiallyFilled" \in Open
      BY DEF Open, Terminal
    <3> HIDE DEF filled
    <3> QED
      BY <1>0, <3>1, <3>2 DEF LiveOrder
  <2>2. part.occupied = table[i].occupied /\ part.state \in Open
    BY <1>0 DEF LiveOrder, Open
  <2>3. nextId' = nextId
    BY <1>4 DEF on_fill
  <2>4. CASE filled >= table[i].qty \/ remaining = 0
    <3>1. Close(i, done)
      BY <1>4, <2>4 DEF on_fill
    <3> QED
      BY <1>0, <2>1, <2>3, <3>1, CloseStep DEF ManagerInv, TypeOK
  <2>5. CASE ~ (filled >= table[i].qty \/ remaining = 0)
    <3>1. table' = [table EXCEPT ![i] = part] /\ live' = live
      BY <1>4, <2>5, <1>0 DEF on_fill, ManagerInv, TypeOK
    <3> QED
      BY <1>0, <2>1, <2>2, <2>3, <3>1, UpdateStep DEF ManagerInv, TypeOK
  <2> QED
    BY <2>4, <2>5
<1>5. ASSUME NEW id \in Ids, on_cancel_ack(id) PROVE ManagerInv'
  <2>1. [table[Index(id)] EXCEPT !.state = "Cancelled"] \in LiveOrder
    BY <1>0 DEF LiveOrder, Terminal
  <2> QED
    BY <1>0, <1>5, <2>1, CloseStep DEF on_cancel_ack, ManagerInv, TypeOK
<1>6. ASSUME NEW id \in Ids, on_reject(id) PROVE ManagerInv'
  <2>1. [table[Index(id)] EXCEPT !.state = "Rejected"] \in LiveOrder
    BY <1>0 DEF LiveOrder, Terminal
  <2> QED
    BY <1>0, <1>6, <2>1, CloseStep DEF on_reject, ManagerInv, TypeOK
<1>7. CASE UNCHANGED omVars
  BY <1>7 DEF omVars, ManagerInv, TypeOK, OccupiedIsOpen, LiveCountExact, Occupied
<1> QED
  BY <1>1, <1>2, <1>3, <1>4, <1>5, <1>6, <1>7 DEF Next

\* The invariant holds after every sequence of calls.
THEOREM ManagerInvariant == Spec => []ManagerInv
BY ManagerInit, ManagerStep, PTL DEF Spec

\* No call of new_order() takes over the slot of a live order.
THEOREM LiveOrdersKept == Spec => LiveOrderKept
<1>1. ManagerInv /\ [Next]_omVars =>
        [\A i \in Slots : table[i].occupied /\ table'[i].occupied =>
            table'[i].id = table[i].id /\ table'[i].qty = table[i].qty]_omVars
  <2> SUFFICES ASSUME ManagerInv, Next, NEW j \in Slots, table[j].occupied, table'[j].occupied
               PROVE  table'[j].id = table[j].id /\ table'[j].qty = table[j].qty
    OBVIOUS
  <2> USE DEF ManagerInv, TypeOK
  <2>0. \A id \in Ids : Index(id) \in Slots
    BY IndexInSlots, ManagerAssumption DEF Ids
  <2>1. ASSUME NEW id \in Ids \cup {0}, NEW qty \in 1..MaxQty, NewOrder(id, qty)
        PROVE  table'[j] = table[j]
    <3>1. j # Index(Assigned(id))
      BY <2>1 DEF NewOrder, Taken, OccupiedIsOpen, Open, Terminal
    <3> QED
      BY <2>1, <3>1 DEF NewOrder
  <2>2. ASSUME NEW id \in Ids \cup {0}, NewOrderRefused(id) PROVE table'[j] = table[j]
    BY <2>2 DEF NewOrderRefused
  <2>3. ASSUME NEW i \in Slots, NEW rec \in LiveOrder, Close(i, rec) PROVE table'[j] = table[j]
    BY <2>3 DEF Close, LiveOrder
  <2>4. ASSUME NEW id \in Ids, on_ack(id, id) PROVE table'[j].id = table[j].id /\ table'[j].qty = table[j].qty
    BY <2>0, <2>4 DEF on_ack, LiveOrder
  <2>5. ASSUME NEW id \in Ids, NEW qty \in 1..MaxQty, NEW remaining \in 0..MaxQty,
               on_fill(id, qty, remaining)
        PROVE  table'[j].id = table[j].id /\ table'[j].qty = table[j].qty
    <3> DEFINE i == Index(id)
               filled == table[i].filled + qty
    <3>1. filled \in Nat
      BY <2>0 DEF LiveOrder
    <3> HIDE DEF filled
    <3>2. CASE filled >= table[i].qty \/ remaining = 0
      <4>1. Close(i, [table[i] EXCEPT !.filled = filled, !.state = "Filled"])
        BY <2>5, <3>2 DEF on_fill, filled
      <4>2. [table[i] EXCEPT !.filled = filled, !.state = "Filled"] \in LiveOrder
        BY <2>0, <3>1, ZenonT(60) DEF LiveOrder, Terminal
      <4> QED
        BY <2>0, <2>3, <4>1, <4>2
    <3>3. CASE ~ (filled >= table[i].qty \/ remaining = 0)
      BY <2>0, <2>5, <3>3 DEF on_fill, filled, LiveOrder
    <3> QED
      BY <3>2, <3>3
  <2>6. ASSUME NEW id \in Ids, on_cancel_ack(id) PROVE table'[j] = table[j]
    BY <2>0, <2>3, <2>6 DEF on_cancel_ack, LiveOrder, Terminal
  <2>7. ASSUME NEW id \in Ids, on_reject(id) PROVE table'[j] = table[j]
    BY <2>0, <2>3, <2>7 DEF on_reject, LiveOrder, Terminal
  <2> QED
    BY <2>1, <2>2, <2>4, <2>5, <2>6, <2>7 DEF Next
<1> QED
  BY <1>1, ManagerInvariant, PTL DEF Spec, LiveOrderKept

\* live_count() never drifts from the number of occupied slots.
THEOREM CountIsExact == Spec => []LiveCountExact
<1>1. ManagerInv => LiveCountExact
  BY DEF ManagerInv
<1> QED
  BY <1>1, ManagerInvariant, PTL

\* An order that was filled, cancelled or rejected has released its slot.
THEOREM OccupiedAreOpen == Spec => []OccupiedIsOpen
<1>1. ManagerInv => OccupiedIsOpen
  BY DEF ManagerInv
<1> QED
  BY <1>1, ManagerInvariant, PTL
==============================================================================
