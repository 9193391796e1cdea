----------------------------- MODULE OrderEntry ------------------------------
(***************************************************************************)
(* The order manager and the exchange (external), joined by the TCP        *)
(* connection of src/src/gateway/order_gateway.hpp: requests and replies   *)
(* travel in order; a disconnect loses the ones in flight.  Ids are the    *)
(* manager's own (client_order_id 0).  Besides this caller there is one    *)
(* that calls the manager at will, with any id.                            *)
(***************************************************************************)
EXTENDS OrderManager, Sequences

VARIABLES
  caller,       \* who drives the manager: "exchange" or "anyone"
  exch,         \* the exchange's orders, by client order id
  requests,     \* in flight to the exchange
  replies,      \* in flight from it
  cancelled,    \* ids a cancel has been sent for
  lost          \* has a disconnect happened?

entryVars == <<caller, omVars, exch, requests, replies, cancelled, lost>>

EntryInit ==
  /\ Init
  /\ caller \in {"exchange", "anyone"}
  /\ exch = [id \in Ids |-> [state |-> "none", qty |-> 0, filled |-> 0]]
  /\ requests = <<>> /\ replies = <<>>
  /\ cancelled = {}
  /\ lost = FALSE

------------------------------------------------------------------------------
\* new_order() and OrderGateway::send_order().
SendNew(qty) ==
  /\ NewOrder(0, qty)
  /\ requests' = Append(requests, [type |-> "new", id |-> Assigned(0), qty |-> qty])
  /\ UNCHANGED <<exch, replies, cancelled, lost>>

Refused ==
  /\ NewOrderRefused(0)
  /\ UNCHANGED <<exch, requests, replies, cancelled, lost>>

\* encode_cancel() and send_order(), at most once per order.
SendCancel(id) ==
  /\ id \notin cancelled
  /\ Encodable(id)
  /\ requests' = Append(requests, [type |-> "cancel", id |-> id])
  /\ cancelled' = cancelled \cup {id}
  /\ UNCHANGED <<omVars, exch, replies, lost>>

\* The exchange takes the next request and replies with r.
Answer(r) ==
  /\ requests' = Tail(requests)
  /\ replies' = replies \o r
  /\ UNCHANGED <<omVars, cancelled, lost>>

XNew(accept) ==
  /\ requests # <<>> /\ Head(requests).type = "new"
  /\ LET q == Head(requests)
     IN /\ exch' = [exch EXCEPT ![q.id] = [state |-> IF accept THEN "resting" ELSE "done",
                                           qty |-> q.qty, filled |-> 0]]
        /\ Answer(<<[type |-> IF accept THEN "ack" ELSE "reject", id |-> q.id]>>)

\* A cancel of an order that is gone is answered by kErrOrderNotFound, which
\* classify_error() says to ignore.
XCancel ==
  /\ requests # <<>> /\ Head(requests).type = "cancel"
  /\ LET id == Head(requests).id
     IN IF exch[id].state = "resting"
        THEN /\ exch' = [exch EXCEPT ![id].state = "done"]
             /\ Answer(<<[type |-> "cancelled", id |-> id]>>)
        ELSE Answer(<<>>) /\ UNCHANGED exch

XFill(id, qty) ==
  LET left == exch[id].qty - exch[id].filled - qty
  IN /\ exch[id].state = "resting"
     /\ left >= 0
     /\ exch' = [exch EXCEPT ![id].filled = @ + qty, ![id].state = IF left = 0 THEN "done" ELSE @]
     /\ replies' = Append(replies, [type |-> "fill", id |-> id, qty |-> qty, left |-> left])
     /\ UNCHANGED <<omVars, requests, cancelled, lost>>

\* poll_response() and the handler of the reply; a handler that returns false
\* changes nothing.
Handle(r) ==
  \/ r.type = "ack" /\ on_ack(r.id, r.id)
  \/ r.type = "ack" /\ (~ Holds(r.id) \/ table[Index(r.id)].state # "PendingNew") /\ UNCHANGED omVars
  \/ r.type = "reject" /\ on_reject(r.id)
  \/ r.type = "cancelled" /\ on_cancel_ack(r.id)
  \/ r.type = "fill" /\ on_fill(r.id, r.qty, r.left)
  \/ r.type # "ack" /\ ~ Holds(r.id) /\ UNCHANGED omVars

Receive ==
  /\ replies # <<>>
  /\ Handle(Head(replies))
  /\ replies' = Tail(replies)
  /\ UNCHANGED <<exch, requests, cancelled, lost>>

Disconnect ==
  /\ requests # <<>> \/ replies # <<>>
  /\ requests' = <<>> /\ replies' = <<>>
  /\ lost' = TRUE
  /\ UNCHANGED <<omVars, exch, cancelled>>

Exchanged ==
  \/ \E qty \in 1..MaxQty : SendNew(qty)
  \/ Refused
  \/ \E id \in Ids : SendCancel(id)
  \/ \E accept \in BOOLEAN : XNew(accept)
  \/ XCancel
  \/ \E id \in Ids, qty \in 1..MaxQty : XFill(id, qty)
  \/ Receive
  \/ Disconnect

EntryNext ==
  /\ UNCHANGED caller
  /\ \/ caller = "exchange" /\ Exchanged
     \/ caller = "anyone" /\ Next /\ UNCHANGED <<exch, requests, replies, cancelled, lost>>

EntrySpec == EntryInit /\ [][EntryNext]_entryVars

\* The client keeps polling for replies.
FairEntrySpec == EntrySpec /\ WF_entryVars(caller = "exchange" /\ Receive /\ UNCHANGED caller)

------------------------------------------------------------------------------
\* An order working at the exchange is in the table, live, even after a
\* disconnect lost replies: its slot is not released or given to another order.
NoOrphan ==
  \A id \in Ids : exch[id].state = "resting" => Holds(id) /\ table[Index(id)].occupied

\* With nothing lost or in flight, the table says of every order it holds what the
\* exchange says: working or not, and filled to the same quantity.
Agreement ==
  caller = "exchange" /\ ~ lost /\ requests = <<>> /\ replies = <<>> =>
    \A i \in Slots :
      LET o == table[i]
          x == exch[o.id]
      IN o.state # "Idle" =>
           /\ o.filled = x.filled
           /\ o.occupied <=> x.state = "resting"
           /\ o.state = "Filled" <=> x.filled = x.qty
           /\ x.state = "resting" => o.state = IF x.filled = 0 THEN "Acknowledged" ELSE "PartiallyFilled"

\* "Encode a cancel for a live, acknowledged order" (order_manager.hpp:129): as
\* long as no reply was lost, an order known to be working can be cancelled.
CanCancel ==
  caller = "exchange" /\ ~ lost => \A i \in Slots :
    table[i].occupied /\ table[i].state # "PendingNew" => Encodable(table[i].id)

\* The slot of an order that ended at the exchange is released, unless the reply
\* that says so was lost.
SlotReleased ==
  \A id \in Ids :
    exch[id].state = "done" /\ Holds(id) ~> lost \/ ~ (Holds(id) /\ table[Index(id)].occupied)
==============================================================================
