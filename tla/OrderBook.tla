------------------------------ MODULE OrderBook ------------------------------
(***************************************************************************)
(* One instrument's limit order book, src/src/order_book/order_book.hpp    *)
(* and price_level.hpp.  The handlers are functions from a book (a record  *)
(* of the fields of class OrderBook) to a book and a BookResult, so that   *)
(* other modules can hold one book per token; this module's own            *)
(* specification is a book that is handed any event at any time.           *)
(*                                                                         *)
(* The order table is the set of tracked orders that OrderTable shows it   *)
(* to be (a function from order number to record), with the two effects of *)
(* its bound: InsertOrder() fails when it is full, and EraseOrder() does   *)
(* not return then (`hung').                                               *)
(***************************************************************************)
EXTENDS Integers, Sequences, FiniteSets

CONSTANTS
  OrderNos,    \* order numbers (0 is none)
  Prices,      \* prices of events
  Qtys,        \* quantities of events
  Ticks,       \* tick sizes the book may be given; 0 is "unchecked"
  MaxLevels,   \* kMaxLevelsPerSide
  TableSize,   \* order_mask_ + 1
  MaxSeq,      \* bound on the sequence numbers of events and on gap_count_
  MaxCount     \* bound on the orders counted at one level

Sides == {"buy", "sell"}

\* Fields of MarketEvent, per message type; seq 0 is "unset".
Snap(seq, bid, ask) == [type |-> "snap", seq |-> seq, bid |-> bid, ask |-> ask]
Add(seq, no, side, price, qty) ==
  [type |-> "add", seq |-> seq, no |-> no, side |-> side, price |-> price, qty |-> qty]
Modify(seq, no, price, qty) ==
  [type |-> "modify", seq |-> seq, no |-> no, price |-> price, qty |-> qty]
Cancel(seq, no) == [type |-> "cancel", seq |-> seq, no |-> no]
Trade(seq, no, no2, qty) ==
  [type |-> "trade", seq |-> seq, no |-> no, no2 |-> no2, qty |-> qty]
Other(seq) == [type |-> "other", seq |-> seq]

NewBook(tick) ==
  [levels |-> [s \in Sides |-> <<>>],   \* bids_, asks_ up to their counts
   orders |-> [o \in {} |-> <<>>],      \* order number -> OrderRecord
   expected |-> 0, stale |-> FALSE, gaps |-> 0, tick |-> tick, hung |-> FALSE]

TickOk(b, price) == b.tick = 0 \/ price % b.tick = 0

------------------------------------------------------------------------------
\* Level arrays.  Does a sort strictly before price p?  Bids descend.
Before(side, a, p) == IF side = "buy" THEN a > p ELSE a < p

\* FindLevel(): index (from 0) of the level at this price, Len(ls) if none.
FindLevel(ls, side, price) ==
  LET search[lo \in 0..Len(ls), hi \in 0..Len(ls)] ==
        LET mid == (lo + hi) \div 2
        IN IF lo >= hi THEN Len(ls)
           ELSE IF ls[mid + 1].price = price THEN mid
           ELSE IF Before(side, ls[mid + 1].price, price) THEN search[mid + 1, hi]
           ELSE search[lo, mid]
  IN search[0, Len(ls)]

\* Mutant of InsertionPoint: both sides searched in descending order.
InsertionPointDescending(ls, side, price) ==
  Cardinality({i \in DOMAIN ls : ls[i].price > price})

\* InsertionPoint(): where a level at this price belongs.
InsertionPoint(ls, side, price) ==
  LET search[lo \in 0..Len(ls), hi \in 0..Len(ls)] ==
        LET mid == (lo + hi) \div 2
        IN IF lo >= hi THEN lo
           ELSE IF Before(side, ls[mid + 1].price, price) THEN search[mid + 1, hi]
           ELSE search[lo, mid]
  IN search[0, Len(ls)]

\* PriceLevel::add_order() and remove_order(), which clamps at zero.
add_order(l, qty) == [l EXCEPT !.qty = @ + qty, !.count = @ + 1]
remove_order(l, qty, drop) ==
  [l EXCEPT !.qty = IF @ < qty THEN 0 ELSE @ - qty,
            !.count = IF drop /\ @ > 0 THEN @ - 1 ELSE @]

NewLevel(price, qty) == add_order([price |-> price, qty |-> 0, count |-> 0], qty)

\* AddQtyToLevel(): a full array drops the worst level, or the new one.
AddQtyToLevel(ls, side, price, qty) ==
  LET i == FindLevel(ls, side, price)
      pos == InsertionPoint(ls, side, price)
      grown == SubSeq(ls, 1, pos) \o <<NewLevel(price, qty)>>
                 \o SubSeq(ls, pos + 1, Len(ls))
  IN IF i < Len(ls)
     THEN [ls EXCEPT ![i + 1] = add_order(@, qty)]
     ELSE IF Len(grown) <= MaxLevels THEN grown ELSE SubSeq(grown, 1, MaxLevels)

\* Mutant of RemoveQtyFromLevel: the level goes with its first order.
RemoveQtyFromLevelWhole(ls, side, price, qty, drop) ==
  LET i == FindLevel(ls, side, price)
  IN IF i >= Len(ls) THEN ls
     ELSE IF drop THEN SubSeq(ls, 1, i) \o SubSeq(ls, i + 2, Len(ls))
     ELSE [ls EXCEPT ![i + 1].qty = @ - qty]

\* RemoveQtyFromLevel(): a level without orders goes.
RemoveQtyFromLevel(ls, side, price, qty, drop) ==
  LET i == FindLevel(ls, side, price)
      left == remove_order(ls[i + 1], qty, drop)
  IN IF i >= Len(ls) THEN ls
     ELSE IF left.count = 0 THEN SubSeq(ls, 1, i) \o SubSeq(ls, i + 2, Len(ls))
     ELSE [ls EXCEPT ![i + 1] = left]

AddQty(b, side, price, qty) ==
  [b EXCEPT !.levels[side] = AddQtyToLevel(@, side, price, qty)]
RemoveQty(b, side, price, qty, drop) ==
  [b EXCEPT !.levels[side] = RemoveQtyFromLevel(@, side, price, qty, drop)]

------------------------------------------------------------------------------
\* The order table.
Full(b) == Cardinality(DOMAIN b.orders) = TableSize

InsertOrder(b, no, rec) ==
  [b EXCEPT !.orders = [o \in DOMAIN @ \cup {no} |-> IF o = no THEN rec ELSE @[o]]]

\* A full table has no free slot, where the loop of EraseOrder() would end.
EraseOrder(b, no) ==
  IF Full(b) THEN [b EXCEPT !.hung = TRUE]
  ELSE [b EXCEPT !.orders = [o \in DOMAIN @ \ {no} |-> @[o]]]

------------------------------------------------------------------------------
\* Handlers: what they leave the book as, and the BookResult.
clear(b) ==
  [b EXCEPT !.levels = [s \in Sides |-> <<>>], !.orders = [o \in {} |-> <<>>], !.stale = FALSE]

\* Mutant of Seed: the book stays stale.
SeedKeepsStale(b, ev) ==
  <<[clear(b) EXCEPT !.stale = b.stale, !.expected = IF ev.seq # 0 THEN ev.seq + 1 ELSE @], "Seeded">>

Seed(b, ev) ==
  LET side(q) == IF q.qty > 0 /\ TickOk(b, q.price)
                 THEN <<NewLevel(q.price, q.qty)>>
                 ELSE <<>>
      seeded == [clear(b) EXCEPT !.levels = [s \in Sides |-> side(IF s = "buy" THEN ev.bid ELSE ev.ask)],
                                 !.expected = IF ev.seq # 0 THEN ev.seq + 1 ELSE @]
  IN <<seeded, "Seeded">>

ApplyAdd(b, ev) ==
  IF ~ TickOk(b, ev.price) THEN <<b, "TickViolation">>
  ELSE IF ev.no \notin DOMAIN b.orders /\ Full(b) THEN <<b, "Full">>
  ELSE LET rec == [side |-> ev.side, price |-> ev.price, qty |-> ev.qty]
       IN <<AddQty(InsertOrder(b, ev.no, rec), ev.side, ev.price, ev.qty), "Ok">>

ApplyModify(b, ev) ==
  IF ~ TickOk(b, ev.price) THEN <<b, "TickViolation">>
  ELSE IF ev.no \notin DOMAIN b.orders THEN <<b, "UnknownOrder">>
  ELSE LET r == b.orders[ev.no]
           removed == RemoveQty(b, r.side, r.price, r.qty, TRUE)
           updated == [removed EXCEPT !.orders[ev.no].price = ev.price, !.orders[ev.no].qty = ev.qty]
       IN <<AddQty(updated, r.side, ev.price, ev.qty), "Ok">>

ApplyCancel(b, ev) ==
  IF ev.no \notin DOMAIN b.orders THEN <<b, "UnknownOrder">>
  ELSE LET r == b.orders[ev.no]
       IN <<EraseOrder(RemoveQty(b, r.side, r.price, r.qty, TRUE), ev.no), "Ok">>

\* Mutant of ReduceResting: a partial trade does not reduce the record.
ReduceRestingLevelOnly(b, no, traded) ==
  LET r == b.orders[no]
      fully == traded >= r.qty
      removed == RemoveQty(b, r.side, r.price, IF fully THEN r.qty ELSE traded, fully)
  IN IF b.hung \/ no \notin DOMAIN b.orders THEN b
     ELSE IF fully THEN EraseOrder(removed, no)
     ELSE removed

ReduceResting(b, no, traded) ==
  LET r == b.orders[no]
      fully == traded >= r.qty
      reduce == IF fully THEN r.qty ELSE traded
      removed == RemoveQty(b, r.side, r.price, reduce, fully)
  IN IF b.hung \/ no \notin DOMAIN b.orders THEN b
     ELSE IF fully THEN EraseOrder(removed, no)
     ELSE [removed EXCEPT !.orders[no].qty = @ - reduce]

ApplyTrade(b, ev) ==
  LET first == ReduceResting(b, ev.no, ev.qty)
      found == ev.no \in DOMAIN b.orders \/ ev.no2 \in DOMAIN first.orders
  IN <<ReduceResting(first, ev.no2, ev.qty), IF found THEN "Ok" ELSE "UnknownOrder">>

\* The sequence check at the head of apply_event().
IsGap(b, ev) == ev.seq # 0 /\ b.expected # 0 /\ ev.seq # b.expected

\* Mutant of CheckSeq: a gap is counted but does not mark the book stale.
CheckSeqSilent(b, ev) ==
  IF ev.seq = 0 THEN b
  ELSE IF IsGap(b, ev) THEN [b EXCEPT !.gaps = @ + 1, !.expected = ev.seq + 1]
  ELSE [b EXCEPT !.expected = ev.seq + 1]

\* Mutant of CheckSeq: an event in sequence ends the wait for a reseed.
CheckSeqForgives(b, ev) ==
  IF ev.seq = 0 THEN b
  ELSE IF IsGap(b, ev)
  THEN [b EXCEPT !.gaps = @ + 1, !.stale = TRUE, !.expected = ev.seq + 1]
  ELSE [b EXCEPT !.stale = FALSE, !.expected = ev.seq + 1]

CheckSeq(b, ev) ==
  IF ev.seq = 0 THEN b
  ELSE IF IsGap(b, ev)
  THEN [b EXCEPT !.gaps = @ + 1, !.stale = TRUE, !.expected = ev.seq + 1]
  ELSE [b EXCEPT !.expected = ev.seq + 1]

apply_event(b, ev) ==
  LET c == CheckSeq(b, ev)
  IN IF IsGap(b, ev) /\ ev.type # "snap" THEN <<c, "Gap">>
     ELSE CASE ev.type = "snap" -> Seed(c, ev)
            [] ev.type = "other" -> <<c, "Ok">>
            [] ev.type \notin {"snap", "other"} /\ c.stale -> <<c, "StaleDropped">>
            [] ev.type = "add" /\ ~ c.stale -> ApplyAdd(c, ev)
            [] ev.type = "modify" /\ ~ c.stale -> ApplyModify(c, ev)
            [] ev.type = "cancel" /\ ~ c.stale -> ApplyCancel(c, ev)
            [] ev.type = "trade" /\ ~ c.stale -> ApplyTrade(c, ev)

------------------------------------------------------------------------------
VARIABLE book

Quote == [price : Prices, qty : Qtys \cup {0}]

Init == \E tick \in Ticks : book = NewBook(tick)

Apply(ev) ==
  /\ ~ book.hung
  /\ book' = apply_event(book, ev)[1]

\* clear(), called on a reconnect.
Clear ==
  /\ ~ book.hung
  /\ book' = clear(book)

\* BookManager::add_token() on a watched token: set_tick_size().
SetTick(t) ==
  /\ ~ book.hung
  /\ book' = [book EXCEPT !.tick = t]

\* Any sequence number: unset, expected, ahead or behind; gap_count_ bounded.
Seqs == IF book.gaps < MaxSeq THEN 0..MaxSeq ELSE {0}

\* A repeated add of one order number counts at its level once more each time.
Countable(s, p) ==
  \A i \in DOMAIN book.levels[s] :
    book.levels[s][i].price = p => book.levels[s][i].count < MaxCount

Next ==
  \/ \E seq \in Seqs, bid, ask \in Quote : Apply(Snap(seq, bid, ask))
  \/ \E seq \in Seqs, no \in OrderNos, s \in Sides, p \in Prices, q \in Qtys :
        Countable(s, p) /\ Apply(Add(seq, no, s, p, q))
  \/ \E seq \in Seqs, no \in OrderNos, p \in Prices, q \in Qtys :
        (\A s \in Sides : Countable(s, p)) /\ Apply(Modify(seq, no, p, q))
  \/ \E seq \in Seqs, no \in OrderNos : Apply(Cancel(seq, no))
  \/ \E seq \in Seqs, no, no2 \in OrderNos \cup {0}, q \in Qtys : Apply(Trade(seq, no, no2, q))
  \/ \E seq \in Seqs : Apply(Other(seq))
  \/ Clear
  \/ \E t \in Ticks : SetTick(t)

Spec == Init /\ [][Next]_book

------------------------------------------------------------------------------
\* Whatever the events, duplicated, off-tick or unknown orders and evictions
\* included, both arrays stay within kMaxLevelsPerSide and strictly sorted, best
\* first: what FindLevel() and InsertionPoint() search by and what best_bid() and
\* best_ask() read.
LevelsSorted ==
  \A s \in Sides :
    /\ Len(book.levels[s]) <= MaxLevels
    /\ \A i, j \in DOMAIN book.levels[s] :
         i < j => Before(s, book.levels[s][i].price, book.levels[s][j].price)

\* "book marked stale, awaiting reseed" (order_book.hpp:30): from the gap until a
\* Snap Quote or clear(), which leave no tracked order, no event changes a level
\* or a tracked order.
StaleIsFrozen ==
  [][book.stale => \/ book'.stale /\ book'.levels = book.levels /\ book'.orders = book.orders
                   \/ ~ book'.stale /\ DOMAIN book'.orders = {}]_book
==============================================================================
