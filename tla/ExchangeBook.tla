---------------------------- MODULE ExchangeBook -----------------------------
(***************************************************************************)
(* The book of one token beside the exchange whose orders it mirrors.  The *)
(* exchange (external) numbers every message of the stream; a message is   *)
(* applied to the book at once or lost.  Order numbers are not reused.     *)
(***************************************************************************)
EXTENDS OrderBook, FiniteSetsExt

CONSTANTS
  MayLose,     \* can messages be lost?
  MaySnap      \* does the exchange send Snap Quotes?

VARIABLES
  resting,     \* the exchange's resting orders: order number -> record
  used,        \* order numbers used so far
  sent,        \* sequence number of the last message
  whole        \* the book joined at message 1 and has not been reseeded

vars == <<book, resting, used, sent, whole>>

Tick == CHOOSE t \in Ticks : TRUE

XInit ==
  /\ book = NewBook(Tick)
  /\ resting = [o \in {} |-> <<>>]
  /\ used = {}
  /\ sent = 0
  /\ whole = TRUE

RestingAt(s, p) == {o \in DOMAIN resting : resting[o].side = s /\ resting[o].price = p}
RestingPrices(s) == {resting[o].price : o \in {x \in DOMAIN resting : resting[x].side = s}}
QtyAt(s, p) == MapThenSumSet(LAMBDA o : resting[o].qty, RestingAt(s, p))

\* The exchange's book of a side: price-sorted, aggregated.
ExchangeLevels(s) ==
  LET ps == RestingPrices(s)
      nth(i) == CHOOSE p \in ps : Cardinality({q \in ps : Before(s, q, p)}) = i - 1
  IN [i \in 1..Cardinality(ps) |->
        [price |-> nth(i), qty |-> QtyAt(s, nth(i)), count |-> Cardinality(RestingAt(s, nth(i)))]]

Best(s) == IF ExchangeLevels(s) = <<>> THEN [price |-> 0, qty |-> 0]
           ELSE [price |-> ExchangeLevels(s)[1].price, qty |-> ExchangeLevels(s)[1].qty]

\* The message ev reaches the book, or is lost on the way.
Deliver(ev) ==
  /\ book' = apply_event(book, ev)[1]
  /\ whole' = (whole /\ ev.type # "snap" /\ (book.expected # 0 \/ ev.seq = 1))

Publish(ev) ==
  /\ ~ book.hung
  /\ sent' = sent + 1
  /\ Deliver(ev) \/ (MayLose /\ UNCHANGED <<book, whole>>)

With(o, rec) == [x \in DOMAIN resting \cup {o} |-> IF x = o THEN rec ELSE resting[x]]
Without(o) == [x \in DOMAIN resting \ {o} |-> resting[x]]

XAdd(o, s, p, q) ==
  /\ o \notin used
  /\ used' = used \cup {o}
  /\ resting' = With(o, [side |-> s, price |-> p, qty |-> q])
  /\ Publish(Add(sent + 1, o, s, p, q))

XModify(o, p, q) ==
  /\ o \in DOMAIN resting
  /\ resting' = [resting EXCEPT ![o].price = p, ![o].qty = q]
  /\ Publish(Modify(sent + 1, o, p, q))
  /\ UNCHANGED used

XCancel(o) ==
  /\ o \in DOMAIN resting
  /\ resting' = Without(o)
  /\ Publish(Cancel(sent + 1, o))
  /\ UNCHANGED used

\* A trade of q between a buy and a sell; 0 stands for an order that never rested.
Filled(r, o, q) ==
  IF o = 0 THEN r
  ELSE IF r[o].qty = q THEN [x \in DOMAIN r \ {o} |-> r[x]]
  ELSE [r EXCEPT ![o].qty = @ - q]

XTrade(b, a, q) ==
  /\ b # 0 \/ a # 0
  /\ b # 0 => b \in DOMAIN resting /\ resting[b].side = "buy" /\ resting[b].qty >= q
  /\ a # 0 => a \in DOMAIN resting /\ resting[a].side = "sell" /\ resting[a].qty >= q
  /\ b # 0 /\ a # 0 => resting[b].price >= resting[a].price
  /\ resting' = Filled(Filled(resting, b, q), a, q)
  /\ Publish(Trade(sent + 1, b, a, q))
  /\ UNCHANGED used

XSnap ==
  /\ MaySnap
  /\ Publish(Snap(sent + 1, Best("buy"), Best("sell")))
  /\ UNCHANGED <<resting, used>>

XOther ==
  /\ Publish(Other(sent + 1))
  /\ UNCHANGED <<resting, used>>

XNext ==
  /\ sent < MaxSeq
  /\ \/ \E o \in OrderNos, s \in Sides, p \in Prices, q \in Qtys : XAdd(o, s, p, q)
     \/ \E o \in OrderNos, p \in Prices, q \in Qtys : XModify(o, p, q)
     \/ \E o \in OrderNos : XCancel(o)
     \/ \E b, a \in OrderNos \cup {0}, q \in Qtys : XTrade(b, a, q)
     \/ XSnap
     \/ XOther

XSpec == XInit /\ [][XNext]_vars

------------------------------------------------------------------------------
\* The book has everything the exchange has sent, as far as it can tell.
UpToDate == ~ book.stale /\ ~ book.hung /\ book.expected = sent + 1

\* A book followed from its first message, through adds, modifies, partial and
\* full trades and cancels, is the exchange's book, level for level; one that
\* missed a message knows it (stale) from the next message on.
MirrorsExchange ==
  UpToDate /\ whole => \A s \in Sides : book.levels[s] = ExchangeLevels(s)

\* total_quantity is the "Sum of all resting order quantities here"
\* (price_level.hpp:14) at every level of a book that is up to date.
LevelIsRestingSum ==
  UpToDate =>
    \A s \in Sides : \A i \in DOMAIN book.levels[s] :
      book.levels[s][i].qty = QtyAt(s, book.levels[s][i].price)

\* After any history of losses and reseeds, the orders the book tracks are
\* orders the exchange has, with their price and quantity.
TrackedAreResting ==
  UpToDate =>
    \A o \in DOMAIN book.orders : o \in DOMAIN resting /\ book.orders[o] = resting[o]

\* A book that never overflows shows every tracked order at its level: the level
\* exists and has at least the tracked quantity and number of orders.
TrackedAreShown ==
  LET at(s, p) == {o \in DOMAIN book.orders : book.orders[o].side = s /\ book.orders[o].price = p}
  IN ~ book.hung =>
       \A s \in Sides, p \in {book.orders[o].price : o \in DOMAIN book.orders} : at(s, p) # {} =>
         \E i \in DOMAIN book.levels[s] :
           /\ book.levels[s][i].price = p
           /\ book.levels[s][i].qty >= MapThenSumSet(LAMBDA o : book.orders[o].qty, at(s, p))
           /\ book.levels[s][i].count >= Cardinality(at(s, p))
==============================================================================
