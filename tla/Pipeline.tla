------------------------------- MODULE Pipeline -------------------------------
(***************************************************************************)
(* src/src/pipeline.hpp: event -> order book -> strategy -> risk -> order  *)
(* manager, for the watched token, composed of the modules of those parts. *)
(* process() is one step up to the orders of the strategy, then two per    *)
(* order, as the kill switch is another thread's.                          *)
(*                                                                         *)
(* `driver' says who calls it: "live", a venue (external) that fills what  *)
(* it was sent in any order and any parts, on a real clock; or "backtest", *)
(* module Backtest.  Nobody takes get_pending_cancels(): a superseded      *)
(* order stays at the venue.                                               *)
(***************************************************************************)
EXTENDS RiskManager, MarketMaking, FiniteSets

CONSTANTS
  Drivers,      \* which drivers to start
  BookQuotes,   \* <<bid, ask>> of the Snap Quotes: [price, qty], qty 0 if none
  OmSlots,      \* kOrderTableSize
  Cap, MaxLots,   \* max_orders_per_sec (see RiskManager), max_token_position_lots
  MaxEvents,    \* bound on market events, by driver
  Times         \* what the clock may show

VARIABLES
  driver, pc,
  ev, seen,     \* the event being processed; the last sequence number
  book, table, nextId, live,
  pending,      \* orders that process() has still to gate
  sent,         \* sent_orders_[0 .. sent_count_)
  resting,      \* at the venue: id -> [side, price, leaves, cancel]
  executed      \* position and cash as the venue (the backtest) has them

\* Of both modules only the handlers are used, none of which looks at the bounds.
OB == INSTANCE OrderBook WITH
        OrderNos <- {}, Prices <- {}, Qtys <- {}, Ticks <- {}, MaxLevels <- 1,
        TableSize <- 1, MaxSeq <- 0, MaxCount <- 0
OM == INSTANCE OrderManager WITH TableSize <- OmSlots, MaxId <- 0, MaxQty <- 0, MaxFilled <- 0

flowVars == <<ev, seen, book, pending, sent, resting, executed, driver>>
pipeVars == <<riskVars, strat, table, nextId, live, flowVars, pc>>

best(b, s) ==
  IF b.levels[s] = <<>> THEN NoLevel
  ELSE [price |-> b.levels[s][1].price, qty |-> b.levels[s][1].qty]

\* More orders and lots than there can be: run_backtest() does not throttle.
Unlimited == 2 * MaxEvents[driver] * Cost * QuoteLots * Lot

\* A backtest is at 10:00 all the time.
Quoting(t) == is_within_market_hours(t) /\ ~ after_preclose(t)

\* Unused slots of the table hold no id that was sent.
PipeInit ==
  /\ driver \in Drivers
  /\ risk = IF driver = "live" THEN NewRisk(Cap, MaxLots) ELSE NewRisk(Unlimited, Unlimited)
  /\ checking = NoOrder /\ approved = <<>> /\ afterKill = 0
  /\ now \in Times
  /\ driver = "backtest" => Quoting(now)
  /\ strat = NewStrategy
  /\ table = [i \in OM!Slots |-> [id |-> 0, qty |-> 0, state |-> "Idle", exNo |-> 0,
                                  filled |-> 0, occupied |-> FALSE]]
  /\ nextId = 1 /\ live = 0
  /\ book = OB!NewBook(TickSize) /\ ev = OB!Other(0) /\ seen = 0
  /\ pending = <<>> /\ sent = <<>> /\ pc = "idle"
  /\ resting = [id \in {} |-> <<>>]
  /\ executed = [position |-> 0, cash |-> 0]

------------------------------------------------------------------------------
\* What follows process(): the backtest registers last_sent().
Returned == IF driver = "backtest" THEN "register" ELSE "idle"

\* process(), up to the orders of the strategy.  sent_count_ is reset only when
\* there are any.
Process ==
  /\ pc = "feed"
  /\ book' = OB!apply_event(book, ev)[1]
  /\ LET bid == best(book', "buy")
         ask == best(book', "sell")
     IN /\ risk' = update_reference(risk, bid.price, ask.price)
        /\ strat' = on_book_update(strat, bid, ask, now)
  /\ pending' = strat'.orders
  /\ IF strat'.orders = <<>>
     THEN pc' = Returned /\ UNCHANGED sent
     ELSE pc' = "gate" /\ sent' = <<>>
  /\ UNCHANGED <<now, checking, approved, afterKill, table, nextId, live,
                 ev, seen, resting, executed, driver>>

\* The loop over the orders goes on, or process() returns.
NextOrder ==
  /\ pending' = Tail(pending)
  /\ pc' = IF Len(pending) = 1 THEN Returned ELSE "gate"

GateStart ==
  /\ pc = "gate"
  /\ CheckStart(Head(pending))
  /\ UNCHANGED <<strat, table, nextId, live, flowVars, pc>>

GateReject ==
  /\ pc = "gate"
  /\ \/ checking = NoOrder /\ Killed(risk) /\ UNCHANGED riskVars
     \/ CheckInvalid
     \/ CheckLimited
  /\ NextOrder
  /\ UNCHANGED <<strat, table, nextId, live, ev, seen, book, sent, resting, executed, driver>>

\* Approved: new_order() takes it, and it goes to the venue, or refuses it.
GateApprove ==
  /\ pc = "gate"
  /\ CheckApprove
  /\ LET o == checking
     IN \/ /\ OM!NewOrder(o.id, o.qty)
           /\ sent' = Append(sent, o)
           /\ resting' = [id \in DOMAIN resting \cup {o.id} |->
                            IF id = o.id THEN [side |-> o.side, price |-> o.price,
                                               leaves |-> o.qty, cancel |-> FALSE]
                            ELSE resting[id]]
        \/ OM!NewOrderRefused(o.id) /\ UNCHANGED <<sent, resting>>
  /\ NextOrder
  /\ UNCHANGED <<strat, ev, seen, book, executed, driver>>

\* Mutant of on_fill: risk does not hear of a fill of a superseded order.
FillOfQuoteOnly(f) ==
  /\ strat' = strat_on_fill(strat, f)
  /\ risk' = IF \E s \in Sides : strat.quotes[s].id = f.id THEN risk_on_fill(risk, f) ELSE risk
  /\ OM!on_fill(f.id, f.qty, f.remaining)

\* Pipeline::on_fill().
on_fill(f) ==
  /\ strat' = strat_on_fill(strat, f)
  /\ risk' = risk_on_fill(risk, f)
  /\ OM!on_fill(f.id, f.qty, f.remaining) \/ (~ OM!Holds(f.id) /\ UNCHANGED <<table, nextId, live>>)

\* The execution of a fill at the venue.
Execute(f) ==
  executed' = [position |-> executed.position + Signed(f.side, f.qty),
               cash |-> executed.cash - Signed(f.side, f.qty) * f.price]

------------------------------------------------------------------------------
\* The live driver.  An event of the feed, perhaps after the loss of one.
Receive(e) ==
  /\ driver = "live" /\ pc = "idle" /\ e.seq <= MaxEvents[driver]
  /\ ev' = e /\ seen' = e.seq /\ pc' = "feed"
  /\ UNCHANGED <<riskVars, strat, table, nextId, live, book, pending, sent, resting,
                 executed, driver>>

\* The venue fills a resting order, in whole or in part.
VenueFill(id, qty) ==
  LET r == resting[id]
      left == r.leaves - qty
      f == [id |-> id, side |-> r.side, price |-> r.price, qty |-> qty, remaining |-> left]
  IN /\ driver = "live" /\ pc = "idle" /\ left >= 0
     /\ on_fill(f) /\ Execute(f)
     /\ resting' = [i \in IF left = 0 THEN DOMAIN resting \ {id} ELSE DOMAIN resting |->
                      IF i = id THEN [r EXCEPT !.leaves = left] ELSE resting[i]]
     /\ UNCHANGED <<now, checking, approved, afterKill, ev, seen, book, pending, sent, driver, pc>>

\* The clock moves between calls; a real one may be stepped back.
Clock ==
  /\ driver = "live" /\ pc = "idle"
  /\ \E t \in Times : SetNow(t)
  /\ UNCHANGED <<strat, table, nextId, live, flowVars, pc>>

KillThread ==
  /\ driver = "live"
  /\ \E on \in BOOLEAN : set_kill_switch(on)
  /\ UNCHANGED <<strat, table, nextId, live, flowVars, pc>>

PipeNext ==
  \/ \E q \in BookQuotes : Receive(OB!Snap(seen + 1, q[1], q[2]))
  \/ \E lost \in 0..1 : Receive(OB!Trade(seen + 1 + lost, 0, 0, 1))
  \/ Process \/ GateStart \/ GateReject \/ GateApprove
  \/ \E id \in DOMAIN resting, qty \in 1..(QuoteLots * Lot) : VenueFill(id, qty)
  \/ Clock \/ KillThread

PipeSpec == PipeInit /\ [][PipeNext]_pipeVars

------------------------------------------------------------------------------
\* Strategy, risk and venue agree on position and cash after any fills, those of
\* superseded orders included, which no quote of the strategy names any more: the
\* three keep their own count (pipeline.hpp:107-111) and gate on it.
BooksBalance ==
  /\ strat.position = executed.position
  /\ risk.position = executed.position
  /\ risk.cash = executed.cash

\* An order that is at the venue is in the order manager's table, with what was
\* filled so far: no later order, although superseded ones pile up as their
\* cancels are not sent, ever takes its slot.
NoneForgotten ==
  driver = "live" =>
    \A id \in DOMAIN resting :
      /\ OM!Holds(id) /\ table[OM!Index(id)].occupied
      /\ table[OM!Index(id)].filled + resting[id].leaves = table[OM!Index(id)].qty

\* Once on_book_update() has looked at a quotable market, an active quote has the
\* price the market, inventory and flow ask for and is at most quote_ttl_ns old.
\* So a quote whose order risk or the order manager refused, which the strategy
\* believes active (market_making.hpp:264-267), is tried again when it expires.
QuotesFresh ==
  [][pc = "feed" /\ pc' # "feed" /\ Quotable(best(book', "buy"), best(book', "sell"), now) =>
       \A s \in Sides : strat'.quotes[s].active =>
         /\ strat'.quotes[s].price = ComputeDesired(strat, best(book', "buy"), best(book', "sell"))[s]
         /\ now - strat'.quotes[s].ts \in 0..QuoteTtl]_pipeVars
==============================================================================
