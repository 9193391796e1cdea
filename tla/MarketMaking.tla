----------------------------- MODULE MarketMaking -----------------------------
(***************************************************************************)
(* The market-making strategy, src/src/strategy/market_making.hpp, for one *)
(* token.  Handlers are functions from the strategy's fields to the new    *)
(* ones; `orders' and `cancels' are what get_pending_orders() and          *)
(* get_pending_cancels() return after on_book_update().  The strategy's    *)
(* own specification shows it any uncrossed market, fill, cancel and time. *)
(***************************************************************************)
EXTENDS QuotingMath, Sequences

CONSTANTS
  MaxPosLots, MaxSpreadTicks, QuoteTtl, QuoteLots, MaxInvSkew, MaxFlowSkew,
  MaxPending     \* kMaxPending

ASSUME StrategyAssumption ==
  /\ {MaxPosLots, MaxSpreadTicks, QuoteTtl} \subseteq Nat
  /\ {MaxInvSkew, MaxFlowSkew} \subseteq Int
  /\ QuoteLots \in Nat \ {0} /\ MaxPending \in Nat \ {0}

VARIABLE strat

Sides == {"buy", "sell"}
NoLevel == [price |-> 0, qty |-> 0]     \* best_bid() or best_ask() is null

NewStrategy ==
  [quotes |-> [s \in Sides |-> [active |-> FALSE, price |-> 0, ts |-> 0, id |-> 0]],
   position |-> 0, nextId |-> 1, orders |-> <<>>, cancels |-> <<>>]

------------------------------------------------------------------------------
CancelSide(m, s) ==
  IF ~ m.quotes[s].active THEN m
  ELSE [m EXCEPT !.quotes[s].active = FALSE,
                 !.cancels = IF Len(@) < MaxPending THEN Append(@, m.quotes[s].id) ELSE @]

\* EmitNew() and the new QuoteState: active whether or not there was room, and
\* before risk has seen the order.
EmitNew(m, s, price, qty, t) ==
  LET fits == Len(m.orders) < MaxPending
      order == [id |-> m.nextId, side |-> s, price |-> price, qty |-> qty]
  IN [m EXCEPT
        !.quotes[s] = [active |-> TRUE, price |-> price, ts |-> t,
                       id |-> IF fits THEN m.nextId ELSE 0],
        !.orders = IF fits THEN Append(@, order) ELSE @,
        !.nextId = IF fits THEN @ + 1 ELSE @]

\* now - cur_ts is unsigned: a clock behind the quote's makes it huge.
Expired(q, t) == t < q.ts \/ t - q.ts > QuoteTtl

\* Mutant of QuoteOneSide: a quote that may not be refreshed is left alone.
QuoteOneSideLeaves(m, s, desired, qty, allowed, t) ==
  LET q == m.quotes[s]
  IN IF ~ allowed \/ (q.active /\ q.price = desired /\ ~ Expired(q, t)) THEN m
     ELSE EmitNew(CancelSide(m, s), s, desired, qty, t)

\* Mutant of QuoteOneSide: a quote at its price is held whatever its age.
QuoteOneSideAgeless(m, s, desired, qty, allowed, t) ==
  LET q == m.quotes[s]
  IN IF ~ allowed THEN CancelSide(m, s)
     ELSE IF q.active /\ q.price = desired THEN m
     ELSE EmitNew(CancelSide(m, s), s, desired, qty, t)

QuoteOneSide(m, s, desired, qty, allowed, t) ==
  LET q == m.quotes[s]
  IN IF ~ allowed THEN CancelSide(m, s)
     ELSE IF q.active /\ q.price = desired /\ ~ Expired(q, t) THEN m
     ELSE EmitNew(CancelSide(m, s), s, desired, qty, t)

\* on_book_update() gets past its early returns.
Quotable(bid, ask, t) ==
  /\ ~ after_preclose(t) /\ is_within_market_hours(t)
  /\ bid # NoLevel /\ ask # NoLevel
  /\ ask.price - bid.price <= MaxSpreadTicks * TickSize

ComputeDesired(m, bid, ask) ==
  desired_quotes(bid, ask, TickSize, m.position, MaxPosLots * Lot, MaxInvSkew, MaxFlowSkew)

\* bid_ok and ask_ok.
SideOk(m, s, desired) ==
  LET netLots == Trunc(m.position, Lot)
  IN InBand(desired) /\ IF s = "buy" THEN netLots < MaxPosLots ELSE netLots > -MaxPosLots

on_book_update(m, bid, ask, t) ==
  LET fresh == [m EXCEPT !.orders = <<>>, !.cancels = <<>>]
      want == ComputeDesired(m, bid, ask)
      qty == QuoteLots * Lot
      half == QuoteOneSide(fresh, "buy", want.buy, qty, SideOk(m, "buy", want.buy), t)
  IN IF after_preclose(t) THEN CancelSide(CancelSide(fresh, "buy"), "sell")
     ELSE IF ~ Quotable(bid, ask, t) THEN fresh
     ELSE QuoteOneSide(half, "sell", want.sell, qty, SideOk(m, "sell", want.sell), t)

\* A fill of an order that is no longer the quote only moves the position.
strat_on_fill(m, f) ==
  [m EXCEPT !.position = @ + IF f.side = "buy" THEN f.qty ELSE -f.qty,
            !.quotes = [s \in Sides |-> IF @[s].id = f.id /\ f.remaining = 0
                                        THEN [@[s] EXCEPT !.active = FALSE] ELSE @[s]]]

\* on_cancel(): the first side whose active quote has this id.
on_cancel(m, id) ==
  LET hit(s) == m.quotes[s].active /\ m.quotes[s].id = id
  IN IF hit("buy") THEN [m EXCEPT !.quotes["buy"].active = FALSE]
     ELSE IF hit("sell") THEN [m EXCEPT !.quotes["sell"].active = FALSE]
     ELSE m

------------------------------------------------------------------------------
\* The best levels of a market that is not crossed, either of which may be missing.
BestLevel == [price : Int, qty : Nat \ {0}]
Uncrossed(bid, ask) == bid = NoLevel \/ ask = NoLevel \/ bid.price < ask.price

StratInit == strat = NewStrategy
StratNext ==
  \/ \E bid, ask \in BestLevel \cup {NoLevel}, t \in Nat \ {0} :
        Uncrossed(bid, ask) /\ strat' = on_book_update(strat, bid, ask, t)
  \/ \E id \in Nat, s \in Sides, qty, remaining \in Nat :
        strat' = strat_on_fill(strat, [id |-> id, side |-> s, qty |-> qty, remaining |-> remaining])
  \/ \E id \in Nat : strat' = on_cancel(strat, id)
StratSpec == StratInit /\ [][StratNext]_strat

------------------------------------------------------------------------------
\* The two quotes the strategy believes in never cross each other, although each
\* side is placed, kept, refreshed and pulled on its own (market_making.hpp:109-116),
\* fills end them one at a time and the skews move both: it never trades with
\* itself by its own account.
NoSelfCross ==
  strat.quotes["buy"].active /\ strat.quotes["sell"].active =>
    strat.quotes["buy"].price < strat.quotes["sell"].price
==============================================================================
