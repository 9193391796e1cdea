------------------------------ MODULE IrageStrat ------------------------------
(***************************************************************************)
(* The strategy of src/irage/mystrat.cpp on its platform.  Threads: SEND   *)
(* calls onMarketData(), RECV onAck(), onExec() and onRej(), UPDT update().*)
(* A call of onMarketData() is a pass.  It reads shared state and sends    *)
(* orders in steps of its own, one after the other for each symbol, and    *)
(* the other threads run between any two of them:                          *)
(*   "look"         the tick and the inventory: lines 155-219              *)
(*   "judge"        the reject counters: lines 224-231                     *)
(*   "buy", "sell"  one order of each side: lines 233-249, 111-121, 96     *)
(*                                                                         *)
(* The platform (ConnectImpl) is modelled from src/irage/mock, the         *)
(* exchange behind it is external.  A slot holds the order that works at   *)
(* the exchange (leaves 0: none) and the request in flight, if any:        *)
(*   NO_ORDER is no order, no request; UNACKED is request "N";             *)
(*   STANDING_ACKED is an order, no request; STANDING_UNACKED the rest.    *)
(* On RECV the platform first moves its slot and inventory and then calls  *)
(* the strategy, in a step of its own; it handles one answer at a time.    *)
(* Each pass reads a tick of the market chosen anew.  Left out: STOP mode, *)
(* in which the platform cancels; cash, fills and quote prices kept for    *)
(* display.                                                                *)
(***************************************************************************)
EXTENDS QuotingMath, Sequences

CONSTANTS
  Symbols,           \* sequence of symbols, syms[0 .. sym_count)
  Mticks,            \* ticks: [bid, ask], each [price, qty]; qty 0 is a null side
  DprRanges,         \* daily price ranges: [low, high]
  MaxInventory,      \* getMaxInventory(), in lots
  Knobs,             \* settings of the UI: [spread, inv, flow, lots]
  MaxRejects         \* kMaxConsecutiveRejects

ASSUME IrageAssumption ==
  /\ Len(Symbols) \in Nat \ {0} /\ DOMAIN Symbols = 1..Len(Symbols)
  /\ MaxRejects \in Nat \ {0} /\ MaxInventory \in Nat /\ Lot \in Nat
  /\ \A k \in Knobs : k.lots \in Nat

VARIABLES
  slots,       \* orders_ of the platform: symbol -> side -> slot
  inventory,   \* getInventory()
  dpr,         \* getDprLow(), getDprHigh(): today's range
  rejects,     \* rejects_buy, rejects_sell: symbol -> side -> count
  report,      \* the callback that RECV is about to call
  killed,
  knobs,       \* max_spread_ticks, inv_skew_ticks, flow_skew_ticks, quote_lots
  preclose,    \* IstSecondsOfDay() >= preclose_ist_sod
  pass,        \* the pass under way: [mode, next, opsOk, at, plan]
  sinceKill    \* quotes sent since the kill switch was thrown (observes)

sendVars == <<slots, pass, sinceKill>>
recvVars == <<inventory, rejects, report>>
updtVars == <<killed, knobs>>
dayVars == <<dpr, preclose>>
vars == <<sendVars, recvVars, updtVars, dayVars>>

Sides == {"buy", "sell"}
Syms == {Symbols[i] : i \in DOMAIN Symbols}
Standing(p, l) == [price |-> p, leaves |-> l, req |-> "none", reqPrice |-> 0, reqQty |-> 0]
NoSlot == Standing(0, 0)
NoReport == [kind |-> "none", sym |-> Symbols[1], side |-> "buy"]

\* What a pass is going to do with a side.
Quote(price, qty) == [act |-> "quote", price |-> price, qty |-> qty]
Cancel == [act |-> "cancel", price |-> 0, qty |-> 0]
Leave == [act |-> "leave", price |-> 0, qty |-> 0]
Both(p) == [d \in Sides |-> p]

\* A pass about to begin with symbol i: CancelAll() has nothing to look at.
At(mode, i, ops) ==
  [mode |-> mode, next |-> i, opsOk |-> ops,
   at |-> IF mode = "sweep" THEN "buy" ELSE "look",
   plan |-> Both(IF mode = "sweep" THEN Cancel ELSE Leave)]
Idle == At("idle", 1, TRUE)

Init ==
  /\ slots = [s \in Syms |-> Both(NoSlot)]
  /\ inventory = [s \in Syms |-> 0]
  /\ rejects = [s \in Syms |-> Both(0)] /\ report = NoReport
  /\ killed = FALSE /\ preclose = FALSE /\ knobs \in Knobs /\ dpr \in DprRanges
  /\ pass = Idle /\ sinceKill = 0

------------------------------------------------------------------------------
\* sendOrder(): NEW, RPL or CXL by the slot; E_NO_ACK while a request is in
\* flight, E_SAME_ORD for moves below a tick.
sendOrder(o, price, qty) ==
  LET req(r) == [price |-> o.price, leaves |-> o.leaves,
                 req |-> r, reqPrice |-> price, reqQty |-> qty]
      moved == price - o.price >= TickSize \/ o.price - price >= TickSize
  IN IF o.req # "none" THEN o
     ELSE IF price = 0 \/ qty = 0 THEN IF o.leaves = 0 THEN o ELSE req("X")
     ELSE IF o.leaves = 0 THEN req("N")
     ELSE IF moved THEN req("R") ELSE o

\* Mutant of CancelSide: a partly filled order is left to finish.
CancelSideWhole(o) == IF o.leaves < knobs.lots * Lot THEN o ELSE sendOrder(o, 0, 0)

\* CancelSide(): getStandingOrder() is true of unacknowledged orders too.  Only
\* this thread sends, so what RECV does between the two calls might as well
\* have happened before both.
CancelSide(o) == IF o.leaves = 0 /\ o.req = "none" THEN o ELSE sendOrder(o, 0, 0)

\* QuoteSide(): a refusal by the platform is tried again by the next pass.
QuoteSide(o, price, qty) == sendOrder(o, price, qty)

------------------------------------------------------------------------------
\* Mutant of Begin: the kill switch is not looked at.
BeginUnkilled ==
  /\ pass.mode = "idle"
  /\ IF preclose THEN pass' = At("sweep", 1, TRUE)
     ELSE \E ops \in BOOLEAN : pass' = At("quote", 1, ops)
  /\ UNCHANGED <<slots, sinceKill, recvVars, updtVars, dayVars>>

\* onMarketData(), up to the loop.
Begin ==
  /\ pass.mode = "idle"
  /\ IF killed \/ preclose THEN pass' = At("sweep", 1, TRUE)
     ELSE \E ops \in BOOLEAN : pass' = At("quote", 1, ops)
  /\ UNCHANGED <<slots, sinceKill, recvVars, updtVars, dayVars>>

\* Is there a daily price range?  And a maximum position, in units.
DprKnown == dpr.high > 0 /\ dpr.high > dpr.low
MaxUnits == MaxInventory * Lot

\* Mutant of DprClamp: prices are rounded down on both sides.
DprClampDown(d, price) ==
  IF ~ DprKnown THEN price
  ELSE IF d = "buy" /\ price < dpr.low THEN (dpr.low \div TickSize) * TickSize
  ELSE IF d = "sell" /\ price > dpr.high THEN (dpr.high \div TickSize) * TickSize
  ELSE price

\* The price of a side snapped into the daily price range, on the tick grid.
DprClamp(d, price) ==
  IF ~ DprKnown THEN price
  ELSE IF d = "buy" /\ price < dpr.low
       THEN ((dpr.low + TickSize - 1) \div TickSize) * TickSize
  ELSE IF d = "sell" /\ price > dpr.high THEN (dpr.high \div TickSize) * TickSize
  ELSE price

\* Mutant of Allowed: quoting goes on at the maximum position.
AllowedAtMax(d, price, position) ==
  /\ DprKnown => IF d = "buy" THEN price <= dpr.high ELSE price >= dpr.low
  /\ MaxUnits > 0 => IF d = "buy" THEN position <= MaxUnits ELSE position >= -MaxUnits

\* bid_ok and ask_ok up to the position gates: a price that rounding took out of
\* the range again is dropped.
Allowed(d, price, position) ==
  /\ DprKnown => IF d = "buy" THEN price <= dpr.high ELSE price >= dpr.low
  /\ MaxUnits > 0 => IF d = "buy" THEN position < MaxUnits ELSE position > -MaxUnits

\* A null tick, and the spread guard.
Pulled(t) ==
  \/ t.bid.qty <= 0 \/ t.ask.qty <= 0
  \/ t.ask.price - t.bid.price > knobs.spread * TickSize

\* The plan for a side by the tick and the position; the quantity comes later.
Plan(t, d, position) ==
  LET price == DprClamp(d, desired_quotes(t.bid, t.ask, TickSize, position, MaxUnits,
                                          knobs.inv, knobs.flow)[d])
  IN IF Allowed(d, price, position) THEN Quote(price, 0) ELSE Cancel

\* The loop body up to the position gates: pull both sides, or plan them by the
\* inventory of this moment.
Look(t) ==
  LET s == Symbols[pass.next]
  IN /\ pass.mode = "quote" /\ pass.at = "look"
     /\ pass' = IF Pulled(t) THEN [pass EXCEPT !.at = "buy", !.plan = Both(Cancel)]
                ELSE [pass EXCEPT !.at = "judge",
                                  !.plan = [d \in Sides |-> Plan(t, d, inventory[s])]]
     /\ UNCHANGED <<slots, sinceKill, recvVars, updtVars, dayVars>>

\* Mutant of Judged: one reject more than the maximum.
JudgedLate(p, n) ==
  IF p.act # "quote" \/ n > MaxRejects THEN Cancel
  ELSE IF pass.opsOk THEN Quote(p.price, knobs.lots * Lot) ELSE Leave

\* A side's plan p given its n rejects: quote it, leave it for want of messages,
\* or cancel it.
Judged(p, n) ==
  IF p.act # "quote" \/ n >= MaxRejects THEN Cancel
  ELSE IF pass.opsOk THEN Quote(p.price, knobs.lots * Lot) ELSE Leave

\* The reject backoff, by the counters of this moment, and the quantity.
Judge ==
  LET s == Symbols[pass.next]
  IN /\ pass.at = "judge"
     /\ pass' = [pass EXCEPT !.at = "buy",
                    !.plan = [d \in Sides |-> Judged(pass.plan[d], rejects[s][d])]]
     /\ UNCHANGED <<slots, sinceKill, recvVars, updtVars, dayVars>>

\* One side is sent, cancelled or left, by the slot of this moment; after the
\* second the loop goes on to the next symbol, or the pass ends.
Act ==
  LET s == Symbols[pass.next]
      d == pass.at
      p == pass.plan[d]
      o == slots[s][d]
      new == IF p.act = "cancel" THEN CancelSide(o)
             ELSE IF p.act = "quote" THEN QuoteSide(o, p.price, p.qty) ELSE o
  IN /\ pass.at \in Sides
     /\ slots' = [slots EXCEPT ![s][d] = new]
     /\ sinceKill' = IF killed /\ o.req = "none" /\ new.req \in {"N", "R"}
                     THEN sinceKill + 1 ELSE sinceKill
     /\ pass' = IF d = "buy" THEN [pass EXCEPT !.at = "sell", !.plan[d] = Leave]
                ELSE IF pass.next = Len(Symbols) THEN Idle
                ELSE At(pass.mode, pass.next + 1, pass.opsOk)
     /\ UNCHANGED <<recvVars, updtVars, dayVars>>

------------------------------------------------------------------------------
\* The platform handles an answer of the exchange about a side, whose slot becomes
\* `to', and is about to call the strategy.
Answer(s, d, to, kind) ==
  /\ report = NoReport
  /\ slots' = [slots EXCEPT ![s][d] = to]
  /\ report' = IF kind = "cxl" THEN NoReport ELSE [kind |-> kind, sym |-> s, side |-> d]
  /\ UNCHANGED <<pass, sinceKill, rejects, updtVars, dayVars>>

\* An order filled to the end while a replace was in flight is not there to be
\* replaced.  onCxl() does nothing.
Accept(s, d) ==
  LET o == slots[s][d]
  IN /\ UNCHANGED inventory
     /\ \/ o.req = "X" /\ Answer(s, d, NoSlot, "cxl")
        \/ /\ o.req = "N" \/ (o.req = "R" /\ o.leaves > 0)
           /\ Answer(s, d, Standing(o.reqPrice, o.reqQty), "ack")

\* A standing order stays.
Refuse(s, d) ==
  LET o == slots[s][d]
  IN /\ UNCHANGED inventory
     /\ o.req \in {"N", "R"}
     /\ Answer(s, d, IF o.leaves = 0 THEN NoSlot ELSE Standing(o.price, o.leaves), "rej")

\* The platform keeps the inventory.
Fill(s, d, qty) ==
  LET o == slots[s][d]
      left == [price |-> o.price, leaves |-> o.leaves - qty,
               req |-> o.req, reqPrice |-> o.reqPrice, reqQty |-> o.reqQty]
  IN /\ qty \in 1..o.leaves
     /\ inventory' = [inventory EXCEPT ![s] = @ + IF d = "buy" THEN qty ELSE -qty]
     /\ Answer(s, d, IF left.leaves = 0 /\ o.req = "none" THEN NoSlot ELSE left, "exec")

\* The callback has set the count of rejects of the side to n.
Called(n) ==
  /\ rejects' = [rejects EXCEPT ![report.sym][report.side] = n]
  /\ report' = NoReport
  /\ UNCHANGED <<sendVars, inventory, updtVars, dayVars>>

onAck == report.kind = "ack" /\ Called(0)
onExec == report.kind = "exec" /\ Called(0)

\* onRplRej() and onLighteningRej() too.
onRej == report.kind = "rej" /\ Called(rejects[report.sym][report.side] + 1)

\* update(), on the UPDT thread: any of the settings.  Each is read once per
\* symbol, so a call that overlaps a pass is two calls around it.
update(on, k) ==
  /\ killed' = on /\ knobs' = k
  /\ sinceKill' = IF on /\ killed THEN sinceKill ELSE 0
  /\ UNCHANGED <<slots, pass, recvVars, dayVars>>

\* 15:25 passes, or a new day begins.
Clock ==
  /\ preclose' = ~ preclose
  /\ UNCHANGED <<dpr, sendVars, recvVars, updtVars>>

Send == Begin \/ (\E t \in Mticks : Look(t)) \/ Judge \/ Act
Callback == onAck \/ onExec \/ onRej

Next ==
  \/ Send \/ Callback
  \/ \E s \in Syms, d \in Sides :
       \/ Accept(s, d) \/ Refuse(s, d)
       \/ \E qty \in 1..slots[s][d].leaves : Fill(s, d, qty)
  \/ \E on \in BOOLEAN, k \in Knobs : update(on, k)
  \/ Clock

\* The platform calls onMarketData() again and again, the exchange answers, and
\* the RECV thread goes on.
Fairness ==
  /\ WF_vars(Send) /\ WF_vars(Callback)
  /\ \A s \in Syms, d \in Sides : WF_vars(Accept(s, d) \/ Refuse(s, d))

Spec == Init /\ [][Next]_vars /\ Fairness

------------------------------------------------------------------------------
\* "Kill switch: cancel all, stop quoting" and "From 15:25 IST all orders are
\* cancelled" (irage/README.md:40-41): if the switch stays thrown, or the close
\* stays, then no order works or is in flight any more, although a cancel is
\* refused while a request is unanswered and is only tried again by the next pass.
SweepCompletes ==
  <>[](killed \/ preclose) =>
    <>[](\A s \in Syms, d \in Sides : slots[s][d] = NoSlot)

\* After the switch is thrown only the pass that had already looked at it still
\* quotes, at most two messages per symbol (mystrat.cpp:135).
KillLag == killed => sinceKill <= 2 * Len(Symbols)

\* The position gates read an inventory that fills change at any moment
\* (mystrat.cpp:177, 212-219), and the order is sent by a slot that has changed
\* since (line 96).  Even so a side overshoots the maximum by less than three
\* quotes of the largest size q: what was left of an order, the replace of it that
\* was in flight at the look, and the new order sent after both have traded.
InventoryBound ==
  MaxUnits > 0 =>
    \A q \in {k.lots * Lot : k \in Knobs} :
      q > 0 /\ (\A k \in Knobs : k.lots * Lot <= q) =>
        \A s \in Syms : /\ inventory[s] <= MaxUnits + 3 * q - 2
                        /\ -inventory[s] <= MaxUnits + 3 * q - 2

\* Reject backoff (mystrat.cpp:221-229): the side that has had its maximum of
\* rejects gets at most two more, because a quote may be in flight and a reject
\* before it not yet counted when the counter is read, and the side is sent after
\* that.  So the stop that the comment and irage/README.md:38 promise comes late.
RejectsBounded == \A s \in Syms, d \in Sides : rejects[s][d] <= MaxRejects + 2

\* "Quotes snapped into [getDprLow, getDprHigh]" (irage/README.md:36): every quote
\* sent has a price inside, on the tick grid, also when the range is not on it or
\* has no price of the grid at all.
SentInDpr ==
  DprKnown =>
    \A s \in Syms, d \in Sides : slots[s][d].req \in {"N", "R"} =>
      /\ slots[s][d].reqPrice \in dpr.low..dpr.high
      /\ slots[s][d].reqPrice % TickSize = 0
==============================================================================
