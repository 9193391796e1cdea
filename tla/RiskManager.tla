----------------------------- MODULE RiskManager ------------------------------
(***************************************************************************)
(* The pre-trade gate, src/src/risk/risk_manager.hpp, for one token.  The  *)
(* trading thread calls check() and on_fill(); another thread throws the   *)
(* manual kill switch, so check() is two steps: the load of the switches,  *)
(* and the rest.                                                           *)
(*                                                                         *)
(* The rate bucket is counted in clock units: an order costs `Cost', a     *)
(* unit of time adds 1, and the cap `cap' is the units of a second, so     *)
(* that max_orders_per_sec is cap / Cost.  Which check failed is not kept, *)
(* as no caller uses it.  `approved' and `afterKill' only observe.         *)
(***************************************************************************)
EXTENDS MarketRules, Sequences

CONSTANTS
  Cost,            \* of an order, in the rate bucket
  MaxOrderQty, MaxNotional, MaxLoss, SanityPct, AllowPreopen, Segment,
  NoOrder          \* no check() is under way

ASSUME RiskAssumption ==
  /\ Cost \in Nat \ {0}
  /\ MaxLoss \in Nat /\ AllowPreopen \in BOOLEAN

VARIABLES
  risk,        \* the fields of RiskManager
  now,         \* the clock
  checking,    \* the order whose check() has seen the switches off
  approved,    \* for each approved order, the latest time the limiter had seen
  afterKill    \* orders approved since the manual switch was last thrown

riskVars == <<risk, now, checking, approved, afterKill>>

\* The constructor; of RiskConfig, the members that callers set differently.
NewRisk(cap, maxLots) ==
  [position |-> 0, bid |-> 0, ask |-> 0, tokens |-> cap, lastRefill |-> 0,
   kill |-> FALSE, lossKill |-> FALSE, cash |-> 0, pnl |-> 0,
   cap |-> cap, maxLots |-> maxLots]

Signed(side, qty) == IF side = "buy" THEN qty ELSE -qty

------------------------------------------------------------------------------
update_reference(r, bid, ask) == [r EXCEPT !.bid = bid, !.ask = ask]

PriceSane(r, o) ==
  LET ref == IF o.side = "buy" THEN r.ask ELSE r.bid
      diff == IF o.price > ref THEN o.price - ref ELSE ref - o.price
  IN ref <= 0 \/ diff * 100 <= ref * SanityPct

PositionOk(r, o) ==
  LET lots == Trunc(r.position + Signed(o.side, o.qty), Lot)
  IN /\ (IF lots < 0 THEN -lots ELSE lots) <= r.maxLots
     /\ Segment = "cm" => Trunc(o.qty * o.price, 100) <= MaxNotional

\* The checks between the kill switches and the rate limiter.
Valid(r, o, t) ==
  /\ is_within_market_hours(t) \/ (AllowPreopen /\ is_preopen(t))
  /\ o.qty > 0 /\ o.qty <= MaxOrderQty
  /\ Segment = "fo" => o.qty % Lot = 0
  /\ InBand(o.price)
  /\ PriceSane(r, o)
  /\ PositionOk(r, o)

\* Mutant of Refill: the bucket has no cap.
RefillUncapped(r, t) ==
  LET last == IF r.lastRefill = 0 THEN t ELSE r.lastRefill
  IN IF t > last THEN [r EXCEPT !.tokens = @ + (t - last), !.lastRefill = t]
     ELSE [r EXCEPT !.lastRefill = last]

\* ConsumeRateToken(), before the token is taken.  A clock that steps back
\* refills nothing until it has caught up.
Refill(r, t) ==
  LET last == IF r.lastRefill = 0 THEN t ELSE r.lastRefill
      sum == r.tokens + (t - last)
  IN IF t > last
     THEN [r EXCEPT !.tokens = IF sum > r.cap THEN r.cap ELSE sum, !.lastRefill = t]
     ELSE [r EXCEPT !.lastRefill = last]

HasToken(r, t) == Refill(r, t).tokens >= Cost

Killed(r) == r.kill \/ r.lossKill

\* The position of the filled token is valued at the fill's price.
RecomputePnl(r, mark) ==
  LET pnl == Trunc(r.cash + r.position * mark, 100)
  IN [r EXCEPT !.pnl = pnl, !.lossKill = @ \/ pnl < -MaxLoss]

risk_on_fill(r, f) ==
  LET signed == Signed(f.side, f.qty)
  IN RecomputePnl([r EXCEPT !.position = @ + signed, !.cash = @ - signed * f.price], f.price)

------------------------------------------------------------------------------
RiskInit ==
  /\ \E cap, maxLots \in Nat : risk = NewRisk(cap, maxLots)
  /\ now \in Nat \ {0}
  /\ checking = NoOrder
  /\ approved = <<>>
  /\ afterKill = 0

\* Mutant of CheckStart: the manual switch is not looked at.
CheckStartUnkilled(o) ==
  /\ checking = NoOrder /\ ~ risk.lossKill
  /\ checking' = o
  /\ UNCHANGED <<risk, now, approved, afterKill>>

\* check(): the switches are off.
CheckStart(o) ==
  /\ checking = NoOrder /\ ~ Killed(risk)
  /\ checking' = o
  /\ UNCHANGED <<risk, now, approved, afterKill>>

\* check(): one of the other conditions fails.
CheckInvalid ==
  /\ checking # NoOrder /\ ~ Valid(risk, checking, now)
  /\ checking' = NoOrder
  /\ UNCHANGED <<risk, now, approved, afterKill>>

\* check(): the rate limiter refuses.
CheckLimited ==
  /\ checking # NoOrder /\ Valid(risk, checking, now) /\ ~ HasToken(risk, now)
  /\ risk' = Refill(risk, now)
  /\ checking' = NoOrder
  /\ UNCHANGED <<now, approved, afterKill>>

\* check(): kApproved.
CheckApprove ==
  /\ checking # NoOrder /\ Valid(risk, checking, now) /\ HasToken(risk, now)
  /\ LET r == Refill(risk, now)
     IN /\ risk' = [r EXCEPT !.tokens = @ - Cost]
        /\ approved' = Append(approved, r.lastRefill)
  /\ checking' = NoOrder
  /\ afterKill' = IF risk.kill THEN afterKill + 1 ELSE afterKill
  /\ UNCHANGED now

\* set_kill_switch(), by a thread of its own.
set_kill_switch(on) ==
  /\ risk' = [risk EXCEPT !.kill = on]
  /\ afterKill' = IF on /\ risk.kill THEN afterKill ELSE 0
  /\ UNCHANGED <<now, checking, approved>>

\* The wall clock, or set_now(); a real clock may be stepped back.
SetNow(t) ==
  /\ now' = t
  /\ UNCHANGED <<risk, checking, approved, afterKill>>

\* Calls in any order, with any orders and fills.
Orders == [side : {"buy", "sell"}, price : Int, qty : Int]
RiskNext ==
  \/ \E o \in Orders : CheckStart(o)
  \/ CheckInvalid \/ CheckLimited \/ CheckApprove
  \/ \E on \in BOOLEAN : set_kill_switch(on)
  \/ \E t \in Nat \ {0} : SetNow(t)
  \/ \E f \in Orders : /\ risk' = risk_on_fill(risk, f)
                       /\ UNCHANGED <<now, checking, approved, afterKill>>
  \/ \E b, a \in Int : /\ risk' = update_reference(risk, b, a)
                       /\ UNCHANGED <<now, checking, approved, afterKill>>

RiskSpec == RiskInit /\ [][RiskNext]_riskVars

------------------------------------------------------------------------------
\* The token bucket (check 2 of check()): the orders approved between any two
\* moments cost at most a full bucket and what the time between refills, also
\* when the clock is stepped back in between.
RateBound ==
  \A i, j \in DOMAIN approved :
    i <= j => (j - i + 1) * Cost <= risk.cap + (approved[j] - approved[i])

\* "Kill switches: reject everything" (risk_manager.hpp:72): after the switch is
\* thrown at most one order is approved, the one whose check() had already loaded
\* it, and none while no check() is under way.
KillLag == risk.kill => afterKill + (IF checking = NoOrder THEN 0 ELSE 1) <= 1
==============================================================================
