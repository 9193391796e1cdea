-------------------------- MODULE MarketMakingProofs --------------------------
(***************************************************************************)
(* The strategy never quotes against itself, for every configuration and   *)
(* any uncrossed market, fill, cancel and clock.                           *)
(***************************************************************************)
EXTENDS MarketMaking, TLAPS

Quote == [active : BOOLEAN, price : Int, ts : Nat, id : Nat]
Order == [id : Nat, side : Sides, price : Int, qty : Int]
Strategy == [quotes : [Sides -> Quote], position : Int, nextId : Nat,
             orders : Seq(Order), cancels : Seq(Nat)]

LEMMA ProductInt ==
  ASSUME NEW a \in Int, NEW b \in Int
  PROVE  a * b \in Int
  OBVIOUS

LEMMA TruncInt ==
  ASSUME NEW a \in Int, NEW b \in Int, b > 0
  PROVE  Trunc(a, b) \in Int
  BY DEF Trunc

LEMMA ClampInt ==
  ASSUME NEW v \in Int, NEW lim \in Int
  PROVE  clamp_ticks(v, lim) \in Int
  BY DEF clamp_ticks

LEMMA InventoryInt ==
  ASSUME NEW pos \in Int, NEW maxPos \in Int, NEW maxSkew \in Int
  PROVE  inventory_skew_ticks(pos, maxPos, maxSkew) \in Int
<1>1. CASE maxSkew <= 0 \/ maxPos <= 0
  BY <1>1 DEF inventory_skew_ticks
<1>2. CASE ~ (maxSkew <= 0 \/ maxPos <= 0)
  <2>1. Trunc(pos * maxSkew, maxPos) \in Int
    BY <1>2, ProductInt, TruncInt
  <2> QED BY <1>2, <2>1, ClampInt DEF inventory_skew_ticks
<1> QED BY <1>1, <1>2

LEMMA FlowInt ==
  ASSUME NEW b \in Nat, NEW a \in Nat, NEW maxSkew \in Int
  PROVE  flow_skew_ticks(b, a, maxSkew) \in Int
<1>1. CASE maxSkew <= 0 \/ b + a <= 0
  BY <1>1 DEF flow_skew_ticks
<1>2. CASE ~ (maxSkew <= 0 \/ b + a <= 0)
  <2>1. Trunc((b - a) * maxSkew, b + a) \in Int
    <3>1. b - a \in Int /\ b + a \in Int /\ b + a > 0
      BY <1>2
    <3>2. (b - a) * maxSkew \in Int
      BY <3>1, ProductInt
    <3> QED BY <3>1, <3>2, TruncInt
  <2> QED BY <1>2, <2>1, ClampInt DEF flow_skew_ticks
<1> QED BY <1>1, <1>2

\* Both quotes are shifted by the same skew, so they keep their distance.
LEMMA DesiredUncrossed ==
  ASSUME NEW bid \in BestLevel, NEW ask \in BestLevel, bid.price < ask.price,
         NEW m \in Strategy
  PROVE  LET want == ComputeDesired(m, bid, ask)
         IN want.buy \in Int /\ want.sell \in Int /\ want.buy < want.sell
<1> DEFINE flow == flow_skew_ticks(bid.qty, ask.qty, MaxFlowSkew)
           inv == inventory_skew_ticks(m.position, MaxPosLots * Lot, MaxInvSkew)
           shift == (flow - inv) * TickSize
<1>1. /\ bid.price \in Int /\ ask.price \in Int /\ bid.qty \in Nat /\ ask.qty \in Nat
      /\ m.position \in Int
  BY DEF BestLevel, Strategy
<1>2. /\ TickSize \in Nat \ {0} /\ Lot \in Int /\ MaxPosLots \in Int
      /\ MaxInvSkew \in Int /\ MaxFlowSkew \in Int
  BY RulesAssumption, StrategyAssumption
<1>3. flow \in Int
  BY <1>1, <1>2, FlowInt
<1>4. inv \in Int
  <2>1. MaxPosLots * Lot \in Int
    BY <1>2, ProductInt
  <2> QED BY <1>1, <1>2, <2>1, InventoryInt
<1>5. shift \in Int
  <2> HIDE DEF flow, inv
  <2>1. flow - inv \in Int /\ TickSize \in Int
    BY <1>2, <1>3, <1>4
  <2> QED BY <2>1, ProductInt
<1>6. ComputeDesired(m, bid, ask) =
        [buy |-> bid.price - TickSize + shift, sell |-> ask.price + TickSize + shift]
  BY DEF ComputeDesired, desired_quotes
<1> DEFINE b == bid.price
           a == ask.price
<1> HIDE DEF shift, b, a
<1>7. /\ b - TickSize + shift \in Int /\ a + TickSize + shift \in Int
      /\ b - TickSize + shift < a + TickSize + shift
  BY <1>1, <1>2, <1>5 DEF a, b
<1> QED BY <1>6, <1>7 DEF a, b

------------------------------------------------------------------------------
\* What each handler does to the two quotes.
LEMMA CancelKeeps ==
  ASSUME NEW m \in Strategy, NEW s \in Sides, NEW r, r = CancelSide(m, s)
  PROVE  /\ r \in Strategy /\ ~ r.quotes[s].active
         /\ \A o \in Sides : o # s => r.quotes[o] = m.quotes[o]
<1>1. CASE ~ m.quotes[s].active
  BY <1>1 DEF CancelSide
<1>2. CASE m.quotes[s].active
  <2> DEFINE c == IF Len(m.cancels) < MaxPending THEN Append(m.cancels, m.quotes[s].id) ELSE m.cancels
  <2>1. c \in Seq(Nat)
    BY DEF Strategy, Quote
  <2> DEFINE q == [m.quotes[s] EXCEPT !.active = FALSE]
             qs == [m.quotes EXCEPT ![s] = q]
  <2>2. q \in Quote /\ ~ q.active
    BY DEF Strategy, Quote
  <2>3. r = [m EXCEPT !.quotes = qs, !.cancels = c]
    BY <1>2 DEF CancelSide
  <2> HIDE DEF q, c
  <2>4. qs \in [Sides -> Quote] /\ qs[s] = q /\ \A o \in Sides : o # s => qs[o] = m.quotes[o]
    BY <2>2 DEF Strategy
  <2> HIDE DEF qs
  <2>5. r \in Strategy /\ r.quotes = qs
    BY <2>1, <2>3, <2>4 DEF Strategy
  <2> QED BY <2>2, <2>4, <2>5
<1> QED BY <1>1, <1>2

LEMMA EmitKeeps ==
  ASSUME NEW m \in Strategy, NEW s \in Sides, NEW price \in Int, NEW qty \in Int, NEW t \in Nat,
         NEW r, r = EmitNew(m, s, price, qty, t)
  PROVE  /\ r \in Strategy /\ r.quotes[s].price = price
         /\ \A o \in Sides : o # s => r.quotes[o] = m.quotes[o]
<1> DEFINE fits == Len(m.orders) < MaxPending
           order == [id |-> m.nextId, side |-> s, price |-> price, qty |-> qty]
           q == [active |-> TRUE, price |-> price, ts |-> t, id |-> IF fits THEN m.nextId ELSE 0]
           qs == [m.quotes EXCEPT ![s] = q]
           os == IF fits THEN Append(m.orders, order) ELSE m.orders
           n == IF fits THEN m.nextId + 1 ELSE m.nextId
<1>1. m.nextId \in Nat /\ m.orders \in Seq(Order)
  BY DEF Strategy
<1>2. n \in Nat
  BY <1>1
<1>3. q \in Quote /\ q.price = price
  <2>1. (IF fits THEN m.nextId ELSE 0) \in Nat
    BY <1>1
  <2> QED BY <2>1 DEF Quote
<1>4. os \in Seq(Order)
  <2>1. order \in Order
    BY <1>1 DEF Order
  <2> HIDE DEF order
  <2> QED BY <1>1, <2>1
<1>5. r = [m EXCEPT !.quotes = qs, !.orders = os, !.nextId = n]
  BY DEF EmitNew
<1> HIDE DEF q, os, n
<1>6. qs \in [Sides -> Quote] /\ qs[s] = q /\ \A o \in Sides : o # s => qs[o] = m.quotes[o]
  BY <1>3 DEF Strategy
<1> HIDE DEF qs
<1>7. r \in Strategy /\ r.quotes = qs
  BY <1>2, <1>4, <1>5, <1>6 DEF Strategy
<1> QED BY <1>3, <1>6, <1>7

\* Quoting one side leaves the other alone, and a quote that is active afterwards is
\* at the desired price.
LEMMA QuoteOneSideKeeps ==
  ASSUME NEW m \in Strategy, NEW s \in Sides, NEW desired \in Int, NEW qty \in Int, NEW allowed,
         NEW t \in Nat, NEW r, r = QuoteOneSide(m, s, desired, qty, allowed, t)
  PROVE  /\ r \in Strategy
         /\ r.quotes[s].active => r.quotes[s].price = desired
         /\ \A o \in Sides : o # s => r.quotes[o] = m.quotes[o]
<1> DEFINE holds == m.quotes[s].active /\ m.quotes[s].price = desired /\ ~ Expired(m.quotes[s], t)
           c == CancelSide(m, s)
<1>1. /\ c \in Strategy /\ ~ c.quotes[s].active
      /\ \A o \in Sides : o # s => c.quotes[o] = m.quotes[o]
  BY CancelKeeps
<1>2. CASE ~ allowed
  BY <1>1, <1>2 DEF QuoteOneSide
<1>3. CASE allowed /\ holds
  BY <1>3 DEF QuoteOneSide
<1>4. CASE allowed /\ ~ holds
  <2>1. r = EmitNew(c, s, desired, qty, t)
    BY <1>4 DEF QuoteOneSide
  <2> HIDE DEF c
  <2>2. /\ r \in Strategy /\ r.quotes[s].price = desired
        /\ \A o \in Sides : o # s => r.quotes[o] = c.quotes[o]
    BY <1>1, <2>1, EmitKeeps
  <2> QED BY <1>1, <2>2
<1> QED BY <1>2, <1>3, <1>4

Crossed(q) == q["buy"].active /\ q["sell"].active /\ ~ (q["buy"].price < q["sell"].price)

LEMMA BookUpdateKeeps ==
  ASSUME NEW m \in Strategy, ~ Crossed(m.quotes), NEW t \in Nat,
         NEW bid \in BestLevel \cup {NoLevel}, NEW ask \in BestLevel \cup {NoLevel},
         Uncrossed(bid, ask), NEW r, r = on_book_update(m, bid, ask, t)
  PROVE  r \in Strategy /\ ~ Crossed(r.quotes)
<1> DEFINE fresh == [m EXCEPT !.orders = <<>>, !.cancels = <<>>]
           want == ComputeDesired(m, bid, ask)
           qty == QuoteLots * Lot
           buyOk == SideOk(m, "buy", want.buy)
           sellOk == SideOk(m, "sell", want.sell)
           half == QuoteOneSide(fresh, "buy", want.buy, qty, buyOk, t)
           gone == CancelSide(fresh, "buy")
<1>0. "buy" \in Sides /\ "sell" \in Sides /\ "buy" # "sell"
  BY DEF Sides
<1>1. fresh \in Strategy /\ fresh.quotes = m.quotes
  <2> DEFINE os == <<>>
  <2>1. os \in Seq(Order) /\ os \in Seq(Nat)
    OBVIOUS
  <2>2. fresh = [m EXCEPT !.orders = os, !.cancels = os]
    OBVIOUS
  <2> HIDE DEF os
  <2> QED BY <2>1, <2>2 DEF Strategy
<1>2. CASE after_preclose(t)
  <2>1. r = CancelSide(gone, "sell")
    BY <1>2 DEF on_book_update
  <2>2. gone \in Strategy /\ ~ gone.quotes["buy"].active
    <3> HIDE DEF fresh
    <3> QED BY <1>0, <1>1, CancelKeeps
  <2> HIDE DEF gone
  <2> QED BY <1>0, <2>1, <2>2, CancelKeeps DEF Crossed
<1>3. CASE ~ after_preclose(t) /\ ~ Quotable(bid, ask, t)
  <2>1. r = fresh
    BY <1>3 DEF on_book_update
  <2> HIDE DEF fresh
  <2> QED BY <1>1, <2>1
<1>4. CASE ~ after_preclose(t) /\ Quotable(bid, ask, t)
  <2>1. r = QuoteOneSide(half, "sell", want.sell, qty, sellOk, t)
    BY <1>4 DEF on_book_update
  <2>2. bid \in BestLevel /\ ask \in BestLevel /\ bid.price < ask.price
    BY <1>4 DEF Quotable, Uncrossed
  <2>3. want.buy \in Int /\ want.sell \in Int /\ want.buy < want.sell
    BY <2>2, DesiredUncrossed
  <2>4. qty \in Int
    <3>1. QuoteLots \in Int /\ Lot \in Int
      BY RulesAssumption, StrategyAssumption
    <3> QED BY <3>1, ProductInt
  <2> HIDE DEF fresh, want, qty, buyOk, sellOk
  <2>5. /\ half \in Strategy
        /\ half.quotes["buy"].active => half.quotes["buy"].price = want.buy
    BY <1>0, <1>1, <2>3, <2>4, QuoteOneSideKeeps
  <2> HIDE DEF half
  <2>6. /\ r \in Strategy
        /\ r.quotes["buy"] = half.quotes["buy"]
        /\ r.quotes["sell"].active => r.quotes["sell"].price = want.sell
    BY <1>0, <2>1, <2>3, <2>4, <2>5, QuoteOneSideKeeps
  <2> QED BY <2>3, <2>5, <2>6 DEF Crossed
<1> QED BY <1>2, <1>3, <1>4

LEMMA FillKeeps ==
  ASSUME NEW m \in Strategy, ~ Crossed(m.quotes), NEW id \in Nat, NEW side \in Sides,
         NEW qty \in Nat, NEW remaining \in Nat, NEW r,
         r = strat_on_fill(m, [id |-> id, side |-> side, qty |-> qty, remaining |-> remaining])
  PROVE  r \in Strategy /\ ~ Crossed(r.quotes)
<1> DEFINE p == m.position + IF side = "buy" THEN qty ELSE -qty
           Q(s) == IF m.quotes[s].id = id /\ remaining = 0
                   THEN [m.quotes[s] EXCEPT !.active = FALSE] ELSE m.quotes[s]
           qs == [s \in Sides |-> Q(s)]
<1>1. p \in Int
  BY DEF Strategy
<1>2. \A s \in Sides : /\ Q(s) \in Quote /\ Q(s).price = m.quotes[s].price
                       /\ Q(s).active => m.quotes[s].active
  BY DEF Strategy, Quote
<1>3. r = [m EXCEPT !.position = p, !.quotes = qs]
  BY DEF strat_on_fill
<1> HIDE DEF Q, p
<1>4. qs \in [Sides -> Quote] /\ \A s \in Sides : qs[s] = Q(s)
  BY <1>2
<1> HIDE DEF qs
<1>5. r \in Strategy /\ r.quotes = qs
  BY <1>1, <1>3, <1>4 DEF Strategy
<1>6. ~ Crossed(qs)
  BY <1>2, <1>4 DEF Crossed, Sides
<1> QED BY <1>5, <1>6

LEMMA OnCancelKeeps ==
  ASSUME NEW m \in Strategy, ~ Crossed(m.quotes), NEW id \in Nat, NEW r, r = on_cancel(m, id)
  PROVE  r \in Strategy /\ ~ Crossed(r.quotes)
<1>1. ASSUME NEW s \in Sides, r = [m EXCEPT !.quotes[s].active = FALSE]
      PROVE  r \in Strategy /\ ~ Crossed(r.quotes)
  <2> DEFINE q == [m.quotes[s] EXCEPT !.active = FALSE]
             qs == [m.quotes EXCEPT ![s] = q]
  <2>1. q \in Quote /\ ~ q.active
    BY DEF Strategy, Quote
  <2>2. r = [m EXCEPT !.quotes = qs]
    BY <1>1
  <2> HIDE DEF q
  <2>3. qs \in [Sides -> Quote] /\ qs[s] = q
    BY <2>1 DEF Strategy
  <2> HIDE DEF qs
  <2>4. r \in Strategy /\ r.quotes = qs
    BY <2>2, <2>3 DEF Strategy
  <2>5. ~ Crossed(qs)
    BY <2>1, <2>3 DEF Crossed, Sides
  <2> QED BY <2>4, <2>5
<1>2. CASE r = m
  BY <1>2
<1>3. r = m \/ \E s \in Sides : r = [m EXCEPT !.quotes[s].active = FALSE]
  BY DEF on_cancel, Sides
<1> QED BY <1>1, <1>2, <1>3

StrategyInv == strat \in Strategy /\ ~ Crossed(strat.quotes)

\* While the market is not crossed, whatever it, the fills, the cancels and the
\* clock do, the two quotes that the strategy holds active never cross each other,
\* for every tick, lot, band, limit and skew (market_making.hpp:55-117).
THEOREM NeverSelfCrossed == StratSpec => []NoSelfCross
<1>1. StratInit => StrategyInv
  <2> SUFFICES ASSUME StratInit PROVE StrategyInv
    OBVIOUS
  <2> DEFINE q == [active |-> FALSE, price |-> 0, ts |-> 0, id |-> 0]
             qs == [s \in Sides |-> q]
             os == <<>>
  <2>1. q \in Quote /\ ~ q.active
    BY DEF Quote
  <2>2. os \in Seq(Order) /\ os \in Seq(Nat)
    OBVIOUS
  <2>3. strat = [quotes |-> qs, position |-> 0, nextId |-> 1, orders |-> os, cancels |-> os]
    BY DEF StratInit, NewStrategy
  <2> HIDE DEF q, os
  <2>4. qs \in [Sides -> Quote] /\ ~ Crossed(qs)
    BY <2>1 DEF Crossed, Sides
  <2> HIDE DEF qs
  <2> QED BY <2>2, <2>3, <2>4 DEF StrategyInv, Strategy
<1>2. StrategyInv /\ [StratNext]_strat => StrategyInv'
  <2> SUFFICES ASSUME StrategyInv, [StratNext]_strat PROVE StrategyInv'
    OBVIOUS
  <2>1. strat \in Strategy /\ ~ Crossed(strat.quotes)
    BY DEF StrategyInv
  <2>2. ASSUME NEW bid \in BestLevel \cup {NoLevel}, NEW ask \in BestLevel \cup {NoLevel},
               NEW t \in Nat \ {0}, Uncrossed(bid, ask),
               strat' = on_book_update(strat, bid, ask, t)
        PROVE  StrategyInv'
    BY <2>1, <2>2, BookUpdateKeeps DEF StrategyInv
  <2>3. ASSUME NEW id \in Nat, NEW s \in Sides, NEW qty \in Nat, NEW remaining \in Nat,
               strat' = strat_on_fill(strat, [id |-> id, side |-> s, qty |-> qty,
                                              remaining |-> remaining])
        PROVE  StrategyInv'
    BY <2>1, <2>3, FillKeeps DEF StrategyInv
  <2>4. ASSUME NEW id \in Nat, strat' = on_cancel(strat, id) PROVE StrategyInv'
    BY <2>1, <2>4, OnCancelKeeps DEF StrategyInv
  <2>5. CASE UNCHANGED strat
    BY <2>1, <2>5 DEF StrategyInv
  <2> QED BY <2>2, <2>3, <2>4, <2>5 DEF StratNext
<1>3. StrategyInv => NoSelfCross
  BY DEF StrategyInv, Crossed, NoSelfCross
<1> QED BY <1>1, <1>2, <1>3, PTL DEF StratSpec
==============================================================================
