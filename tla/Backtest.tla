------------------------------- MODULE Backtest -------------------------------
(***************************************************************************)
(* src/src/sim: run_backtest() drives the pipeline over recorded events on *)
(* a fixed clock, and FillSimulator decides which of our quotes trades     *)
(* fill.  The simulator holds one quote per side.  Fees and the report are *)
(* left out.                                                               *)
(***************************************************************************)
EXTENDS Pipeline

CONSTANTS TradePrices, TradeQtys     \* of the recorded trades

VARIABLE sim     \* bid_ and ask_: side -> [active, price, remaining, queue, id]

vars == <<pipeVars, sim>>

Init ==
  /\ PipeInit
  /\ sim = [s \in Sides |-> [active |-> FALSE, price |-> 0, remaining |-> 0,
                             queue |-> 0, id |-> 0]]

Least(a, b) == IF a < b THEN a ELSE b

\* displayed_qty_at(): what rests at this price when we join it.  Snap Quotes make
\* books of one level a side.
displayed_qty_at(s, price) ==
  IF best(book, s).price = price THEN best(book, s).qty ELSE 0

\* The loop of run_backtest() takes an event; only trades can fill.
Replay(e) ==
  /\ driver = "backtest" /\ pc = "idle" /\ e.seq <= MaxEvents[driver]
  /\ ev' = e /\ seen' = e.seq
  /\ pc' = IF e.type = "trade" THEN "match_buy" ELSE "feed"
  /\ UNCHANGED <<riskVars, strat, table, nextId, live, book, pending, sent, resting,
                 executed, driver, sim>>

\* on_event() for one side, MatchAgainst() included: the trade first eats the
\* queue ahead, and the rest fills our quote.
Match(s) ==
  LET q == sim[s]
      hit == q.active /\ IF s = "buy" THEN ev.price <= q.price ELSE ev.price >= q.price
      eaten == Least(q.queue, ev.qty)
      qty == Least(q.remaining, ev.qty - eaten)
      f == [id |-> q.id, side |-> s, price |-> q.price, qty |-> qty,
            remaining |-> q.remaining - qty]
  IN /\ pc = "match_" \o s
     /\ pc' = IF s = "buy" THEN "match_sell" ELSE "feed"
     /\ \/ ~ hit /\ UNCHANGED sim
        \/ hit /\ sim' = [sim EXCEPT ![s].queue = @ - eaten, ![s].remaining = @ - qty,
                                     ![s].active = q.remaining > qty]
     /\ \/ hit /\ qty > 0 /\ on_fill(f) /\ Execute(f)
        \/ (~ hit \/ qty <= 0) /\ UNCHANGED <<strat, risk, table, nextId, live, executed>>
     /\ UNCHANGED <<now, checking, approved, afterKill, ev, seen, book, pending, sent,
                    resting, driver>>

\* register_order() for each of last_sent(); a new quote replaces the old one.
Register ==
  /\ pc = "register"
  /\ pc' = "idle"
  /\ sim' = [s \in Sides |->
               IF \E i \in DOMAIN sent : sent[i].side = s
               THEN LET o == CHOOSE o \in {sent[i] : i \in DOMAIN sent} : o.side = s
                    IN [active |-> TRUE, price |-> o.price, remaining |-> o.qty,
                        queue |-> displayed_qty_at(s, o.price), id |-> o.id]
               ELSE sim[s]]
  /\ UNCHANGED <<riskVars, strat, table, nextId, live, flowVars>>

RecordedTrade(seq, price, qty) ==
  [type |-> "trade", seq |-> seq, no |-> 0, no2 |-> 0, price |-> price, qty |-> qty]

Next ==
  \/ PipeNext /\ UNCHANGED sim
  \/ \E q \in BookQuotes : Replay(OB!Snap(seen + 1, q[1], q[2]))
  \/ \E p \in TradePrices, n \in TradeQtys : Replay(RecordedTrade(seen + 1, p, n))
  \/ \E s \in Sides : Match(s)
  \/ Register

Spec == Init /\ [][Next]_vars
==============================================================================
