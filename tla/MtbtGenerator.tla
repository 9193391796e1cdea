---------------------------- MODULE MtbtGenerator -----------------------------
(***************************************************************************)
(* The synthetic order-by-order stream of src/src/sim/mtbt_generator.hpp,  *)
(* generate_mbo(), from which backtests and captures are made, applied to  *)
(* a book as run_backtest() does: nothing is lost.  `publisher' says       *)
(* whether a behaviour is one of the generator or of the exchange of       *)
(* ExchangeBook; `resting' is then what the generator's own list `live'    *)
(* says.  A random number is any of its range.                             *)
(***************************************************************************)
EXTENDS ExchangeBook

CONSTANTS
  StartMid,
  Depth,       \* levels seeded on each side: 3
  MaxLive,     \* orders kept: 150
  MaxGen       \* bound on the generated messages

VARIABLES
  publisher,
  gen     \* mid_, live: a sequence of [no, side, price, qty], the adds of the
          \* current part of a step, the part after them

genVars == <<vars, publisher, gen>>

\* The two adds k ticks from the mid.
Pair(mid, k) == <<[side |-> "buy", price |-> mid - Tick * k],
                  [side |-> "sell", price |-> mid + Tick * k]>>

Seeds == [i \in 1..(2 * Depth) |-> Pair(StartMid, (i + 1) \div 2)[2 - (i % 2)]]

GenInit ==
  /\ XInit
  /\ publisher \in {"exchange", "generator"}
  /\ gen = [mid |-> StartMid, live |-> <<>>, todo |-> Seeds, stage |-> "trim"]

Emit(ev) == sent' = sent + 1 /\ Deliver(ev)

\* The list becomes `live': what rests, by order number.
Relist(live) ==
  LET nos == {live[i].no : i \in DOMAIN live}
      entry(o) == live[CHOOSE i \in DOMAIN live : live[i].no = o]
  IN resting' = [o \in nos |-> [side |-> entry(o).side, price |-> entry(o).price,
                                qty |-> entry(o).qty]]

\* Mutant of SwapOut: the last order is not kept in the place of the other.
SwapOutNoCopy(live, i) == SubSeq(live, 1, Len(live) - 1)

\* live[i] = live.back(); live.pop_back();
SwapOut(live, i) == SubSeq([live EXCEPT ![i] = live[Len(live)]], 1, Len(live) - 1)

\* add(): the next order number, at the next price.
GenAdd(q) ==
  LET o == Cardinality(used) + 1
      a == Head(gen.todo)
  IN /\ gen.todo # <<>>
     /\ used' = used \cup {o}
     /\ Emit(Add(sent + 1, o, a.side, a.price, q))
     /\ gen' = [gen EXCEPT !.todo = Tail(@),
                  !.live = Append(@, [no |-> o, side |-> a.side, price |-> a.price, qty |-> q])]
     /\ Relist(gen'.live)

\* A step begins: the mid stays or walks, then orders next to it.
GenWalk ==
  /\ gen.todo = <<>> /\ gen.stage = "trim"
  /\ Len(gen.live) <= MaxLive
  /\ \E d \in {-1, 0, 1} :
       LET to == gen.mid + d * Tick
           mid == IF d # 0 /\ to < Tick * 10 THEN Tick * 10 ELSE to
       IN gen' = [gen EXCEPT !.mid = mid, !.todo = Pair(mid, 1), !.stage = "deep"]
  /\ UNCHANGED vars

GenDeep ==
  /\ gen.todo = <<>> /\ gen.stage = "deep"
  /\ \E more \in {<<>>, Pair(gen.mid, 2)} :
       gen' = [gen EXCEPT !.todo = more, !.stage = "cancel"]
  /\ UNCHANGED vars

\* The part `from' of a step ends with the list `live', and the part `to' is next.
Turn(from, to, live) ==
  /\ gen.todo = <<>> /\ gen.stage = from
  /\ gen' = [gen EXCEPT !.stage = to, !.live = live]

cancel_idx(i, from, to) ==
  /\ Turn(from, to, SwapOut(gen.live, i))
  /\ Emit(Cancel(sent + 1, gen.live[i].no))
  /\ Relist(gen'.live)
  /\ UNCHANGED used

GenCancel ==
  \/ Turn("cancel", "trade", gen.live) /\ UNCHANGED vars
  \/ \E i \in DOMAIN gen.live : cancel_idx(i, "cancel", "trade")

\* A trade against any order, of no more than it has.
Hit(i, q) ==
  LET o == gen.live[i]
      tq == IF o.qty < q THEN o.qty ELSE q
      left == [gen.live EXCEPT ![i].qty = @ - tq]
  IN /\ Turn("trade", "trim", IF left[i].qty <= 0 THEN SwapOut(left, i) ELSE left)
     /\ Emit(IF o.side = "buy" THEN Trade(sent + 1, o.no, 0, tq)
                               ELSE Trade(sent + 1, 0, o.no, tq))
     /\ Relist(gen'.live)
     /\ UNCHANGED used

GenTrade ==
  \/ Turn("trade", "trim", gen.live) /\ UNCHANGED vars
  \/ \E i \in DOMAIN gen.live, q \in Qtys : Hit(i, q)

\* The loop at the end of a step.
GenTrim == Len(gen.live) > MaxLive /\ cancel_idx(1, "trim", "trim")

Generate ==
  /\ sent < MaxGen
  /\ \/ \E q \in Qtys : GenAdd(q)
     \/ GenWalk \/ GenDeep \/ GenCancel \/ GenTrade \/ GenTrim

GenNext ==
  /\ UNCHANGED publisher
  /\ \/ publisher = "exchange" /\ XNext /\ UNCHANGED gen
     \/ publisher = "generator" /\ Generate

GenSpec == GenInit /\ [][GenNext]_genVars

------------------------------------------------------------------------------
\* The generated stream is one an exchange could have sent: a book fed with it is
\* never stale, tracks the orders of the generator's list, each of them once, and
\* shows, level for level, what the generator believes rests
\* ("a persistent order-by-order (MBO) stream with real depth",
\* mtbt_generator.hpp:107), so a backtest reads its queue positions from that book.
GeneratedBookIsLive ==
  publisher = "generator" =>
    /\ ~ book.stale /\ book.gaps = 0
    /\ book.orders = resting /\ Len(gen.live) = Cardinality(DOMAIN resting)
    /\ \A s \in Sides : book.levels[s] = ExchangeLevels(s)
==============================================================================
