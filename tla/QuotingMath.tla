----------------------------- MODULE QuotingMath ------------------------------
(***************************************************************************)
(* src/src/strategy/quoting_math.hpp, shared by MarketMaking and by the    *)
(* strategy of src/irage/.                                                 *)
(***************************************************************************)
EXTENDS MarketRules

clamp_ticks(v, lim) == IF v > lim THEN lim ELSE IF v < -lim THEN -lim ELSE v

inventory_skew_ticks(pos, maxPos, maxSkew) ==
  IF maxSkew <= 0 \/ maxPos <= 0 THEN 0
  ELSE clamp_ticks(Trunc(pos * maxSkew, maxPos), maxSkew)

flow_skew_ticks(bidQty, askQty, maxSkew) ==
  IF maxSkew <= 0 \/ bidQty + askQty <= 0 THEN 0
  ELSE clamp_ticks(Trunc((bidQty - askQty) * maxSkew, bidQty + askQty), maxSkew)

\* bid and ask are the best levels, [price, qty].
desired_quotes(bid, ask, tick, pos, maxPos, maxInv, maxFlow) ==
  LET shift == (flow_skew_ticks(bid.qty, ask.qty, maxFlow)
                  - inventory_skew_ticks(pos, maxPos, maxInv)) * tick
  IN [buy |-> bid.price - tick + shift, sell |-> ask.price + tick + shift]
==============================================================================
