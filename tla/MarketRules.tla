----------------------------- MODULE MarketRules ------------------------------
(***************************************************************************)
(* The session calendar of src/src/common/time_utils.hpp and the contract  *)
(* of the watched instrument that SymbolMaster serves.  A timestamp is a   *)
(* number of clock units in the IST frame, at least 1 (0 is "no clock");   *)
(* the market's hours are offsets from midnight.                           *)
(***************************************************************************)
EXTENDS Integers

CONSTANTS
  DayLen,        \* kNsPerDay
  PreOpen,       \* 09:00
  MarketOpen,    \* 09:15
  Preclose,      \* 15:25
  MarketClose,   \* 15:30
  Lot,           \* lot_size
  TickSize,      \* tick_size, in paise
  PrevClose,     \* prev_close; 0 is unknown
  CircuitPct     \* circuit_pct_x100; 0 is no band

ASSUME RulesAssumption ==
  /\ {DayLen, PreOpen, MarketOpen, Preclose, MarketClose, PrevClose, CircuitPct} \subseteq Nat
  /\ PreOpen < MarketOpen /\ MarketOpen < Preclose
  /\ Preclose < MarketClose /\ MarketClose < DayLen
  /\ Lot \in Nat \ {0} /\ TickSize \in Nat \ {0}

ist_midnight_ns(t) == (t \div DayLen) * DayLen
ist_time_of_day_ns(t, tod) == ist_midnight_ns(t) + tod

market_open_ns(t) == ist_time_of_day_ns(t, MarketOpen)
market_close_ns(t) == ist_time_of_day_ns(t, MarketClose)
preopen_start_ns(t) == ist_time_of_day_ns(t, PreOpen)
preclose_cancel_ns(t) == ist_time_of_day_ns(t, Preclose)

is_within_market_hours(t) == t >= market_open_ns(t) /\ t < market_close_ns(t)
is_preopen(t) == t >= preopen_start_ns(t) /\ t < market_open_ns(t)
after_preclose(t) == t >= preclose_cancel_ns(t)

\* C++ division truncates toward zero; \div rounds down.
Trunc(a, b) == IF a >= 0 THEN a \div b ELSE -((-a) \div b)

\* PriceBand(): the circuit band around the previous close, when there is one.
InBand(price) ==
  LET delta == Trunc(PrevClose * CircuitPct, 10000)
  IN PrevClose <= 0 \/ CircuitPct = 0
       \/ (price >= PrevClose - delta /\ price <= PrevClose + delta)
==============================================================================
