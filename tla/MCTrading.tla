------------------------------ MODULE MCTrading -------------------------------
\* Small instances of Backtest: markets around 10, one too wide to quote,
\* one without an ask.
EXTENDS Backtest

Level(p, q) == [price |-> p, qty |-> q]
MCQuotes == {<<Level(9, 1), Level(10, 1)>>, <<Level(11, 3), Level(12, 1)>>,
             <<Level(9, 1), Level(14, 1)>>, <<Level(9, 1), Level(0, 0)>>}
MCEvents == [d \in {"live", "backtest"} |-> IF d = "live" THEN 3 ELSE 6]
==============================================================================
