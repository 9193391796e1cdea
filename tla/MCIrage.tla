------------------------------- MODULE MCIrage --------------------------------
\* A small instance of IrageStrat: a market at either end of the daily price
\* range, and one with a side missing; a range with prices of the tick grid and
\* one without.  The inventory skew, which multiplies the prices, is zero;
\* Backtest has it.
EXTENDS IrageStrat

Level(p, q) == [price |-> p, qty |-> q]
MCSymbols == <<"sym">>
MCKnobs == [spread : {3}, inv : {0}, flow : {1}, lots : {2}]
MCMticks == {[bid |-> Level(3, 1), ask |-> Level(6, 1)],
             [bid |-> Level(9, 1), ask |-> Level(12, 1)],
             [bid |-> Level(6, 0), ask |-> Level(9, 1)]}
MCDprRanges == {[low |-> 5, high |-> 14], [low |-> 7, high |-> 8]}
==============================================================================
