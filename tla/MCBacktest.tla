------------------------------ MODULE MCBacktest ------------------------------
(* Two models or two cost levels over four bars, with returns that ruin a   *)
(* long position under stress and a short position at any cost.             *)
EXTENDS Backtest
BarReturns == {-2, 1, 5}
=============================================================================
