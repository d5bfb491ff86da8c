--------------------------- MODULE MCMarketHistory ---------------------------
(* Instances of MarketHistory for TLC: a primary with all its history and a  *)
(* validator with a capped one.                                              *)
EXTENDS MarketHistory

CONSTANTS coinbase, kraken

MCVenues == {coinbase, kraken}
MCDepth == [v \in MCVenues |-> IF v = kraken THEN 2 ELSE MaxNow + 1]
=============================================================================
