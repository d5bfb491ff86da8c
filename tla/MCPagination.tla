---------------------------- MODULE MCPagination ----------------------------
(***************************************************************************)
(* TLC instance of Pagination: a timeframe of 2, a range of two candles,   *)
(* timestamps before, off the grid and after it.                           *)
(***************************************************************************)
EXTENDS Pagination, TLC

MCTimes == {0, 2, 3, 4, 6}
=============================================================================
