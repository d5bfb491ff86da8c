---------------------------- MODULE MCPartitions ----------------------------
(* An instance of Partitions for TLC: every frame of up to MaxBars candles. *)
EXTENDS Partitions
=============================================================================
