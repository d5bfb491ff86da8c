---------------------------- MODULE MCPromotion ----------------------------
(***************************************************************************)
(* TLC instance of Promotion: interchangeable processes and bundles.       *)
(***************************************************************************)
EXTENDS Promotion, TLC

Symmetry == Permutations(Processes) \cup Permutations(Bundles)
=============================================================================
