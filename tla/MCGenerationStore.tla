-------------------------- MODULE MCGenerationStore --------------------------
(***************************************************************************)
(* TLC instance of GenerationStore: every identity set is a set of model   *)
(* values, interchangeable in the safety runs.                             *)
(***************************************************************************)
EXTENDS GenerationStore, TLC

Symmetry == Permutations(Venues) \cup Permutations(Jobs)
                \cup Permutations(Readers) \cup Permutations(Generations)
=============================================================================
