--------------------------- MODULE MCLockedHoldout ---------------------------
(***************************************************************************)
(* TLC instance of LockedHoldout: one study that both destinations share.   *)
(***************************************************************************)
EXTENDS LockedHoldout, TLC

CONSTANTS d1, d2, s1

SharedStudy == d1 :> s1 @@ d2 :> s1

Symmetry == Permutations(Processes)
=============================================================================
