------------------------------- MODULE OneShot -------------------------------
(***************************************************************************)
(* What a locked holdout promises: the final partition of a destination is *)
(* looked at once at most, only after the look was paid for on disk, and a *)
(* verdict, once given, ends the matter.                                   *)
(***************************************************************************)
EXTENDS Naturals

CONSTANT Destinations

VARIABLES
    spent,     \* destinations whose only evaluation is consumed
    looks,     \* how often the holdout of each was evaluated
    verdicts   \* destinations with a final state

vars == <<spent, looks, verdicts>>

Init ==
    /\ spent = {}
    /\ looks = [d \in Destinations |-> 0]
    /\ verdicts = {}

Spend(d) ==
    /\ d \notin spent
    /\ spent' = spent \cup {d}
    /\ UNCHANGED <<looks, verdicts>>

Look(d) ==
    /\ d \in spent \ verdicts
    /\ looks[d] = 0
    /\ looks' = [looks EXCEPT ![d] = 1]
    /\ UNCHANGED <<spent, verdicts>>

Conclude(d) ==
    /\ d \in spent \ verdicts
    /\ verdicts' = verdicts \cup {d}
    /\ UNCHANGED <<spent, looks>>

Next == \E d \in Destinations : Spend(d) \/ Look(d) \/ Conclude(d)

Spec == Init /\ [][Next]_vars
=============================================================================
