-------------------------- MODULE PartitionsProofs --------------------------
(***************************************************************************)
(* Proofs about Partitions: its inductive invariant, and from it that no   *)
(* fold, replay or holdout is judged on bars its model was fitted on.      *)
(***************************************************************************)
EXTENDS Partitions, FiniteSetTheorems, TLAPS

(* The last k of k samples are all of them. *)
LEMMA LatestWhole ==
  ASSUME NEW S, IsFiniteSet(S), S \subseteq Nat, NEW k \in Nat, Cardinality(S) = k
  PROVE  Latest(S, k) = S
<1>1. ASSUME NEW i \in S
      PROVE  Cardinality({j \in S : j > i}) < k
  <2> DEFINE T == {j \in S : j > i}
  <2>1. T \in SUBSET S /\ T # S
    <3>1. i \notin T
      OBVIOUS
    <3> QED
      BY <3>1
  <2>2. /\ IsFiniteSet(T)
        /\ Cardinality(T) <= Cardinality(S)
        /\ Cardinality(T) # Cardinality(S)
    BY <2>1, FS_Subset
  <2>3. Cardinality(T) \in Nat
    BY <2>2, FS_CardinalityType
  <2> QED
    BY <2>2, <2>3
<1> QED
  BY <1>1 DEF Latest

(* All but the last v + h samples end more than h before the last v begin. *)
LEMMA LatestApart ==
  ASSUME NEW S, IsFiniteSet(S), S \subseteq Nat, NEW v \in Nat, NEW h \in Nat,
         NEW e \in Latest(S, v), NEW t \in S \ Latest(S, v + h)
  PROVE  t + h < e
<1> DEFINE A == {j \in S : j > t}
           B == {j \in S : j > e}
           C == t + 1 .. e
<1>1. e \in S /\ e \in Nat /\ t \in Nat
  BY DEF Latest
<1>2. IsFiniteSet(A) /\ IsFiniteSet(B) /\ IsFiniteSet(C)
  BY <1>1, FS_Subset, FS_Interval
<1>3. Cardinality(A) \in Nat /\ Cardinality(B) \in Nat /\ Cardinality(C) \in Nat
  BY <1>2, FS_CardinalityType
<1>4. Cardinality(B) < v /\ ~(Cardinality(A) < v + h)
  BY DEF Latest
<1>5. A \in SUBSET (B \cup C)
  <2>1. ASSUME NEW j \in A
        PROVE  j \in B \cup C
    <3>1. j \in Nat /\ j \in S /\ t < j
      BY <1>1
    <3>2. CASE j > e
      BY <3>1, <3>2
    <3>3. CASE ~(j > e)
      <4>1. j \in C
        BY <1>1, <3>1, <3>3
      <4> QED
        BY <4>1
    <3> QED
      BY <3>2, <3>3
  <2> QED
    BY <2>1
<1>6. /\ IsFiniteSet(B \cup C)
      /\ Cardinality(B \cup C) <= Cardinality(B) + Cardinality(C)
  <2>1. /\ IsFiniteSet(B \cup C)
        /\ Cardinality(B \cup C) = Cardinality(B) + Cardinality(C) - Cardinality(B \cap C)
    BY <1>2, FS_Union
  <2>2. IsFiniteSet(B \cap C)
    BY <1>2, FS_Subset
  <2>3. Cardinality(B \cap C) \in Nat
    BY <2>2, FS_CardinalityType
  <2> QED
    BY <1>3, <2>1, <2>3
<1>7. Cardinality(A) <= Cardinality(B \cup C)
  BY <1>5, <1>6, FS_Subset
<1>8. Cardinality(C) = IF t + 1 > e THEN 0 ELSE e - (t + 1) + 1
  BY <1>1, FS_Interval
<1>9. Cardinality(B \cup C) \in Nat
  BY <1>6, FS_CardinalityType
<1> QED
  BY <1>1, <1>3, <1>4, <1>6, <1>7, <1>8, <1>9

(* The samples of a frame are finitely many positive numbers. *)
LEMMA SamplesFinite ==
  ASSUME TypeOK
  PROVE  /\ Len(rows) \in Nat
         /\ IsFiniteSet(Samples)
         /\ Samples \subseteq Nat
         /\ \A i \in Samples : rows[i] \in Nat
<1>1. rows \in Seq(Nat) /\ Len(rows) \in Nat
  BY DEF TypeOK
<1>2. IsFiniteSet(1 .. Len(rows))
  BY <1>1, FS_Interval
<1> QED
  BY <1>1, <1>2 DEF Samples

(* A configuration's purge covers its horizon. *)
LEMMA PurgeCovers ==
  ASSUME TypeOK
  PROVE  /\ config.horizon \in Horizons /\ config.horizon \in Nat
         /\ config.purge \in Nat /\ config.purge >= config.horizon
  BY BarsAssumption DEF TypeOK, Configs

(* Parts of the invariant hold as long as what they read does not change. *)
LEMMA Kept ==
  ASSUME IInv, UNCHANGED <<given, reserved, config, dataset, split, through, judgement>>
  PROVE  /\ Spaced'
         /\ Samples' = Samples
         /\ MinimumBars(config)' = MinimumBars(config)
         /\ ReplayIsReserved' /\ HoldoutUnseen'
  BY DEF IInv, Spaced, Judged, ReplayIsReserved, HoldoutUnseen, Samples, MinimumBars,
         RequiredSamples, given, reserved, dataset, split, judgement

----------------------------------------------------------------------------
LEMMA InitHolds == Init => IInv
<1> SUFFICES ASSUME Init PROVE IInv
  OBVIOUS
<1> USE BarsAssumption
<1>1. TypeOK
  BY DEF Init, TypeOK, Points, Samples
<1>2. Reserved /\ Covered
  BY DEF Init, Reserved, Covered
<1>3. Spaced
  BY DEF Init, Spaced, Samples
<1>4. Split
  BY DEF Init, Split
<1>5. Trained /\ Judged
  BY DEF Init, Trained, Judged, ReplayIsReserved, HoldoutUnseen
<1> QED
  BY <1>1, <1>2, <1>3, <1>4, <1>5 DEF IInv

(* The three ways to reserve: only the length and the embargo are set. *)
LEMMA ReserveStep ==
  ASSUME IInv, UseAll \/ SplitReplayWindow \/ PartitionHoldout
  PROVE  IInv'
<1> USE BarsAssumption, FoldAssumption, ReserveAssumption
<1>1. /\ UNCHANGED <<given, config, dataset, split, through, judgement>>
      /\ pc = "reserving" /\ pc' = "building"
  BY DEF UseAll, SplitReplayWindow, PartitionHoldout, reserved
<1>2. TypeOK /\ total \in Nat
  BY DEF IInv, TypeOK
<1>3. /\ limit' \in Nat /\ embargo' \in Nat /\ limit' <= total
      /\ kind = "research" => limit' = total
      /\ kind = "replay" => limit' + ReplayBars = total
      /\ kind = "holdout" => /\ limit' + embargo' + HoldoutBars = total
                             /\ \A h \in Horizons : h <= embargo'
  <2>1. CASE UseAll
    BY <1>2, <2>1 DEF UseAll, TypeOK
  <2>2. CASE SplitReplayWindow
    <3>1. RequiredSamples(config) \in Nat
      BY <1>2, PurgeCovers DEF RequiredSamples
    <3>2. MinimumBars(config) \in Nat
      BY <3>1 DEF MinimumBars
    <3> QED
      BY <1>2, <2>2, <3>2 DEF SplitReplayWindow, TypeOK
  <2>3. CASE PartitionHoldout
    BY <1>2, <2>3 DEF PartitionHoldout, TypeOK
  <2> QED
    BY <2>1, <2>2, <2>3
<1>4. window = {} /\ end = 0
  BY <1>1 DEF IInv, Judged, Covered, TypeOK
<1>5. TypeOK'
  BY <1>1, <1>2, <1>3 DEF TypeOK, Points, given, dataset, split, judgement, Samples
<1>6. Reserved' /\ Covered'
  <2>1. total' = total /\ kind' = kind /\ end' = end
    BY <1>1 DEF given, dataset
  <2>2. Reserved'
    BY <1>1, <1>3, <2>1 DEF Reserved
  <2>3. Covered'
    BY <1>1, <1>3, <1>4, <2>1 DEF Covered
  <2> QED
    BY <2>2, <2>3
<1>7. Spaced' /\ Split'
  BY <1>1 DEF IInv, Spaced, Split, Samples, RequiredSamples, dataset, split
<1>8. Trained' /\ Judged'
  BY <1>1, <1>4 DEF Trained, Judged, ReplayIsReserved, HoldoutUnseen, judgement
<1> QED
  BY <1>5, <1>6, <1>7, <1>8 DEF IInv

(* Steps of the loop that only move the program point, and not into "folding". *)
LEMMA PointStep ==
  ASSUME IInv,
         RefuseFrame \/ Keep \/ TooFew \/ FailFold \/ EndSplit \/ Fail \/ GiveUp
            \/ Open \/ RefuseJudgement
  PROVE  IInv'
<1>1. UNCHANGED <<given, reserved, config, dataset, split, through, judgement>>
  BY DEF RefuseFrame, Keep, TooFew, FailFold, EndSplit, Fail, GiveUp, Open, RefuseJudgement
<1>2. pc \notin {"done"} /\ window = {}
  BY DEF IInv, Judged, RefuseFrame, Keep, TooFew, FailFold, EndSplit, Fail, GiveUp, Open,
         RefuseJudgement
<1>3. TypeOK /\ TypeOK'
  BY <1>1 DEF IInv, TypeOK, Points, given, reserved, dataset, split, judgement, Samples,
         RefuseFrame, Keep, TooFew, FailFold, EndSplit, Fail, GiveUp, Open, RefuseJudgement
<1>4. Reserved'
  BY <1>1 DEF IInv, Reserved, given, reserved,
         RefuseFrame, Keep, TooFew, FailFold, EndSplit, Fail, GiveUp, Open, RefuseJudgement
<1>5. Covered'
  BY <1>1, <1>3 DEF IInv, Covered, Reserved, TypeOK, given, reserved, dataset,
         RefuseFrame, Keep, TooFew, FailFold, EndSplit, Fail, GiveUp, Open, RefuseJudgement
<1>6. Split'
  <2>1. Split /\ RequiredSamples(config)' = RequiredSamples(config)
    BY <1>1 DEF IInv, RequiredSamples
  <2>2. CASE EndSplit
    <3>1. folds # <<>>
      BY <1>3, <2>1, <2>2, PurgeCovers, FoldAssumption
         DEF EndSplit, MoreFolds, Split, RequiredSamples, TypeOK
    <3> QED
      BY <1>1, <2>1, <2>2, <3>1 DEF EndSplit, Split, dataset, split
  <2>3. CASE TooFew
    BY <1>1, <2>1, <2>3 DEF TooFew, Split, RequiredSamples, dataset, split
  <2>4. CASE Keep
    BY <1>1, <2>1, <2>4 DEF Keep, Split, dataset, split
  <2>5. CASE RefuseFrame \/ FailFold \/ Fail \/ GiveUp \/ Open \/ RefuseJudgement
    <3>1. pc' \notin {"folding", "judged", "short", "validating"}
      BY <2>5 DEF RefuseFrame, FailFold, Fail, GiveUp, Open, RefuseJudgement
    <3> QED
      BY <1>1, <2>1, <3>1 DEF Split, dataset, split
  <2> QED
    BY <2>2, <2>3, <2>4, <2>5
<1>7. Trained'
  BY <1>1 DEF IInv, Trained, Samples, given, reserved, dataset,
         RefuseFrame, Keep, TooFew, FailFold, EndSplit, Fail, GiveUp, Open, RefuseJudgement
<1>8. Judged'
  BY <1>1, <1>2, Kept DEF Judged, judgement
<1> QED
  BY <1>1, <1>3, <1>4, <1>5, <1>6, <1>7, <1>8, Kept DEF IInv

LEMMA BuiltStep ==
  ASSUME IInv, Built
  PROVE  IInv'
<1>1. /\ UNCHANGED <<given, reserved, config, dataset, split, through, judgement>>
      /\ window = {}
  BY DEF IInv, Judged, Built
<1>2. TypeOK'
  BY <1>1 DEF IInv, Built, TypeOK, Points, given, reserved, dataset, split, judgement, Samples
<1>3. Reserved' /\ Covered'
  BY <1>1 DEF IInv, Built, Reserved, Covered, Goal, given, reserved, dataset
<1>4. Split' /\ Trained'
  BY <1>1 DEF IInv, Built, Split, Trained, Samples, RequiredSamples, given, reserved, dataset, split
<1>5. Judged'
  BY <1>1, Kept DEF Judged, judgement
<1> QED
  BY <1>1, <1>2, <1>3, <1>4, <1>5, Kept DEF IInv

(* A sample comes after all others, and a later row keeps the order. *)
LEMMA SampleStep ==
  ASSUME IInv, Sample
  PROVE  IInv'
<1> USE BarsAssumption
<1>1. /\ UNCHANGED <<given, reserved, config, pc, split, through, judgement>>
      /\ rows' = Append(rows, end) /\ end' = end + 1 /\ end < Goal
      /\ end - Lookback + 1 >= Warmup
      /\ pc \in {"building", "extending"} /\ window = {}
  BY DEF IInv, Judged, Sample
<1>2. TypeOK /\ rows \in Seq(Nat) /\ Len(rows) \in Nat /\ end \in Nat
  BY DEF IInv, TypeOK
<1>3. /\ Len(rows') = Len(rows) + 1 /\ rows' \in Seq(Nat)
      /\ rows'[Len(rows) + 1] = end
      /\ \A i \in Samples : rows'[i] = rows[i]
      /\ \A i \in Samples' : i \in Samples \/ i = Len(rows) + 1
      /\ Samples \subseteq Samples'
  BY <1>1, <1>2 DEF Samples
<1>4. TypeOK'
  BY <1>1, <1>2, <1>3 DEF TypeOK, given, reserved, split, judgement
<1>5. Reserved' /\ Covered'
  BY <1>1, <1>2 DEF IInv, Reserved, Covered, Goal, TypeOK, given, reserved
<1>6. Spaced'
  <2>1. \A i \in Samples : i \in Nat /\ i <= Len(rows) /\ rows[i] \in Nat
    BY <1>2 DEF Samples
  <2>2. ASSUME NEW i \in Samples'
        PROVE  Warmup + Lookback - 1 <= rows'[i] /\ rows'[i] < end'
    <3>1. CASE i \in Samples
      <4>1. Warmup + Lookback - 1 <= rows[i] /\ rows[i] < end
        BY <3>1 DEF IInv, Spaced
      <4>2. rows'[i] = rows[i] /\ rows[i] \in Nat
        BY <1>3, <2>1, <3>1
      <4>3. end' = end + 1
        BY <1>1
      <4> QED
        BY <1>2, <4>1, <4>2, <4>3
    <3>2. CASE i = Len(rows) + 1
      <4>1. rows'[i] = end
        BY <1>3, <3>2
      <4>2. Warmup + Lookback - 1 <= end /\ end < end'
        BY <1>1, <1>2
      <4> QED
        BY <4>1, <4>2
    <3> QED
      BY <1>3, <3>1, <3>2
  <2>3. ASSUME NEW i \in Samples', NEW j \in Samples', i <= j
        PROVE  rows'[i] + (j - i) <= rows'[j]
    <3>1. CASE j \in Samples /\ i \in Samples
      <4>1. rows[i] + (j - i) <= rows[j]
        BY <2>3, <3>1 DEF IInv, Spaced
      <4> QED
        BY <1>3, <3>1, <4>1
    <3>2. CASE i = Len(rows) + 1 /\ j = Len(rows) + 1
      BY <1>2, <1>3, <3>2
    <3>3. CASE i \in Samples /\ j = Len(rows) + 1
      <4>1. Len(rows) \in Samples /\ i <= Len(rows)
        BY <1>2, <3>3 DEF Samples
      <4>2. rows[i] + (Len(rows) - i) <= rows[Len(rows)] /\ rows[Len(rows)] < end
        BY <4>1, <3>3 DEF IInv, Spaced
      <4>3. rows'[i] = rows[i] /\ rows'[j] = end
        BY <1>3, <3>3
      <4>4. rows[i] \in Nat /\ i \in Nat /\ rows[Len(rows)] \in Nat
        BY <2>1, <3>3, <4>1
      <4>5. rows[i] + (j - i) <= end
        BY <1>2, <3>3, <4>2, <4>4
      <4> QED
        BY <4>3, <4>5
    <3>4. CASE i = Len(rows) + 1 /\ j \in Samples
      BY <1>2, <2>1, <2>3, <3>4
    <3> QED
      BY <1>3, <3>1, <3>2, <3>3, <3>4
  <2> QED
    BY <2>2, <2>3 DEF Spaced
<1>7. Split'
  <2>1. \A f \in 1 .. Len(folds) : folds[f] \in Fold
    BY <1>2 DEF TypeOK
  <2> QED
    BY <1>1, <1>2, <1>3, <2>1, FoldAssumption DEF IInv, Split, Fold, split
<1>8. Trained'
  BY <1>1, <1>2, <1>3 DEF IInv, Trained, Covered, TypeOK, given, reserved
<1>9. Judged'
  BY <1>1 DEF Judged, ReplayIsReserved, HoldoutUnseen, judgement
<1> QED
  BY <1>4, <1>5, <1>6, <1>7, <1>8, <1>9 DEF IInv

LEMMA SkipStep ==
  ASSUME IInv, Skip
  PROVE  IInv'
<1>1. /\ UNCHANGED <<given, reserved, config, pc, rows, split, through, judgement>>
      /\ end' = end + 1 /\ end < Goal
      /\ pc \in {"building", "extending"} /\ window = {}
  BY DEF IInv, Judged, Skip
<1>2. TypeOK /\ TypeOK'
  BY <1>1 DEF IInv, TypeOK, given, reserved, split, judgement, Samples
<1>3. Reserved' /\ Covered'
  BY <1>1, <1>2 DEF IInv, Reserved, Covered, Goal, TypeOK, given, reserved
<1>4. Spaced'
  <2>1. Samples' = Samples /\ \A i \in Samples : rows[i] \in Nat
    BY <1>1, <1>2, SamplesFinite DEF Samples
  <2> QED
    BY <1>1, <1>2, <2>1 DEF IInv, Spaced, TypeOK
<1>5. Split' /\ Trained'
  BY <1>1 DEF IInv, Split, Trained, Samples, given, reserved, split
<1>6. Judged'
  BY <1>1 DEF Judged, ReplayIsReserved, HoldoutUnseen, judgement
<1> QED
  BY <1>2, <1>3, <1>4, <1>5, <1>6 DEF IInv

(* A trial starts a validation without folds, for a configuration that is one. *)
LEMMA TrialStep ==
  ASSUME IInv, Trial
  PROVE  IInv'
<1> USE BarsAssumption
<1>1. /\ UNCHANGED <<given, reserved, dataset, validation_start, through, judgement>>
      /\ folds' = <<>> /\ pc' = "validating"
      /\ pc \in {"choosing", "judged"} /\ window = {}
  BY DEF IInv, Judged, Trial
<1>2. config' \in Configs
  BY DEF Trial, Configs
<1>3. TypeOK'
  BY <1>1, <1>2 DEF IInv, TypeOK, Points, given, reserved, dataset, judgement, Samples
<1>4. Reserved' /\ Covered' /\ Spaced'
  BY <1>1 DEF IInv, Reserved, Covered, Spaced, Samples, given, reserved, dataset
<1>5. Split' /\ Trained'
  BY <1>1 DEF Split, Trained
<1>6. Judged'
  BY <1>1 DEF Judged, ReplayIsReserved, HoldoutUnseen, judgement
<1> QED
  BY <1>3, <1>4, <1>5, <1>6 DEF IInv

LEMMA StartSplitStep ==
  ASSUME IInv, StartSplit
  PROVE  IInv'
<1> USE BarsAssumption, FoldAssumption
<1>1. /\ UNCHANGED <<given, reserved, config, dataset, through, judgement>>
      /\ validation_start' = MinTrain + config.purge
      /\ folds' = <<>> /\ pc' = "folding"
      /\ pc = "validating" /\ window = {}
      /\ Len(rows) >= RequiredSamples(config)
  BY DEF IInv, Judged, StartSplit
<1>2. TypeOK'
  BY <1>1, PurgeCovers DEF IInv, TypeOK, Points, given, reserved, dataset, judgement, Samples
<1>3. Reserved' /\ Covered' /\ Spaced'
  BY <1>1 DEF IInv, Reserved, Covered, Spaced, Samples, given, reserved, dataset
<1>4. Split' /\ Trained'
  BY <1>1, PurgeCovers DEF IInv, Split, Trained, RequiredSamples, dataset
<1>5. Judged'
  BY <1>1 DEF Judged, ReplayIsReserved, HoldoutUnseen, judgement
<1> QED
  BY <1>2, <1>3, <1>4, <1>5 DEF IInv

(* The next fold ends its training a purge before its validation window,     *)
(* which ends within the samples.                                            *)
LEMMA NextFoldStep ==
  ASSUME IInv, NextFold
  PROVE  IInv'
<1> USE FoldAssumption
<1> DEFINE F == [train_end |-> validation_start - config.purge, start |-> validation_start]
<1>1. /\ UNCHANGED <<given, reserved, config, pc, dataset, through, judgement>>
      /\ folds' = Append(folds, F)
      /\ validation_start' = validation_start + StepBars
      /\ pc = "folding" /\ window = {}
      /\ validation_start + ValidationBars <= Len(rows)
  BY DEF IInv, Judged, NextFold, MoreFolds
<1>2. TypeOK /\ Split /\ folds \in Seq(Fold) /\ validation_start \in Nat
  BY DEF IInv, TypeOK
<1>3. config.purge \in Nat /\ validation_start >= MinTrain + config.purge
  BY <1>1, <1>2, PurgeCovers DEF Split
<1>4. F \in Fold
  BY <1>2, <1>3 DEF Fold
<1>5. /\ folds' \in Seq(Fold) /\ folds' # <<>>
      /\ Len(folds') = Len(folds) + 1 /\ Len(folds) \in Nat
      /\ folds'[Len(folds) + 1] = F
      /\ \A f \in 1 .. Len(folds) : folds'[f] = folds[f]
  <2> HIDE DEF F
  <2> QED
    BY <1>1, <1>2, <1>4
<1>6. TypeOK'
  BY <1>1, <1>2, <1>5 DEF TypeOK, given, reserved, dataset, judgement, Samples
<1>7. Reserved' /\ Covered' /\ Spaced'
  BY <1>1 DEF IInv, Reserved, Covered, Spaced, Samples, given, reserved, dataset
<1>8. Split'
  <2>1. rows' = rows /\ config' = config
    BY <1>1 DEF dataset
  <2>2. ASSUME NEW f \in 1 .. Len(folds')
        PROVE  /\ folds'[f].train_end + config.purge = folds'[f].start
               /\ folds'[f].start + ValidationBars <= Len(rows)
    <3>1. CASE f \in 1 .. Len(folds)
      BY <1>2, <1>5, <3>1 DEF Split
    <3>2. CASE f = Len(folds) + 1
      <4>1. folds'[f].train_end = validation_start - config.purge /\ folds'[f].start = validation_start
        BY <1>5, <3>2
      <4> QED
        BY <1>1, <1>2, <1>3, <4>1
    <3> QED
      BY <1>5, <3>1, <3>2
  <2>3. pc' = "folding" /\ RequiredSamples(config)' = RequiredSamples(config)
    BY <1>1, <2>1 DEF RequiredSamples
  <2>4. Len(rows) >= RequiredSamples(config) /\ validation_start' >= MinTrain + config.purge
    BY <1>1, <1>2, <1>3 DEF Split
  <2> QED
    BY <1>5, <2>1, <2>2, <2>3, <2>4 DEF Split
<1>9. Trained' /\ Judged'
  BY <1>1 DEF Trained, Judged, ReplayIsReserved, HoldoutUnseen, judgement
<1> QED
  BY <1>6, <1>7, <1>8, <1>9 DEF IInv

(* The last sample is the latest one, so none comes after the cutoff yet. *)
LEMMA TrainStep ==
  ASSUME IInv, Train
  PROVE  IInv'
<1> USE BarsAssumption, FoldAssumption
<1>1. /\ UNCHANGED <<given, reserved, config, dataset, split, judgement>>
      /\ through' = rows[Len(rows)]
      /\ pc' = IF kind = "replay" THEN "extending" ELSE "done"
      /\ pc = "judged" /\ window = {} /\ kind # "holdout"
  BY DEF IInv, Judged, Train
<1>2. /\ TypeOK /\ Spaced /\ end = limit
      /\ Len(rows) \in Nat /\ (\A i \in Samples : rows[i] \in Nat)
      /\ end \in Nat /\ limit <= total
  BY <1>1, SamplesFinite DEF IInv, TypeOK, Covered, Reserved
<1>3. Len(rows) >= 1
  BY <1>1, <1>2, PurgeCovers DEF IInv, Split, RequiredSamples
<1>4. Len(rows) \in Samples
  BY <1>2, <1>3 DEF Samples
<1>5. TypeOK'
  BY <1>1, <1>2, <1>4 DEF TypeOK, Points, given, reserved, dataset, split, judgement, Samples
<1>6. Reserved' /\ Covered' /\ Spaced' /\ Split'
  BY <1>1, <1>2 DEF IInv, Reserved, Covered, Spaced, Split, Samples, TypeOK,
     given, reserved, dataset, split
<1>7. Trained'
  <2>1. through' < limit
    BY <1>1, <1>2, <1>4 DEF Spaced
  <2>2. ASSUME NEW i \in Samples
        PROVE  ~(rows[i] > rows[Len(rows)])
    <3>1. i \in Nat /\ i <= Len(rows) /\ rows[i] \in Nat /\ rows[Len(rows)] \in Nat
      BY <1>2, <1>4 DEF Samples
    <3>2. rows[i] + (Len(rows) - i) <= rows[Len(rows)]
      BY <1>2, <1>4, <3>1 DEF Spaced
    <3> QED
      BY <1>2, <3>1, <3>2
  <2>3. rows' = rows /\ Samples' = Samples /\ limit' = limit
    BY <1>1 DEF dataset, reserved, Samples
  <2> QED
    BY <1>1, <2>1, <2>2, <2>3 DEF Trained
<1>8. Judged'
  BY <1>1 DEF Judged, ReplayIsReserved, HoldoutUnseen, judgement
<1> QED
  BY <1>5, <1>6, <1>7, <1>8 DEF IInv

(* As many samples after the cutoff as bars were reserved: one at each. *)
LEMMA ReplayStep ==
  ASSUME IInv, Replay
  PROVE  IInv'
<1> USE ReserveAssumption
<1> DEFINE T == limit .. total - 1
           f == [i \in Eligible |-> rows[i]]
<1>1. /\ UNCHANGED <<given, reserved, config, dataset, split, through, training, early_stop>>
      /\ window' = Latest(Eligible, ReplayBars)
      /\ pc' = "done" /\ pc = "judging" /\ kind = "replay"
      /\ Cardinality(Eligible) >= ReplayBars
  BY DEF Replay
<1>2. /\ TypeOK /\ Spaced /\ Trained /\ end = total /\ limit + ReplayBars = total
      /\ total \in Nat /\ limit \in Nat
  BY <1>1 DEF IInv, TypeOK, Covered, Reserved
<1>3. /\ Eligible \subseteq Samples /\ Eligible \subseteq Nat /\ IsFiniteSet(Eligible)
      /\ \A i \in Eligible : rows[i] \in Nat
  BY <1>2, SamplesFinite, FS_Subset DEF Eligible
<1>4. \A i \in Eligible : rows[i] \in T
  <2>1. ASSUME NEW i \in Eligible
        PROVE  limit <= rows[i] /\ rows[i] < end
    BY <1>1, <1>2, <1>3 DEF Eligible, Spaced, Trained
  <2> QED
    BY <1>2, <1>3, <2>1
<1>5. f \in Injection(Eligible, T)
  <2>1. ASSUME NEW i \in Eligible, NEW j \in Eligible, rows[i] = rows[j]
        PROVE  i = j
    <3>1. /\ i \in Nat /\ j \in Nat /\ rows[i] \in Nat
          /\ i <= j => rows[i] + (j - i) <= rows[j]
          /\ j <= i => rows[j] + (i - j) <= rows[i]
      BY <1>2, <1>3 DEF Spaced
    <3> QED
      BY <2>1, <3>1
  <2> QED
    BY <1>4, <2>1 DEF Injection, IsInjective
<1>6. IsFiniteSet(T) /\ Cardinality(T) = ReplayBars
  BY <1>2, FS_Interval
<1>7. Cardinality(Eligible) = ReplayBars /\ f \in Surjection(Eligible, T)
  <2>1. /\ Cardinality(Eligible) <= Cardinality(T)
        /\ Cardinality(Eligible) = Cardinality(T) <=> f \in Surjection(Eligible, T)
    <3> HIDE DEF f
    <3> QED
      BY <1>5, <1>6, FS_Injection
  <2>2. Cardinality(Eligible) \in Nat
    BY <1>3, FS_CardinalityType
  <2> QED
    BY <1>1, <1>6, <2>1, <2>2
<1>8. window' = Eligible
  BY <1>1, <1>3, <1>7, LatestWhole
<1>9. {rows[i] : i \in Eligible} = T
  BY <1>4, <1>7 DEF Surjection
<1>10. TypeOK'
  BY <1>1, <1>2, <1>3, <1>8 DEF TypeOK, Points, given, reserved, dataset, split, Samples
<1>11. Reserved' /\ Covered' /\ Spaced' /\ Split' /\ Trained'
  BY <1>1, <1>2 DEF IInv, Reserved, Covered, Spaced, Split, Trained, Samples,
     given, reserved, dataset, split
<1>12. Judged'
  <2>1. /\ rows' = rows /\ total' = total /\ kind' = "replay" /\ limit = total - ReplayBars
    BY <1>1, <1>2 DEF given, dataset
  <2> QED
    BY <1>1, <1>8, <1>9, <2>1 DEF Judged, ReplayIsReserved, HoldoutUnseen
<1> QED
  BY <1>10, <1>11, <1>12 DEF IInv

(* The holdout lies behind its embargo, and training more than a horizon      *)
(* before early stopping.                                                    *)
LEMMA EvaluateStep ==
  ASSUME IInv, Evaluate
  PROVE  IInv'
<1> USE BarsAssumption, FoldAssumption, ReserveAssumption
<1> DEFINE h == config.horizon
<1>1. /\ UNCHANGED <<given, reserved, config, dataset, split, through>>
      /\ early_stop' = Latest(Research, ValidationBars)
      /\ training' = Research \ Latest(Research, ValidationBars + h)
      /\ window' = Holdout
      /\ pc' = "done" /\ pc = "judging" /\ kind = "holdout"
  BY DEF Evaluate
<1>2. /\ TypeOK /\ Spaced /\ limit + embargo + HoldoutBars = total
      /\ (\A g \in Horizons : g <= embargo)
      /\ total \in Nat /\ limit \in Nat /\ embargo \in Nat /\ h \in Nat
  BY <1>1, PurgeCovers DEF IInv, TypeOK, Reserved
<1>3. /\ Research \subseteq Samples /\ Research \subseteq Nat /\ IsFiniteSet(Research)
      /\ \A i \in Samples : rows[i] \in Nat
  BY <1>2, SamplesFinite, FS_Subset DEF Research
<1>4. early_stop' \subseteq Research /\ training' \subseteq Research
  BY <1>1 DEF Latest
<1>5. \A i \in training' \cup early_stop' : rows[i] + h < limit
  BY <1>4 DEF Research
<1>6. ASSUME NEW i \in window'
      PROVE  /\ \A g \in Horizons : limit + g <= rows[i]
             /\ rows[i] + h < total
  <2>1. rows[i] \in Nat /\ rows[i] >= total - HoldoutBars /\ rows[i] + h < total
    BY <1>1, <1>3 DEF Holdout
  <2> QED
    BY <1>2, <2>1
<1>7. ASSUME NEW t \in training', NEW e \in early_stop'
      PROVE  rows[t] + h < rows[e]
  <2>1. t + h < e
    BY <1>1, <1>2, <1>3, LatestApart
  <2>2. t \in Samples /\ e \in Samples /\ t \in Nat /\ e \in Nat
    BY <1>3, <1>4
  <2>3. rows[t] + (e - t) <= rows[e]
    BY <1>2, <2>1, <2>2 DEF Spaced
  <2> QED
    BY <1>2, <1>3, <2>1, <2>2, <2>3
<1>8. TypeOK'
  <2>1. window' \subseteq Samples
    BY <1>1 DEF Holdout
  <2> QED
    BY <1>1, <1>2, <1>3, <1>4, <2>1 DEF TypeOK, Points, given, reserved, dataset, split, Samples
<1>9. Reserved' /\ Covered' /\ Spaced' /\ Split' /\ Trained'
  BY <1>1, <1>2 DEF IInv, Reserved, Covered, Spaced, Split, Trained, Samples,
     given, reserved, dataset, split
<1>10. Judged'
  <2>1. rows' = rows /\ total' = total /\ limit' = limit /\ config' = config /\ kind' = "holdout"
    BY <1>1 DEF given, reserved, dataset
  <2> QED
    BY <1>1, <1>5, <1>6, <1>7, <2>1 DEF Judged, ReplayIsReserved, HoldoutUnseen
<1> QED
  BY <1>8, <1>9, <1>10 DEF IInv

LEMMA StutterStep ==
  ASSUME IInv, UNCHANGED vars
  PROVE  IInv'
<1>1. /\ UNCHANGED <<given, reserved, config, dataset, split, through, judgement>>
      /\ pc' = pc
  BY DEF vars
<1>2. TypeOK' /\ Reserved' /\ Covered'
  BY <1>1 DEF IInv, TypeOK, Reserved, Covered, Samples, given, reserved, dataset, split, judgement
<1>3. Split' /\ Trained' /\ Judged'
  BY <1>1, Kept DEF IInv, Split, Trained, Judged, Samples, RequiredSamples,
     given, reserved, dataset, split, judgement
<1> QED
  BY <1>1, <1>2, <1>3, Kept DEF IInv

----------------------------------------------------------------------------
(* The invariant is inductive: no operation on a frame breaks it. *)
LEMMA Inductive == IInv /\ [Next]_vars => IInv'
<1> SUFFICES ASSUME IInv, [Next]_vars PROVE IInv'
  OBVIOUS
<1>1. CASE UseAll \/ SplitReplayWindow \/ PartitionHoldout
  BY <1>1, ReserveStep
<1>2. CASE RefuseFrame \/ Keep \/ TooFew \/ FailFold \/ EndSplit \/ Fail \/ GiveUp
              \/ Open \/ RefuseJudgement
  BY <1>2, PointStep
<1>3. CASE Sample \/ Skip \/ Built
  BY <1>3, SampleStep, SkipStep, BuiltStep
<1>4. CASE Trial \/ StartSplit \/ NextFold
  BY <1>4, TrialStep, StartSplitStep, NextFoldStep
<1>5. CASE Train \/ Replay \/ Evaluate
  BY <1>5, TrainStep, ReplayStep, EvaluateStep
<1>6. CASE UNCHANGED vars
  BY <1>6, StutterStep
<1> QED
  BY <1>1, <1>2, <1>3, <1>4, <1>5, <1>6 DEF Next

(* The inductive invariant holds of every frame and every configuration. *)
THEOREM Invariance == Spec => []IInv
  BY InitHolds, Inductive, PTL DEF Spec

(* Every variable keeps its type. *)
THEOREM TypeCorrect == Spec => []TypeOK
<1>1. IInv => TypeOK
  BY DEF IInv
<1> QED
  BY <1>1, Invariance, PTL

(* No label a fold trains on reads a bar that validates the fold: samples are  *)
(* at least as many bars apart as samples, and the purge covers the horizon.   *)
THEOREM FoldsArePurged == Spec => []FoldsPurged
<1>1. IInv => FoldsPurged
  <2> SUFFICES ASSUME IInv, NEW f \in 1 .. Len(folds), NEW i \in 1 .. folds[f].train_end,
                      NEW j \in folds[f].start + 1 .. folds[f].start + ValidationBars
               PROVE  rows[i] + config.horizon < rows[j]
    BY DEF FoldsPurged
  <2>1. /\ folds[f].train_end \in Nat /\ folds[f].start \in Nat
        /\ ValidationBars \in Nat
    <3>1. folds \in Seq(Fold)
      BY DEF IInv, TypeOK
    <3>2. folds[f] \in Fold
      BY <3>1
    <3> QED
      BY <3>2, FoldAssumption DEF Fold
  <2>2. /\ folds[f].train_end + config.purge = folds[f].start
        /\ folds[f].start + ValidationBars <= Len(rows)
    BY DEF IInv, Split
  <2>3. /\ config.horizon \in Nat /\ config.purge \in Nat /\ config.purge >= config.horizon
        /\ Len(rows) \in Nat /\ \A k \in Samples : rows[k] \in Nat
    BY PurgeCovers, SamplesFinite DEF IInv
  <2>4. i \in Samples /\ j \in Samples /\ i + config.horizon < j /\ i \in Nat /\ j \in Nat
    <3>1. /\ i \in Nat /\ 1 <= i /\ i <= folds[f].train_end
          /\ j \in Nat /\ folds[f].start + 1 <= j /\ j <= folds[f].start + ValidationBars
      BY <2>1
    <3>2. i + config.horizon < j /\ i <= Len(rows) /\ 1 <= j /\ j <= Len(rows)
      <4> DEFINE t == folds[f].train_end
                 u == folds[f].start
                 h == config.horizon
                 p == config.purge
                 n == Len(rows)
      <4>1. /\ t \in Nat /\ u \in Nat /\ h \in Nat /\ p \in Nat /\ n \in Nat
            /\ ValidationBars \in Nat /\ i \in Nat /\ j \in Nat
            /\ i <= t /\ t + p = u /\ u + 1 <= j /\ j <= u + ValidationBars
            /\ u + ValidationBars <= n /\ p >= h
        BY <2>1, <2>2, <2>3, <3>1
      <4> HIDE DEF t, u, h, p, n
      <4>2. i + h < j /\ i <= n /\ 1 <= j /\ j <= n
        BY <4>1
      <4> QED
        BY <4>2 DEF h, n
    <3> QED
      BY <2>3, <3>1, <3>2 DEF Samples
  <2>5. rows[i] + (j - i) <= rows[j]
    <3>1. \A k, l \in Samples : k <= l => rows[k] + (l - k) <= rows[l]
      BY DEF IInv, Spaced
    <3>2. i \in Samples /\ j \in Samples
      BY <2>4
    <3>3. i <= j
      BY <2>3, <2>4
    <3> HIDE DEF Samples
    <3> QED
      BY <3>1, <3>2, <3>3
  <2>6. rows[i] \in Nat /\ rows[j] \in Nat
    BY <2>3, <2>4
  <2> QED
    BY <2>3, <2>4, <2>5, <2>6
<1> QED
  BY <1>1, Invariance, PTL

(* minimum_required_bars is exact: what is split has that many bars, what is   *)
(* refused without a gap has fewer, and what is judged has a fold.             *)
THEOREM MinimumBarsAreExact == Spec => []MinimumIsExact
<1>1. IInv => MinimumIsExact
  <2> SUFFICES ASSUME IInv PROVE MinimumIsExact
    OBVIOUS
  <2> USE BarsAssumption, FoldAssumption
  <2>1. /\ config.purge \in Nat /\ Len(rows) \in Nat /\ \A k \in Samples : rows[k] \in Nat
        /\ end \in Nat /\ limit \in Nat
    BY PurgeCovers, SamplesFinite DEF IInv, TypeOK
  <2>2. ASSUME pc \in {"folding", "judged"}
        PROVE  limit >= MinimumBars(config)
    <3>1. Len(rows) >= RequiredSamples(config) /\ end = limit
      BY <2>2 DEF IInv, Split, Covered
    <3>2. 1 \in Samples /\ Len(rows) \in Samples /\ 1 <= Len(rows)
      BY <2>1, <3>1 DEF RequiredSamples, Samples
    <3>3. /\ Warmup + Lookback - 1 <= rows[1] /\ rows[Len(rows)] < end
          /\ rows[1] + (Len(rows) - 1) <= rows[Len(rows)]
      BY <2>1, <3>2 DEF IInv, Spaced
    <3>4. rows[1] \in Nat /\ rows[Len(rows)] \in Nat
      BY <2>1, <3>2
    <3>5. \A n, q, w, l, first, last, e \in Nat :
             n >= q /\ w + l - 1 <= first /\ first + (n - 1) <= last /\ last < e
                => e >= q + w + l - 1
      OBVIOUS
    <3>6. RequiredSamples(config) \in Nat
      BY <2>1 DEF RequiredSamples
    <3>7. end >= RequiredSamples(config) + Warmup + Lookback - 1
      <4> HIDE DEF RequiredSamples
      <4>1. Warmup \in Nat /\ Lookback \in Nat
        OBVIOUS
      <4> QED
        BY <2>1, <3>1, <3>3, <3>4, <3>5, <3>6, <4>1
    <3> QED
      BY <3>1, <3>7 DEF MinimumBars
  <2>3. ASSUME pc = "short", Len(rows) >= limit - (Warmup + Lookback - 1)
        PROVE  limit < MinimumBars(config)
    <3>1. Len(rows) < RequiredSamples(config)
      BY <2>3 DEF IInv, Split
    <3> QED
      BY <2>1, <2>3, <3>1 DEF MinimumBars, RequiredSamples
  <2>4. pc = "judged" => folds # <<>>
    BY DEF IInv, Split
  <2> QED
    BY <2>2, <2>3, <2>4 DEF MinimumIsExact
<1> QED
  BY <1>1, Invariance, PTL

(* A replay judges exactly the bars that were reserved before training. *)
THEOREM ReplaysAreReserved == Spec => []ReplayIsReserved
<1>1. IInv => ReplayIsReserved
  BY DEF IInv, Judged
<1> QED
  BY <1>1, Invariance, PTL

(* Nothing a holdout's model is fitted on reads the holdout or its embargo. *)
THEOREM HoldoutsAreUnseen == Spec => []HoldoutUnseen
<1>1. IInv => HoldoutUnseen
  BY DEF IInv, Judged
<1> QED
  BY <1>1, Invariance, PTL
=============================================================================
