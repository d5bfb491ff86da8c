----------------------------- MODULE Partitions -----------------------------
(***************************************************************************)
(* How one frame of candles is divided so that what is fitted never sees   *)
(* what judges it: the samples of a dataset (dataset.py), the purged folds *)
(* of walk-forward validation (validation.py), the bars reserved for the   *)
(* replay of a challenger (replay.py) and the locked holdout (holdout.py). *)
(*                                                                         *)
(* Candles are row numbers 0 .. total - 1.  A sample is made at each row   *)
(* whose window of features is finite; features look backwards only, so a  *)
(* longer frame has the same samples and more, and the dataset is built on *)
(* from the research rows instead of anew.  Samples are counted from 1.    *)
(* Classes, fits and metrics are a choice to fail or to pass.              *)
(***************************************************************************)
EXTENDS Integers, Sequences, FiniteSets

CONSTANTS MaxBars,         \* bound on the length of a frame
          Warmup,          \* feature_warmup_rows: first row with all features
          Lookback,        \* lookback_bars: rows of a sample's window
          Horizons,        \* horizon_bars of the configuration and its search
          Purges,          \* purge_bars a configuration may ask for
          MinTrain,        \* min_train_bars
          ValidationBars,  \* validation_bars
          StepBars,        \* step_bars
          MaxFolds,        \* max_folds
          ReplayBars,      \* recent_replay_bars
          HoldoutBars,     \* bars of the final holdout
          MinHoldout,      \* fewest samples a holdout is judged on
          Embargoes        \* embargo_bars a run may ask for

ASSUME BarsAssumption ==
    /\ MaxBars \in Nat /\ Warmup \in Nat /\ Lookback \in Nat \ {0}
    /\ Horizons \subseteq Nat \ {0} /\ Purges \subseteq Nat
ASSUME FoldAssumption ==
    /\ MinTrain \in Nat \ {0} /\ ValidationBars \in Nat \ {0}
    /\ StepBars \in Nat \ {0} /\ MaxFolds \in Nat \ {0}
ASSUME ReserveAssumption ==
    /\ ReplayBars \in Nat \ {0} /\ HoldoutBars \in Nat \ {0}
    /\ MinHoldout \in Nat \ {0} /\ Embargoes \subseteq Nat

VARIABLES
    kind,              \* what the frame is used for
    searching,         \* a search chooses the configuration
    total,             \* rows of the frame
    limit,             \* rows given to search and training: research_end
    embargo,           \* rows between them and the holdout
    config,            \* the configuration under validation
    pc,                \* program point
    end,               \* next row to make a sample of
    rows,              \* source_rows: the row of each sample
    validation_start,  \* samples before the next validation window
    folds,             \* folds of the current validation
    through,           \* latest_feature_timestamp of the trained bundle
    training,          \* samples the holdout's model is fitted on
    early_stop,        \* samples that stop its fitting
    window             \* samples that judge: the replay's or the holdout's

given == <<kind, searching, total>>
reserved == <<limit, embargo>>
dataset == <<end, rows>>
split == <<validation_start, folds>>
judgement == <<training, early_stop, window>>
vars == <<given, reserved, config, pc, dataset, split, through, judgement>>

Kinds == {"research", "replay", "holdout"}
Configs == {c \in [horizon : Horizons, purge : Purges \cup Horizons] : c.purge >= c.horizon}
Fold == [train_end : Nat, start : Nat]
Points == {"reserving", "building", "choosing", "validating", "short", "folding",
           "failed", "judged", "extending", "judging", "done", "refused"}

Samples == 1 .. Len(rows)

(* What one walk-forward split needs in samples, and so in bars. *)
RequiredSamples(c) == MinTrain + c.purge + ValidationBars

(* Mutation of MinimumBars: the window's own row is counted twice. *)
MinimumBarsTooMany(c) == RequiredSamples(c) + Warmup + Lookback

MinimumBars(c) == RequiredSamples(c) + Warmup + Lookback - 1

(* The last k of the samples S, as S[-k:] with k > 0. *)
Latest(S, k) == {i \in S : Cardinality({j \in S : j > i}) < k}

----------------------------------------------------------------------------
Init ==
    /\ kind \in Kinds
    /\ searching \in BOOLEAN
    /\ kind = "holdout" => searching
    /\ total \in 0 .. MaxBars
    /\ limit = 0
    /\ embargo = 0
    /\ config \in Configs
    /\ pc = "reserving"
    /\ end = 0
    /\ rows = <<>>
    /\ validation_start = 0
    /\ folds = <<>>
    /\ through = 0
    /\ training = {}
    /\ early_stop = {}
    /\ window = {}

(* search, validate and train use the whole frame. *)
UseAll ==
    /\ pc = "reserving"
    /\ kind = "research"
    /\ limit' = total
    /\ pc' = "building"
    /\ UNCHANGED <<given, embargo, config, dataset, split, through, judgement>>

(* prepare_replayed_challenger reserves the latest bars first. *)
SplitReplayWindow ==
    /\ pc = "reserving"
    /\ kind = "replay"
    /\ total >= MinimumBars(config) + ReplayBars
    /\ limit' = total - ReplayBars
    /\ pc' = "building"
    /\ UNCHANGED <<given, embargo, config, dataset, split, through, judgement>>

(* A holdout keeps an embargo of at least every horizon in front of it. *)
PartitionHoldout ==
    /\ pc = "reserving"
    /\ kind = "holdout"
    /\ \E e \in Embargoes :
        /\ \A h \in Horizons : h <= e
        /\ total - HoldoutBars - e >= MinTrain
        /\ embargo' = e
        /\ limit' = total - HoldoutBars - e
    /\ pc' = "building"
    /\ UNCHANGED <<given, config, dataset, split, through, judgement>>

(* A frame that fails its quality gates or is too short. *)
RefuseFrame ==
    /\ pc = "reserving"
    /\ pc' = "refused"
    /\ UNCHANGED <<given, reserved, config, dataset, split, through, judgement>>

----------------------------------------------------------------------------
(* The dataset, over the research rows and later over all of them. *)

Goal == IF pc = "building" THEN limit ELSE total

Sample ==
    /\ pc \in {"building", "extending"}
    /\ end < Goal
    /\ end - Lookback + 1 >= Warmup
    /\ rows' = Append(rows, end)
    /\ end' = end + 1
    /\ UNCHANGED <<given, reserved, config, pc, split, through, judgement>>

(* A row whose window begins too early or holds a value that is not finite:  *)
(* a venue with a constant close or volume has such rows in mid-history.     *)
Skip ==
    /\ pc \in {"building", "extending"}
    /\ end < Goal
    /\ end' = end + 1
    /\ UNCHANGED <<given, reserved, config, pc, rows, split, through, judgement>>

Built ==
    /\ pc \in {"building", "extending"}
    /\ end = Goal
    /\ pc' = IF pc = "building" THEN "choosing" ELSE "judging"
    /\ UNCHANGED <<given, reserved, config, dataset, split, through, judgement>>

----------------------------------------------------------------------------
(* Walk-forward validation of a trial of the search, or of the base         *)
(* configuration.                                                           *)

Trial ==
    /\ pc \in {"choosing", "judged"}
    /\ searching
    /\ \E h \in Horizons : config' = [horizon |-> h, purge |-> h]
    /\ folds' = <<>>
    /\ pc' = "validating"
    /\ UNCHANGED <<given, reserved, dataset, validation_start, through, judgement>>

Keep ==
    /\ pc = "choosing"
    /\ ~searching
    /\ pc' = "validating"
    /\ UNCHANGED <<given, reserved, config, dataset, split, through, judgement>>

TooFew ==
    /\ pc = "validating"
    /\ Len(rows) < RequiredSamples(config)
    /\ pc' = "short"
    /\ UNCHANGED <<given, reserved, config, dataset, split, through, judgement>>

StartSplit ==
    /\ pc = "validating"
    /\ Len(rows) >= RequiredSamples(config)
    /\ validation_start' = MinTrain + config.purge
    /\ folds' = <<>>
    /\ pc' = "folding"
    /\ UNCHANGED <<given, reserved, config, dataset, through, judgement>>

MoreFolds == validation_start + ValidationBars <= Len(rows) /\ Len(folds) < MaxFolds

(* Mutation of NextFold: the purge is one sample short. *)
NextFoldShortPurge ==
    /\ pc = "folding"
    /\ MoreFolds
    /\ folds' = Append(folds, [train_end |-> validation_start - config.purge + 1,
                               start |-> validation_start])
    /\ validation_start' = validation_start + StepBars
    /\ UNCHANGED <<given, reserved, config, pc, dataset, through, judgement>>

NextFold ==
    /\ pc = "folding"
    /\ MoreFolds
    /\ folds' = Append(folds, [train_end |-> validation_start - config.purge,
                               start |-> validation_start])
    /\ validation_start' = validation_start + StepBars
    /\ UNCHANGED <<given, reserved, config, pc, dataset, through, judgement>>

(* Too few directional samples in a fold, or a single class. *)
FailFold ==
    /\ pc = "folding"
    /\ MoreFolds
    /\ pc' = "failed"
    /\ UNCHANGED <<given, reserved, config, dataset, split, through, judgement>>

(* All folds are in; the gates pass or not. *)
EndSplit ==
    /\ pc = "folding"
    /\ ~MoreFolds
    /\ pc' \in {"judged", "failed"}
    /\ UNCHANGED <<given, reserved, config, dataset, split, through, judgement>>

(* A failing trial is one trial less; a failing base configuration is the end. *)
Fail ==
    /\ pc \in {"short", "failed"}
    /\ pc' = IF searching THEN "choosing" ELSE "refused"
    /\ UNCHANGED <<given, reserved, config, dataset, split, through, judgement>>

(* No trial passed. *)
GiveUp ==
    /\ pc = "choosing"
    /\ searching
    /\ pc' = "refused"
    /\ UNCHANGED <<given, reserved, config, dataset, split, through, judgement>>

----------------------------------------------------------------------------
(* train_candidate fits on every research sample and notes the latest one. *)
Train ==
    /\ pc = "judged"
    /\ kind # "holdout"
    /\ through' = rows[Len(rows)]
    /\ pc' = IF kind = "replay" THEN "extending" ELSE "done"
    /\ UNCHANGED <<given, reserved, config, dataset, split, judgement>>

(* Mutation of Eligible: the last sample of training counts as unseen. *)
EligibleFromCutoff == {i \in Samples : rows[i] >= through}

Eligible == {i \in Samples : rows[i] > through}

Replay ==
    /\ pc = "judging"
    /\ kind = "replay"
    /\ Cardinality(Eligible) >= ReplayBars
    /\ window' = Latest(Eligible, ReplayBars)
    /\ pc' = "done"
    /\ UNCHANGED <<given, reserved, config, dataset, split, through, training, early_stop>>

(* The holdout's search is over and its selection is committed. *)
Open ==
    /\ pc = "judged"
    /\ kind = "holdout"
    /\ config.horizon <= embargo
    /\ pc' = "extending"
    /\ UNCHANGED <<given, reserved, config, dataset, split, through, judgement>>

(* Mutation of Research: the label may read the first bar of the embargo. *)
ResearchInclusive == {i \in Samples : rows[i] + config.horizon <= limit}

Research == {i \in Samples : rows[i] + config.horizon < limit}

Holdout == {i \in Samples : /\ rows[i] >= total - HoldoutBars
                            /\ rows[i] + config.horizon < total}

Evaluate ==
    /\ pc = "judging"
    /\ kind = "holdout"
    /\ Cardinality(Holdout) >= MinHoldout
    /\ Cardinality(Research) > ValidationBars + config.horizon
    /\ early_stop' = Latest(Research, ValidationBars)
    /\ training' = Research \ Latest(Research, ValidationBars + config.horizon)
    /\ window' = Holdout
    /\ pc' = "done"
    /\ UNCHANGED <<given, reserved, config, dataset, split, through>>

(* Too few samples, or samples without both classes. *)
RefuseJudgement ==
    /\ pc = "judging"
    /\ pc' = "refused"
    /\ UNCHANGED <<given, reserved, config, dataset, split, through, judgement>>

----------------------------------------------------------------------------
Next ==
    \/ UseAll \/ SplitReplayWindow \/ PartitionHoldout \/ RefuseFrame
    \/ Sample \/ Skip \/ Built
    \/ Trial \/ Keep \/ TooFew \/ StartSplit \/ NextFold \/ FailFold \/ EndSplit
    \/ Fail \/ GiveUp
    \/ Train \/ Replay \/ Open \/ Evaluate \/ RefuseJudgement

Spec == Init /\ [][Next]_vars

----------------------------------------------------------------------------
(* Every variable keeps its type; a partition never has negative length. *)
TypeOK ==
    /\ kind \in Kinds /\ searching \in BOOLEAN /\ total \in 0 .. MaxBars
    /\ limit \in Nat /\ embargo \in Nat
    /\ config \in Configs
    /\ pc \in Points
    /\ end \in Nat
    /\ rows \in Seq(Nat)
    /\ validation_start \in Nat
    /\ folds \in Seq(Fold)
    /\ through \in Nat
    /\ training \subseteq Samples /\ early_stop \subseteq Samples /\ window \subseteq Samples

(* No label a fold trains on reads a bar that validates the fold, although  *)
(* the purge counts samples, labels count bars, and bars without a sample   *)
(* lie anywhere between (dataset.py:61-74, labels.py:21,39-58).             *)
FoldsPurged ==
    \A f \in 1 .. Len(folds) :
        \A i \in 1 .. folds[f].train_end,
           j \in folds[f].start + 1 .. folds[f].start + ValidationBars :
            rows[i] + config.horizon < rows[j]

(* minimum_required_bars (validation.py:82-89) and the checks of a validation *)
(* (validation.py:189-198) agree: a frame that is split has that many bars, a *)
(* frame without gaps that is refused has fewer, and a validation that gets   *)
(* to its gates has at least one fold.                                        *)
MinimumIsExact ==
    /\ pc \in {"folding", "judged"} => limit >= MinimumBars(config)
    /\ pc = "short" /\ Len(rows) >= limit - (Warmup + Lookback - 1) => limit < MinimumBars(config)
    /\ pc = "judged" => folds # <<>>

(* A challenger is replayed on exactly the bars that were reserved before    *)
(* its search and training, the latest of the frame (replay.py:28,173).      *)
ReplayIsReserved ==
    kind = "replay" /\ window # {} =>
        {rows[i] : i \in window} = total - ReplayBars .. total - 1

(* No bar that a label of training or early stopping reads lies in the       *)
(* holdout or its embargo, the embargo covers every horizon of the search,   *)
(* no training label reads into early stopping, and the samples that judge   *)
(* are complete (holdout.py:75-82,139-150).                                  *)
HoldoutUnseen ==
    kind = "holdout" /\ window # {} =>
        /\ \A i \in training \cup early_stop : rows[i] + config.horizon < limit
        /\ \A i \in window :
            /\ \A h \in Horizons : limit + h <= rows[i]
            /\ rows[i] + config.horizon < total
        /\ \A i \in training, j \in early_stop : rows[i] + config.horizon < rows[j]

----------------------------------------------------------------------------
(* The inductive invariant. *)

(* The length given to the search is what was reserved of the frame. *)
Reserved ==
    /\ pc \notin {"reserving", "refused"} =>
        /\ kind = "research" => limit = total
        /\ kind = "replay" => limit + ReplayBars = total
        /\ kind = "holdout" => /\ limit + embargo + HoldoutBars = total
                               /\ \A h \in Horizons : h <= embargo
    /\ limit <= total

(* The dataset has been built as far as the program point says. *)
Covered ==
    /\ pc = "reserving" => end = 0
    /\ pc = "building" => end <= limit
    /\ pc \in {"choosing", "validating", "short", "folding", "failed", "judged"} => end = limit
    /\ pc = "extending" => limit <= end /\ end <= total
    /\ pc = "judging" => end = total

(* Samples lie in the rows covered, in order, and at least as many bars apart *)
(* as samples.                                                                *)
Spaced ==
    /\ \A i \in Samples : Warmup + Lookback - 1 <= rows[i] /\ rows[i] < end
    /\ \A i, j \in Samples : i <= j => rows[i] + (j - i) <= rows[j]

(* Folds start within the samples, after their training and its purge. *)
Split ==
    /\ \A f \in 1 .. Len(folds) :
        /\ folds[f].train_end + config.purge = folds[f].start
        /\ folds[f].start + ValidationBars <= Len(rows)
    /\ pc = "folding" =>
        /\ Len(rows) >= RequiredSamples(config)
        /\ validation_start >= MinTrain + config.purge
        /\ folds = <<>> => validation_start = MinTrain + config.purge
    /\ pc = "judged" => folds # <<>> /\ Len(rows) >= RequiredSamples(config)
    /\ pc = "short" => Len(rows) < RequiredSamples(config)

(* Past training, the bundle has seen the samples of the research rows, and *)
(* only those.                                                              *)
Trained ==
    kind = "replay" /\ pc \in {"extending", "judging", "done"} =>
        /\ through < limit
        /\ \A i \in Samples : rows[i] > through => rows[i] >= limit

Judged ==
    /\ window # {} => pc = "done"
    /\ ReplayIsReserved
    /\ HoldoutUnseen

IInv == TypeOK /\ Reserved /\ Covered /\ Spaced /\ Split /\ Trained /\ Judged
=============================================================================
