---------------------------- MODULE LockedHoldout ----------------------------
(***************************************************************************)
(* holdout.run_locked_holdout: a run takes its destination's lock, refuses *)
(* an existing commitment, commits, searches the quarantined history with  *)
(* search.run_search, consumes the evaluation on disk, evaluates the final *)
(* partition and reports. Runs race on a destination, are killed at any    *)
(* step and are started again; the Optuna study behind the search is       *)
(* shared by all destinations that commit to the same research data.       *)
(***************************************************************************)
EXTENDS Naturals, FiniteSets

CONSTANTS
    Processes,      \* processes that call run_locked_holdout
    Destinations,   \* output directories
    StudyOf,        \* the study a destination's search resumes, by the
                    \* fingerprint of its research data and configuration
    Studies,        \* Optuna studies in the storage
    NTrials,        \* bound: trials numbered 0 .. NTrials - 1 in a study
    Scores,         \* objective values of gate-passing trials
    NoProcess,      \* the lock is free
    NoDestination, NoCommitment, NoReport, NoTrial,
    MaxStops        \* bound: kills and I/O errors in one behaviour

Trials == 0 .. NTrials - 1

(* What a trial is: not drawn, running, complete but rejected by a gate (or *)
(* failed), complete and passing with its score.                           *)
Unborn   == [state |-> "unborn", score |-> 0]
Running  == [state |-> "running", score |-> 0]
Rejected == [state |-> "rejected", score |-> 0]
Passed   == [state : {"passed"}, score : Scores]

ASSUME HoldoutConstants ==
    /\ NTrials \in Nat
    /\ MaxStops \in Nat
    /\ Scores \subseteq Nat
    /\ StudyOf \in [Destinations -> Studies]
    /\ NoProcess \notin Processes
    /\ NoDestination \notin Destinations
    /\ NoTrial \notin Trials

(* Trial is the recorded selected_trial_number, config the trial whose      *)
(* configuration was frozen.                                               *)
States   == {"SEARCH_IN_PROGRESS", "EVALUATION_STARTED",
             "EVALUATION_COMPLETE", "EVALUATION_FAILED"}
Consumed == States \ {"SEARCH_IN_PROGRESS"}       \* _TERMINAL_STATES
Commitments == [state : States, trial : Trials \cup {NoTrial},
                config : Trials \cup {NoTrial}]
Reports     == [trial : Trials, config : Trials]

ASSUME NotRecords == NoCommitment \notin Commitments /\ NoReport \notin Reports

VARIABLES
    lock,         \* who holds a destination's .holdout.lock
    commitment,   \* commitment.json
    report,       \* final_report.json
    looks,        \* auxiliary: evaluations of the final partition
    trials,       \* the studies' trials
    selected,     \* the studies' ares_selected_trial_number
    pc, dest, trial, winner,   \* the runs: program point and locals
    stops,        \* auxiliary: kills and I/O errors so far
    abandoned     \* auxiliary: destinations whose committed run is over

disk  == <<commitment, report, looks>>
study == <<trials, selected>>
runs  == <<pc, dest, trial, winner>>
aux   == <<stops, abandoned>>
vars  == <<lock, disk, study, runs, aux>>

Concluding == {"evaluating", "evaluated", "reported"}
Points == {"idle", "locked", "searching", "chosen", "selected"} \cup Concluding

Study(p)   == StudyOf[dest[p]]
Passing(s) == {t \in Trials : trials[s][t].state = "passed"}

(* Every variable has its type, and a run has a destination exactly while  *)
(* it is not idle.                                                         *)
TypeOK ==
    /\ lock \in [Destinations -> Processes \cup {NoProcess}]
    /\ commitment \in [Destinations -> Commitments \cup {NoCommitment}]
    /\ report \in [Destinations -> Reports \cup {NoReport}]
    /\ looks \in [Destinations -> Nat]
    /\ trials \in [Studies -> [Trials -> {Unborn, Running, Rejected} \cup Passed]]
    /\ selected \in [Studies -> Trials \cup {NoTrial}]
    /\ pc \in [Processes -> Points]
    /\ dest \in [Processes -> Destinations \cup {NoDestination}]
    /\ trial \in [Processes -> Trials \cup {NoTrial}]
    /\ winner \in [Processes -> Trials \cup {NoTrial}]
    /\ \A p \in Processes : dest[p] # NoDestination <=> pc[p] # "idle"
    /\ stops \in Nat
    /\ abandoned \subseteq Destinations

Init ==
    /\ lock = [d \in Destinations |-> NoProcess]
    /\ commitment = [d \in Destinations |-> NoCommitment]
    /\ report = [d \in Destinations |-> NoReport]
    /\ looks = [d \in Destinations |-> 0]
    /\ trials = [s \in Studies |-> [t \in Trials |-> Unborn]]
    /\ selected = [s \in Studies |-> NoTrial]
    /\ pc = [p \in Processes |-> "idle"]
    /\ dest = [p \in Processes |-> NoDestination]
    /\ trial = [p \in Processes |-> NoTrial]
    /\ winner = [p \in Processes |-> NoTrial]
    /\ stops = 0
    /\ abandoned = {}

-----------------------------------------------------------------------------
(* The run ends, by return or exception, and the lock is released. *)
Leave(p) ==
    /\ lock' = [lock EXCEPT ![dest[p]] = NoProcess]
    /\ pc' = [pc EXCEPT ![p] = "idle"]
    /\ trial' = [trial EXCEPT ![p] = NoTrial]
    /\ winner' = [winner EXCEPT ![p] = NoTrial]
    /\ dest' = [dest EXCEPT ![p] = NoDestination]
    /\ abandoned' = IF pc[p] = "locked" THEN abandoned
                                      ELSE abandoned \cup {dest[p]}

Goto(p, point) ==
    /\ pc' = [pc EXCEPT ![p] = point]
    /\ UNCHANGED <<lock, dest, trial>>

(* FileLock(timeout=0): a second run of a destination raises at once. *)
Begin(p, d) ==
    /\ pc[p] = "idle"
    /\ lock[d] = NoProcess
    /\ lock' = [lock EXCEPT ![d] = p]
    /\ dest' = [dest EXCEPT ![p] = d]
    /\ pc' = [pc EXCEPT ![p] = "locked"]
    /\ UNCHANGED <<disk, study, trial, winner, aux>>

(* A commitment exists, whatever its state, or the partitions are invalid. *)
Refuse(p) ==
    /\ pc[p] = "locked"
    /\ Leave(p)
    /\ UNCHANGED <<disk, study, stops>>

(* Mutation of Commit: it overwrites a failed one. *)
CommitAfterFailure(p) ==
    /\ pc[p] = "locked"
    /\ commitment[dest[p]] # NoCommitment =>
          commitment[dest[p]].state \in {"EVALUATION_STARTED", "EVALUATION_FAILED"}
    /\ commitment' = [commitment EXCEPT ![dest[p]] =
          [state |-> "SEARCH_IN_PROGRESS", trial |-> NoTrial, config |-> NoTrial]]
    /\ Goto(p, "searching")
    /\ UNCHANGED <<report, looks, study, winner, aux>>

(* No commitment is there: write one, before the first trial. *)
Commit(p) ==
    /\ pc[p] = "locked"
    /\ commitment[dest[p]] = NoCommitment
    /\ commitment' = [commitment EXCEPT ![dest[p]] =
          [state |-> "SEARCH_IN_PROGRESS", trial |-> NoTrial, config |-> NoTrial]]
    /\ Goto(p, "searching")
    /\ UNCHANGED <<report, looks, study, winner, aux>>

-----------------------------------------------------------------------------
(* run_search resumes the study: study.optimize draws the next trial number *)
BeginTrial(p, t) ==
    /\ pc[p] = "searching"
    /\ trial[p] = NoTrial
    /\ trials[Study(p)][t] = Unborn
    /\ \A u \in Trials : u < t => trials[Study(p)][u] # Unborn
    /\ trials' = [trials EXCEPT ![Study(p)][t] = Running]
    /\ trial' = [trial EXCEPT ![p] = t]
    /\ UNCHANGED <<lock, disk, selected, pc, dest, winner, aux>>

(* and scores it by walk-forward; an error or a failed gate rejects it. *)
EndTrial(p, outcome) ==
    /\ pc[p] = "searching"
    /\ trial[p] # NoTrial
    /\ trials' = [trials EXCEPT ![Study(p)][trial[p]] = outcome]
    /\ trial' = [trial EXCEPT ![p] = NoTrial]
    /\ UNCHANGED <<lock, disk, selected, pc, dest, winner, aux>>

(* max over the passing trials: the first one with the highest score. *)
Best(s) ==
    {t \in Passing(s) : \A u \in Passing(s) :
        \/ trials[s][u].score < trials[s][t].score
        \/ trials[s][u].score = trials[s][t].score /\ t <= u}

(* Mutation of Choose: a rejected trial may win. *)
ChooseAny(p) ==
    /\ pc[p] = "searching"
    /\ trial[p] = NoTrial
    /\ \E t \in Trials :
          /\ trials[Study(p)][t] # Unborn
          /\ winner' = [winner EXCEPT ![p] = t]
    /\ Goto(p, "chosen")
    /\ UNCHANGED <<disk, study, aux>>

(* The trial budget or the timeout ends the search, and the trials of the  *)
(* study, those of other runs among them, compete.                         *)
Choose(p) ==
    /\ pc[p] = "searching"
    /\ trial[p] = NoTrial
    /\ \E t \in Best(Study(p)) : winner' = [winner EXCEPT ![p] = t]
    /\ Goto(p, "chosen")
    /\ UNCHANGED <<disk, study, aux>>

(* Mutation of NoWinner: search until something passes. *)
NoWinnerAgain(p) ==
    /\ pc[p] = "searching"
    /\ trial[p] = NoTrial
    /\ Passing(Study(p)) = {}
    /\ trials' = [trials EXCEPT ![Study(p)] = [t \in Trials |-> Unborn]]
    /\ UNCHANGED <<disk, selected, lock, runs, aux>>

NoWinner(p) ==
    /\ pc[p] = "searching"
    /\ trial[p] = NoTrial
    /\ Passing(Study(p)) = {}
    /\ Leave(p)
    /\ UNCHANGED <<disk, study, stops>>

(* study.set_user_attr(ares_selected_trial_number); the configuration of   *)
(* the winner is returned.                                                 *)
Select(p) ==
    /\ pc[p] = "chosen"
    /\ selected' = [selected EXCEPT ![Study(p)] = winner[p]]
    /\ Goto(p, "selected")
    /\ UNCHANGED <<disk, trials, winner, aux>>

(* The configuration or the dataset was mutated meanwhile, the study is    *)
(* another one, or the winner's horizon exceeds the embargo.               *)
RefuseSearch(p) ==
    /\ pc[p] = "selected"
    /\ Leave(p)
    /\ UNCHANGED <<disk, study, stops>>

-----------------------------------------------------------------------------
(* Consume the evaluation before inference; the trial number is read back   *)
(* from the study, the configuration is the run's own.                     *)
Consume(p) ==
    commitment' = [commitment EXCEPT ![dest[p]] =
        [state |-> "EVALUATION_STARTED", trial |-> selected[Study(p)],
         config |-> winner[p]]]

StartEvaluation(p) ==
    /\ pc[p] = "selected"
    /\ Consume(p)
    /\ Goto(p, "evaluating")
    /\ UNCHANGED <<report, looks, study, winner, aux>>

(* _evaluate_holdout: train on history, predict and trade the final bars. *)
Evaluate(p) ==
    /\ pc[p] = "evaluating"
    /\ looks' = [looks EXCEPT ![dest[p]] = @ + 1]
    /\ Goto(p, "evaluated")
    /\ UNCHANGED <<commitment, report, study, winner, aux>>

(* The partition is too small, or the result is insolvent or not finite, or *)
(* a mutation came to light: the except clause records the failure.        *)
MarkFailed(p) ==
    /\ pc[p] \in {"evaluating", "evaluated"}
    /\ commitment' = [commitment EXCEPT ![dest[p]].state = "EVALUATION_FAILED"]
    /\ Leave(p)
    /\ UNCHANGED <<report, looks, study, stops>>

(* Mutation of WriteReport: the selection is read from the study again. *)
WriteReportReread(p) ==
    /\ pc[p] = "evaluated"
    /\ report' = [report EXCEPT ![dest[p]] =
          [trial |-> selected[Study(p)], config |-> winner[p]]]
    /\ Goto(p, "reported")
    /\ UNCHANGED <<commitment, looks, study, winner, aux>>

WriteReport(p) ==
    /\ pc[p] = "evaluated"
    /\ report' = [report EXCEPT ![dest[p]] =
          [trial |-> commitment[dest[p]].trial, config |-> winner[p]]]
    /\ Goto(p, "reported")
    /\ UNCHANGED <<commitment, looks, study, winner, aux>>

(* Mutation of Complete: the last write is forgotten. *)
CompleteUnrecorded(p) ==
    /\ pc[p] = "reported"
    /\ Leave(p)
    /\ UNCHANGED <<disk, study, stops>>

Complete(p) ==
    /\ pc[p] = "reported"
    /\ commitment' = [commitment EXCEPT ![dest[p]].state = "EVALUATION_COMPLETE"]
    /\ Leave(p)
    /\ UNCHANGED <<report, looks, study, stops>>

(* A kill, or an I/O error outside the evaluation's try: nothing on disk    *)
(* changes, a running trial stays running, the lock is released.           *)
Stop(p) ==
    /\ pc[p] # "idle"
    /\ stops < MaxStops
    /\ stops' = stops + 1
    /\ Leave(p)
    /\ UNCHANGED <<disk, study>>

-----------------------------------------------------------------------------
Search(p) ==
    \/ \E t \in Trials : BeginTrial(p, t)
    \/ \E o \in {Rejected} \cup Passed : EndTrial(p, o)
    \/ Choose(p)
    \/ NoWinner(p)
    \/ Select(p)
    \/ RefuseSearch(p)

Conclude(p) ==
    \/ StartEvaluation(p)
    \/ Evaluate(p)
    \/ MarkFailed(p)
    \/ WriteReport(p)
    \/ Complete(p)

Run(p) == Refuse(p) \/ Commit(p) \/ Search(p) \/ Conclude(p)

Next ==
    \E p \in Processes :
        (\E d \in Destinations : Begin(p, d)) \/ Run(p) \/ Stop(p)

Spec == Init /\ [][Next]_vars

(* A started process is scheduled until it ends. Nobody has to start one.   *)
FairSpec == Spec /\ \A p \in Processes : WF_vars(Run(p))

-----------------------------------------------------------------------------
IsConsumed(d) == commitment[d] # NoCommitment /\ commitment[d].state \in Consumed
IsConcluded(d) == IsConsumed(d) /\ commitment[d].state # "EVALUATION_STARTED"

(* Whatever races, is killed and is started again, the final partition of a *)
(* destination is evaluated once at most, and never before the evaluation  *)
(* is recorded as consumed (holdout.run_locked_holdout, lock to inference). *)
OneInspection ==
    \A d \in Destinations : looks[d] <= 1 /\ (looks[d] > 0 => IsConsumed(d))

(* A report tells of the one evaluation, under the trial and configuration  *)
(* that were committed before it; a complete commitment has its report and *)
(* a failed one has none, also when a run died between two of its writes.   *)
ReportIsCommitted ==
    \A d \in Destinations :
        /\ report[d] # NoReport =>
              /\ IsConsumed(d) /\ looks[d] = 1
              /\ report[d].trial = commitment[d].trial
              /\ report[d].config = commitment[d].config
        /\ commitment[d] # NoCommitment =>
              /\ commitment[d].state = "EVALUATION_COMPLETE" => report[d] # NoReport
              /\ commitment[d].state = "EVALUATION_FAILED" => report[d] = NoReport

(* Only gate-passing trials are evaluated and recorded, also when the study *)
(* is shared (search.run_search's filter, holdout.py's read back).         *)
WinnersPassed ==
    \A d \in Destinations : IsConsumed(d) =>
        {commitment[d].trial, commitment[d].config} \subseteq Passing(StudyOf[d])

(* What a run left behind when it ended or was killed stays as it is: no    *)
(* later run resumes, repeats or overwrites it.                            *)
NeverRevived ==
    [][\A d \in abandoned :
          /\ commitment'[d] = commitment[d]
          /\ report'[d] = report[d] /\ looks'[d] = looks[d]]_disk

(* Every run ends, and one that consumed its evaluation records a verdict   *)
(* unless it is stopped.                                                   *)
RunsEnd == \A p \in Processes : pc[p] # "idle" ~> pc[p] = "idle"
VerdictRecorded ==
    \A p \in Processes, d \in Destinations :
        pc[p] \in Concluding /\ dest[p] = d /\ stops = MaxStops ~> IsConcluded(d)

(* The holdout of every destination is a one-shot token.                    *)
Shot == INSTANCE OneShot WITH
            spent <- {d \in Destinations : IsConsumed(d)},
            verdicts <- {d \in Destinations : IsConcluded(d)}
OneShotHoldout == Shot!Spec

-----------------------------------------------------------------------------
(* The inductive strengthening.                                            *)

(* The lock's owner, and only it, runs on a destination. *)
Exclusive ==
    \A d \in Destinations, p \in Processes :
        lock[d] = p <=> pc[p] # "idle" /\ dest[p] = d

(* What is on disk at each program point of a run. *)
Progress(p) ==
    LET d == dest[p] IN
    /\ pc[p] \in {"searching", "chosen", "selected"} =>
          /\ commitment[d] # NoCommitment /\ ~IsConsumed(d)
          /\ report[d] = NoReport /\ looks[d] = 0
    /\ pc[p] \in Concluding =>
          /\ commitment[d] # NoCommitment
          /\ commitment[d].state = "EVALUATION_STARTED"
          /\ commitment[d].config = winner[p]
          /\ report[d] = NoReport <=> pc[p] # "reported"
          /\ looks[d] = IF pc[p] = "evaluating" THEN 0 ELSE 1

(* A run's trial is running and its own, *)
Trying ==
    /\ \A p \in Processes : trial[p] # NoTrial =>
          pc[p] = "searching" /\ trials[Study(p)][trial[p]] = Running
    /\ \A p, q \in Processes :
          p # q /\ trial[p] # NoTrial /\ trial[p] = trial[q] => Study(p) # Study(q)

(* the winner in hand is a passing trial, *)
Winning(p) ==
    /\ pc[p] \in Concluding \cup {"chosen", "selected"} =>
          winner[p] \in Passing(Study(p))
    /\ pc[p] \in Concluding \cup {"selected"} => selected[Study(p)] # NoTrial

(* and so is the study's selection. *)
Selection == \A s \in Studies : selected[s] # NoTrial => selected[s] \in Passing(s)

(* A destination without a commitment has neither report nor evaluation. *)
Untouched ==
    \A d \in Destinations :
        commitment[d] = NoCommitment => report[d] = NoReport /\ looks[d] = 0

(* An ended run left a commitment, and nobody works on it. *)
Ended ==
    /\ \A d \in abandoned : commitment[d] # NoCommitment
    /\ \A p \in Processes :
          pc[p] \notin {"idle", "locked"} => dest[p] \notin abandoned

(* What every step preserves: exclusion by the lock, what the disk says at  *)
(* each point of a run, and the properties above.                          *)
IInv ==
    /\ TypeOK
    /\ Exclusive
    /\ \A p \in Processes : Progress(p) /\ Winning(p)
    /\ Trying
    /\ Selection
    /\ Untouched
    /\ Ended
    /\ OneInspection
    /\ ReportIsCommitted
    /\ WinnersPassed
=============================================================================
