------------------------- MODULE LockedHoldoutProofs -------------------------
(***************************************************************************)
(* The inductive invariant of LockedHoldout, the one evaluation of every   *)
(* destination, and the refinement of OneShot.                             *)
(***************************************************************************)
EXTENDS LockedHoldout, TLAPS

(* A step that leaves the disk alone and forgets no passing trial keeps     *)
(* what the disk says.                                                     *)
LEMMA DiskUntouched ==
  ASSUME IInv, UNCHANGED disk, \A s \in Studies : Passing(s) \subseteq Passing(s)'
  PROVE  Untouched' /\ OneInspection' /\ ReportIsCommitted' /\ WinnersPassed'
BY HoldoutConstants DEF IInv, TypeOK, disk, Untouched, OneInspection,
   ReportIsCommitted, WinnersPassed, IsConsumed

LEMMA BeginStep ==
  ASSUME IInv, NEW p \in Processes, NEW d \in Destinations, Begin(p, d)
  PROVE  IInv'
<1>p. \A s \in Studies : Passing(s) \subseteq Passing(s)'
  BY HoldoutConstants DEF Passing, study, IInv, TypeOK, Trying, Study, Passed,
     Unborn, Running, Rejected, Begin
<1>1. TypeOK'
  BY HoldoutConstants, NotRecords DEF IInv, TypeOK, disk, study, runs, aux,
     Commitments, Reports, States, Passed, Points, Concluding, Begin, Unborn,
     Running, Rejected
<1>2. Exclusive'
  BY HoldoutConstants, NotRecords DEF IInv, TypeOK, disk, study, runs, aux,
     Exclusive, Begin
<1>3. \A q \in Processes : Progress(q)'
  BY HoldoutConstants, NotRecords DEF IInv, TypeOK, disk, study, runs, aux,
     Exclusive, Progress, Concluding, IsConsumed, Consumed, States, Begin
<1>4. \A q \in Processes : Winning(q)'
  BY HoldoutConstants, NotRecords, <1>p DEF IInv, TypeOK, disk, study, runs,
     aux, Exclusive, Winning, Concluding, Passing, Study, Trying, Begin
<1>5. Trying'
  BY HoldoutConstants, NotRecords DEF IInv, TypeOK, disk, study, runs, aux,
     Trying, Study, Exclusive, Begin, Unborn, Running, Rejected, Passed
<1>6. Selection'
  BY HoldoutConstants, NotRecords, <1>p DEF IInv, TypeOK, disk, study, runs,
     aux, Selection, Passing, Begin
<1>7. Ended'
  BY HoldoutConstants, NotRecords DEF IInv, TypeOK, disk, study, runs, aux,
     Ended, Exclusive, Begin
<1>8. UNCHANGED disk
  BY DEF Begin, disk
<1> QED
  BY <1>1, <1>2, <1>3, <1>4, <1>5, <1>6, <1>7, <1>8, <1>p, DiskUntouched DEF
     IInv

LEMMA LeaveStep ==
  ASSUME IInv, NEW p \in Processes, pc[p] # "idle", Leave(p),
         UNCHANGED <<disk, study>>, stops' \in Nat
  PROVE  IInv'
<1>p. \A s \in Studies : Passing(s) \subseteq Passing(s)'
  BY HoldoutConstants DEF Passing, study, IInv, TypeOK, Trying, Study, Passed,
     Unborn, Running, Rejected, Leave
<1>1. TypeOK'
  BY HoldoutConstants, NotRecords DEF IInv, TypeOK, disk, study, runs, aux,
     Commitments, Reports, States, Passed, Points, Concluding, Leave, Unborn,
     Running, Rejected
<1>2. Exclusive'
  BY HoldoutConstants, NotRecords DEF IInv, TypeOK, disk, study, runs, aux,
     Exclusive, Leave
<1>3. \A q \in Processes : Progress(q)'
  BY HoldoutConstants, NotRecords DEF IInv, TypeOK, disk, study, runs, aux,
     Exclusive, Progress, Concluding, IsConsumed, Consumed, States, Leave
<1>4. \A q \in Processes : Winning(q)'
  BY HoldoutConstants, NotRecords, <1>p DEF IInv, TypeOK, disk, study, runs,
     aux, Exclusive, Winning, Concluding, Passing, Study, Trying, Leave
<1>5. Trying'
  BY HoldoutConstants, NotRecords DEF IInv, TypeOK, disk, study, runs, aux,
     Trying, Study, Exclusive, Leave, Unborn, Running, Rejected, Passed
<1>6. Selection'
  BY HoldoutConstants, NotRecords, <1>p DEF IInv, TypeOK, disk, study, runs,
     aux, Selection, Passing, Leave
<1>7. Ended'
  BY HoldoutConstants, NotRecords DEF IInv, TypeOK, disk, study, runs, aux,
     Ended, Exclusive, Leave, Progress, Concluding, Points
<1>8. UNCHANGED disk
  BY DEF Leave, disk
<1> QED
  BY <1>1, <1>2, <1>3, <1>4, <1>5, <1>6, <1>7, <1>8, <1>p, DiskUntouched DEF
     IInv

LEMMA BeginTrialStep ==
  ASSUME IInv, NEW p \in Processes, NEW t \in Trials, BeginTrial(p, t)
  PROVE  IInv'
<1>p. \A s \in Studies : Passing(s) \subseteq Passing(s)'
  BY HoldoutConstants DEF Passing, study, IInv, TypeOK, Trying, Study, Passed,
     Unborn, Running, Rejected, BeginTrial
<1>1. TypeOK'
  BY HoldoutConstants, NotRecords DEF IInv, TypeOK, disk, study, runs, aux,
     Commitments, Reports, States, Passed, Points, Concluding, BeginTrial,
     Unborn, Running, Rejected
<1>2. Exclusive'
  BY HoldoutConstants, NotRecords DEF IInv, TypeOK, disk, study, runs, aux,
     Exclusive, BeginTrial
<1>3. \A q \in Processes : Progress(q)'
  BY HoldoutConstants, NotRecords DEF IInv, TypeOK, disk, study, runs, aux,
     Exclusive, Progress, Concluding, IsConsumed, Consumed, States, BeginTrial
<1>4. \A q \in Processes : Winning(q)'
  BY HoldoutConstants, NotRecords, <1>p DEF IInv, TypeOK, disk, study, runs,
     aux, Exclusive, Winning, Concluding, Passing, Study, Trying, BeginTrial
<1>5. Trying'
  BY HoldoutConstants, NotRecords DEF IInv, TypeOK, disk, study, runs, aux,
     Trying, Study, Exclusive, BeginTrial, Unborn, Running, Rejected, Passed
<1>6. Selection'
  BY HoldoutConstants, NotRecords, <1>p DEF IInv, TypeOK, disk, study, runs,
     aux, Selection, Passing, BeginTrial
<1>7. Ended'
  BY HoldoutConstants, NotRecords DEF IInv, TypeOK, disk, study, runs, aux,
     Ended, Exclusive, BeginTrial
<1>8. UNCHANGED disk
  BY DEF BeginTrial, disk
<1> QED
  BY <1>1, <1>2, <1>3, <1>4, <1>5, <1>6, <1>7, <1>8, <1>p, DiskUntouched DEF
     IInv

LEMMA EndTrialStep ==
  ASSUME IInv, NEW p \in Processes, NEW o \in {Rejected} \cup Passed, EndTrial(p, o)
  PROVE  IInv'
<1>p. \A s \in Studies : Passing(s) \subseteq Passing(s)'
  BY HoldoutConstants DEF Passing, study, IInv, TypeOK, Trying, Study, Passed,
     Unborn, Running, Rejected, EndTrial
<1>1. TypeOK'
  BY HoldoutConstants, NotRecords DEF IInv, TypeOK, disk, study, runs, aux,
     Commitments, Reports, States, Passed, Points, Concluding, EndTrial,
     Unborn, Running, Rejected
<1>2. Exclusive'
  BY HoldoutConstants, NotRecords DEF IInv, TypeOK, disk, study, runs, aux,
     Exclusive, EndTrial
<1>3. \A q \in Processes : Progress(q)'
  BY HoldoutConstants, NotRecords DEF IInv, TypeOK, disk, study, runs, aux,
     Exclusive, Progress, Concluding, IsConsumed, Consumed, States, EndTrial
<1>4. \A q \in Processes : Winning(q)'
  BY HoldoutConstants, NotRecords, <1>p DEF IInv, TypeOK, disk, study, runs,
     aux, Exclusive, Winning, Concluding, Passing, Study, Trying, EndTrial
<1>5. Trying'
  BY HoldoutConstants, NotRecords DEF IInv, TypeOK, disk, study, runs, aux,
     Trying, Study, Exclusive, EndTrial, Unborn, Running, Rejected, Passed
<1>6. Selection'
  BY HoldoutConstants, NotRecords, <1>p DEF IInv, TypeOK, disk, study, runs,
     aux, Selection, Passing, EndTrial
<1>7. Ended'
  BY HoldoutConstants, NotRecords DEF IInv, TypeOK, disk, study, runs, aux,
     Ended, Exclusive, EndTrial
<1>8. UNCHANGED disk
  BY DEF EndTrial, disk
<1> QED
  BY <1>1, <1>2, <1>3, <1>4, <1>5, <1>6, <1>7, <1>8, <1>p, DiskUntouched DEF
     IInv

LEMMA ChooseStep ==
  ASSUME IInv, NEW p \in Processes, Choose(p)
  PROVE  IInv'
<1>p. \A s \in Studies : Passing(s) \subseteq Passing(s)'
  BY HoldoutConstants DEF Passing, study, IInv, TypeOK, Trying, Study, Passed,
     Unborn, Running, Rejected, Choose, Best, Goto
<1>v. /\ dest[p] \in Destinations /\ pc[p] = "searching" /\ trial[p] = NoTrial
     /\ UNCHANGED <<commitment, report, looks, trials, selected>>
  BY HoldoutConstants DEF IInv, TypeOK, Exclusive, study, disk, Choose, Goto
<1>w. /\ winner' \in [Processes -> Trials \cup {NoTrial}]
     /\ winner'[p] \in Passing(Study(p))
     /\ \A q \in Processes : q # p => winner'[q] = winner[q]
  BY HoldoutConstants, NotRecords, <1>v DEF IInv, TypeOK, Commitments, States,
     Best, Passing, Choose, Goto
<1>1. TypeOK'
  BY HoldoutConstants, NotRecords, <1>v, <1>w DEF IInv, TypeOK, disk, study,
     runs, aux, Commitments, Reports, States, Passed, Points, Concluding,
     Choose, Goto, Unborn, Running, Rejected
<1>2. Exclusive'
  BY HoldoutConstants, NotRecords DEF IInv, TypeOK, disk, study, runs, aux,
     Exclusive, Choose, Goto
<1>3. \A q \in Processes : Progress(q)'
  BY HoldoutConstants, NotRecords, <1>v, <1>w DEF IInv, TypeOK, disk, study,
     runs, aux, Exclusive, Progress, Concluding, IsConsumed, Consumed, States,
     Choose, Goto
<1>4. \A q \in Processes : Winning(q)'
  BY HoldoutConstants, NotRecords, <1>p, <1>v, <1>w DEF IInv, TypeOK, disk,
     study, runs, aux, Exclusive, Winning, Concluding, Passing, Study, Trying,
     Choose, Goto
<1>5. Trying'
  BY HoldoutConstants, NotRecords DEF IInv, TypeOK, disk, study, runs, aux,
     Trying, Study, Exclusive, Choose, Goto, Unborn, Running, Rejected, Passed
<1>6. Selection'
  BY HoldoutConstants, NotRecords, <1>p DEF IInv, TypeOK, disk, study, runs,
     aux, Selection, Passing, Choose, Goto
<1>7. Ended'
  BY HoldoutConstants, NotRecords, <1>v, <1>w DEF IInv, TypeOK, disk, study,
     runs, aux, Ended, Exclusive, Choose, Goto
<1>8. UNCHANGED disk
  BY DEF Choose, Best, Goto, disk
<1> QED
  BY <1>1, <1>2, <1>3, <1>4, <1>5, <1>6, <1>7, <1>8, <1>p, DiskUntouched DEF
     IInv

LEMMA SelectStep ==
  ASSUME IInv, NEW p \in Processes, Select(p)
  PROVE  IInv'
<1>p. \A s \in Studies : Passing(s) \subseteq Passing(s)'
  BY HoldoutConstants DEF Passing, study, IInv, TypeOK, Trying, Study, Passed,
     Unborn, Running, Rejected, Select, Goto
<1>1. TypeOK'
  BY HoldoutConstants, NotRecords DEF IInv, TypeOK, disk, study, runs, aux,
     Commitments, Reports, States, Passed, Points, Concluding, Select, Goto,
     Unborn, Running, Rejected
<1>2. Exclusive'
  BY HoldoutConstants, NotRecords DEF IInv, TypeOK, disk, study, runs, aux,
     Exclusive, Select, Goto
<1>3. \A q \in Processes : Progress(q)'
  BY HoldoutConstants, NotRecords DEF IInv, TypeOK, disk, study, runs, aux,
     Exclusive, Progress, Concluding, IsConsumed, Consumed, States, Select,
     Goto
<1>4. \A q \in Processes : Winning(q)'
  BY HoldoutConstants, NotRecords, <1>p DEF IInv, TypeOK, disk, study, runs,
     aux, Exclusive, Winning, Concluding, Passing, Study, Trying, Select, Goto
<1>5. Trying'
  BY HoldoutConstants, NotRecords DEF IInv, TypeOK, disk, study, runs, aux,
     Trying, Study, Exclusive, Select, Goto, Unborn, Running, Rejected, Passed
<1>6. Selection'
  BY HoldoutConstants, NotRecords, <1>p DEF IInv, TypeOK, disk, study, runs,
     aux, Selection, Passing, Select, Goto, Winning, Concluding, Study
<1>7. Ended'
  BY HoldoutConstants, NotRecords DEF IInv, TypeOK, disk, study, runs, aux,
     Ended, Exclusive, Select, Goto
<1>8. UNCHANGED disk
  BY DEF Select, Goto, disk
<1> QED
  BY <1>1, <1>2, <1>3, <1>4, <1>5, <1>6, <1>7, <1>8, <1>p, DiskUntouched DEF
     IInv

LEMMA CommitStep ==
  ASSUME IInv, NEW p \in Processes, Commit(p)
  PROVE  IInv'
<1>p. \A s \in Studies : Passing(s) \subseteq Passing(s)'
  BY HoldoutConstants DEF Passing, study, IInv, TypeOK, Trying, Study, Passed,
     Unborn, Running, Rejected, Commit, Goto
<1>v. /\ dest[p] \in Destinations /\ commitment[dest[p]] = NoCommitment
     /\ UNCHANGED <<report, looks, trials, selected>>
  BY HoldoutConstants DEF IInv, TypeOK, Exclusive, study, disk, Commit, Goto
<1>w. /\ commitment' \in [Destinations -> Commitments \cup {NoCommitment}]
     /\ commitment'[dest[p]] \in Commitments
     /\ commitment'[dest[p]].state = "SEARCH_IN_PROGRESS"
     /\ \A e \in Destinations : e # dest[p] => commitment'[e] = commitment[e]
  BY HoldoutConstants, NotRecords, <1>v DEF IInv, TypeOK, Commitments, States,
     Commit, Goto
<1>1. TypeOK'
  BY HoldoutConstants, NotRecords, <1>v, <1>w DEF IInv, TypeOK, disk, study,
     runs, aux, Commitments, Reports, States, Passed, Points, Concluding,
     Commit, Goto, Unborn, Running, Rejected
<1>2. Exclusive'
  BY HoldoutConstants, NotRecords DEF IInv, TypeOK, disk, study, runs, aux,
     Exclusive, Commit, Goto
<1>3. \A q \in Processes : Progress(q)'
  BY HoldoutConstants, NotRecords, <1>v, <1>w DEF IInv, TypeOK, disk, study,
     runs, aux, Exclusive, Progress, Concluding, IsConsumed, Consumed, States,
     Commit, Goto, Untouched
<1>4. \A q \in Processes : Winning(q)'
  BY HoldoutConstants, NotRecords, <1>p DEF IInv, TypeOK, disk, study, runs,
     aux, Exclusive, Winning, Concluding, Passing, Study, Trying, Commit, Goto
<1>5. Trying'
  BY HoldoutConstants, NotRecords DEF IInv, TypeOK, disk, study, runs, aux,
     Trying, Study, Exclusive, Commit, Goto, Unborn, Running, Rejected, Passed
<1>6. Selection'
  BY HoldoutConstants, NotRecords, <1>p DEF IInv, TypeOK, disk, study, runs,
     aux, Selection, Passing, Commit, Goto
<1>7. Untouched'
  BY HoldoutConstants, NotRecords, <1>v, <1>w DEF IInv, TypeOK, disk, study,
     runs, aux, Untouched
<1>8. Ended'
  <2>1. \A e \in abandoned' : commitment'[e] # NoCommitment
    BY HoldoutConstants, NotRecords, <1>v, <1>w DEF IInv, TypeOK, Ended, aux,
       Commit, Goto
  <2>2. \A q \in Processes :
          pc'[q] \notin {"idle", "locked"} => dest'[q] \notin abandoned'
    BY <1>v DEF IInv, TypeOK, Ended, Exclusive, aux, Commit, Goto
  <2> QED
    BY <2>1, <2>2 DEF Ended
<1>9. OneInspection'
  <2> SUFFICES ASSUME NEW e \in Destinations
           PROVE  looks'[e] <= 1 /\ (looks'[e] > 0 => IsConsumed(e)')
    BY DEF OneInspection
  <2>1. CASE e = dest[p]
    BY HoldoutConstants, NotRecords, <1>v, <1>w, <2>1 DEF IInv, TypeOK,
       OneInspection, Progress, Concluding, IsConsumed, Consumed, States
  <2>2. CASE e # dest[p]
    BY HoldoutConstants, NotRecords, <1>v, <1>w, <2>2 DEF IInv, TypeOK,
       OneInspection, IsConsumed, Consumed, States
  <2> QED
    BY <2>1, <2>2
<1>10. ReportIsCommitted'
  <2> SUFFICES ASSUME NEW e \in Destinations
           PROVE  /\ report'[e] # NoReport =>
                        /\ IsConsumed(e)' /\ looks'[e] = 1
                        /\ report'[e].trial = commitment'[e].trial
                        /\ report'[e].config = commitment'[e].config
                  /\ commitment'[e] # NoCommitment =>
                        /\ commitment'[e].state = "EVALUATION_COMPLETE" => report'[e] # NoReport
                        /\ commitment'[e].state = "EVALUATION_FAILED" => report'[e] = NoReport
    BY DEF ReportIsCommitted
  <2>1. CASE e = dest[p]
    BY HoldoutConstants, NotRecords, <1>v, <1>w, <2>1 DEF IInv, TypeOK,
       ReportIsCommitted, Progress, Concluding, IsConsumed, Consumed, States
  <2>2. CASE e # dest[p]
    BY HoldoutConstants, NotRecords, <1>v, <1>w, <2>2 DEF IInv, TypeOK,
       ReportIsCommitted, IsConsumed, Consumed, States
  <2> QED
    BY <2>1, <2>2
<1>11. WinnersPassed'
  <2> SUFFICES ASSUME NEW e \in Destinations
           PROVE  IsConsumed(e)' =>
    {commitment'[e].trial, commitment'[e].config} \subseteq Passing(StudyOf[e])'
    BY DEF WinnersPassed
  <2>1. CASE e = dest[p]
    BY HoldoutConstants, NotRecords, <1>v, <1>w, <1>p, <2>1 DEF IInv, TypeOK,
       IsConsumed, Consumed, States
  <2>2. CASE e # dest[p]
    BY HoldoutConstants, NotRecords, <1>v, <1>w, <1>p, <2>2 DEF IInv, TypeOK,
       WinnersPassed, IsConsumed, Consumed, States
  <2> QED
    BY <2>1, <2>2
<1> QED
  BY <1>1, <1>2, <1>3, <1>4, <1>5, <1>6, <1>7, <1>8, <1>9, <1>10, <1>11 DEF
     IInv

LEMMA StartEvaluationStep ==
  ASSUME IInv, NEW p \in Processes, StartEvaluation(p)
  PROVE  IInv'
<1>p. \A s \in Studies : Passing(s) \subseteq Passing(s)'
  BY HoldoutConstants DEF Passing, study, IInv, TypeOK, Trying, Study, Passed,
     Unborn, Running, Rejected, StartEvaluation, Consume, Goto
<1>v. /\ dest[p] \in Destinations /\ pc[p] = "selected"
     /\ UNCHANGED <<report, looks, trials, selected>>
     /\ selected[Study(p)] \in Trials \cup {NoTrial}
     /\ winner[p] \in Trials \cup {NoTrial}
  BY HoldoutConstants DEF IInv, TypeOK, Study, disk, study, StartEvaluation
<1>w. /\ commitment' \in [Destinations -> Commitments \cup {NoCommitment}]
     /\ commitment'[dest[p]] \in Commitments
     /\ commitment'[dest[p]].state = "EVALUATION_STARTED"
     /\ commitment'[dest[p]].trial = selected[Study(p)]
     /\ commitment'[dest[p]].config = winner[p]
     /\ \A e \in Destinations : e # dest[p] => commitment'[e] = commitment[e]
  BY HoldoutConstants, NotRecords, <1>v DEF IInv, TypeOK, Commitments, States,
     StartEvaluation, Consume, Goto
<1>1. TypeOK'
  BY HoldoutConstants, NotRecords, <1>v, <1>w DEF IInv, TypeOK, disk, study,
     runs, aux, Commitments, Reports, States, Passed, Points, Concluding,
     StartEvaluation, Consume, Goto, Unborn, Running, Rejected
<1>2. Exclusive'
  BY HoldoutConstants, NotRecords DEF IInv, TypeOK, disk, study, runs, aux,
     Exclusive, StartEvaluation, Consume, Goto
<1>3. \A q \in Processes : Progress(q)'
  BY HoldoutConstants, NotRecords, <1>v, <1>w DEF IInv, TypeOK, disk, study,
     runs, aux, Exclusive, Progress, Concluding, IsConsumed, Consumed, States,
     StartEvaluation, Consume, Goto
<1>4. \A q \in Processes : Winning(q)'
  BY HoldoutConstants, NotRecords, <1>p DEF IInv, TypeOK, disk, study, runs,
     aux, Exclusive, Winning, Concluding, Passing, Study, Trying,
     StartEvaluation, Consume, Goto
<1>5. Trying'
  BY HoldoutConstants, NotRecords DEF IInv, TypeOK, disk, study, runs, aux,
     Trying, Study, Exclusive, StartEvaluation, Consume, Goto, Unborn,
     Running, Rejected, Passed
<1>6. Selection'
  BY HoldoutConstants, NotRecords, <1>p DEF IInv, TypeOK, disk, study, runs,
     aux, Selection, Passing, StartEvaluation, Consume, Goto
<1>7. Untouched'
  BY HoldoutConstants, NotRecords, <1>v, <1>w DEF IInv, TypeOK, disk, study,
     runs, aux, Untouched
<1>8. Ended'
  <2>1. \A e \in abandoned' : commitment'[e] # NoCommitment
    BY HoldoutConstants, NotRecords, <1>v, <1>w DEF IInv, TypeOK, Ended, aux,
       StartEvaluation, Consume, Goto
  <2>2. \A q \in Processes :
          pc'[q] \notin {"idle", "locked"} => dest'[q] \notin abandoned'
    BY <1>v DEF IInv, TypeOK, Ended, Exclusive, aux, StartEvaluation, Consume,
       Goto
  <2> QED
    BY <2>1, <2>2 DEF Ended
<1>9. OneInspection'
  <2> SUFFICES ASSUME NEW e \in Destinations
           PROVE  looks'[e] <= 1 /\ (looks'[e] > 0 => IsConsumed(e)')
    BY DEF OneInspection
  <2>1. CASE e = dest[p]
    BY HoldoutConstants, NotRecords, <1>v, <1>w, <2>1 DEF IInv, TypeOK,
       OneInspection, Progress, Concluding, IsConsumed, Consumed, States
  <2>2. CASE e # dest[p]
    BY HoldoutConstants, NotRecords, <1>v, <1>w, <2>2 DEF IInv, TypeOK,
       OneInspection, IsConsumed, Consumed, States
  <2> QED
    BY <2>1, <2>2
<1>10. ReportIsCommitted'
  <2> SUFFICES ASSUME NEW e \in Destinations
           PROVE  /\ report'[e] # NoReport =>
                        /\ IsConsumed(e)' /\ looks'[e] = 1
                        /\ report'[e].trial = commitment'[e].trial
                        /\ report'[e].config = commitment'[e].config
                  /\ commitment'[e] # NoCommitment =>
                        /\ commitment'[e].state = "EVALUATION_COMPLETE" => report'[e] # NoReport
                        /\ commitment'[e].state = "EVALUATION_FAILED" => report'[e] = NoReport
    BY DEF ReportIsCommitted
  <2>1. CASE e = dest[p]
    BY HoldoutConstants, NotRecords, <1>v, <1>w, <2>1 DEF IInv, TypeOK,
       ReportIsCommitted, Progress, Concluding, IsConsumed, Consumed, States
  <2>2. CASE e # dest[p]
    BY HoldoutConstants, NotRecords, <1>v, <1>w, <2>2 DEF IInv, TypeOK,
       ReportIsCommitted, IsConsumed, Consumed, States
  <2> QED
    BY <2>1, <2>2
<1>11. WinnersPassed'
  <2> SUFFICES ASSUME NEW e \in Destinations
           PROVE  IsConsumed(e)' =>
    {commitment'[e].trial, commitment'[e].config} \subseteq Passing(StudyOf[e])'
    BY DEF WinnersPassed
  <2>1. CASE e = dest[p]
    BY HoldoutConstants, NotRecords, <1>v, <1>w, <1>p, <2>1 DEF IInv, TypeOK,
       IsConsumed, Consumed, States, Winning, Selection, Study, Concluding
  <2>2. CASE e # dest[p]
    BY HoldoutConstants, NotRecords, <1>v, <1>w, <1>p, <2>2 DEF IInv, TypeOK,
       WinnersPassed, IsConsumed, Consumed, States
  <2> QED
    BY <2>1, <2>2
<1> QED
  BY <1>1, <1>2, <1>3, <1>4, <1>5, <1>6, <1>7, <1>8, <1>9, <1>10, <1>11 DEF
     IInv

LEMMA EvaluateStep ==
  ASSUME IInv, NEW p \in Processes, Evaluate(p)
  PROVE  IInv'
<1>p. \A s \in Studies : Passing(s) \subseteq Passing(s)'
  BY HoldoutConstants DEF Passing, study, IInv, TypeOK, Trying, Study, Passed,
     Unborn, Running, Rejected, Evaluate, Goto
<1>1. TypeOK'
  BY HoldoutConstants, NotRecords DEF IInv, TypeOK, disk, study, runs, aux,
     Commitments, Reports, States, Passed, Points, Concluding, Evaluate, Goto,
     Unborn, Running, Rejected
<1>2. Exclusive'
  BY HoldoutConstants, NotRecords DEF IInv, TypeOK, disk, study, runs, aux,
     Exclusive, Evaluate, Goto
<1>3. \A q \in Processes : Progress(q)'
  BY HoldoutConstants, NotRecords DEF IInv, TypeOK, disk, study, runs, aux,
     Exclusive, Progress, Concluding, IsConsumed, Consumed, States, Evaluate,
     Goto
<1>4. \A q \in Processes : Winning(q)'
  BY HoldoutConstants, NotRecords, <1>p DEF IInv, TypeOK, disk, study, runs,
     aux, Exclusive, Winning, Concluding, Passing, Study, Trying, Evaluate,
     Goto
<1>5. Trying'
  BY HoldoutConstants, NotRecords DEF IInv, TypeOK, disk, study, runs, aux,
     Trying, Study, Exclusive, Evaluate, Goto, Unborn, Running, Rejected,
     Passed
<1>6. Selection'
  BY HoldoutConstants, NotRecords, <1>p DEF IInv, TypeOK, disk, study, runs,
     aux, Selection, Passing, Evaluate, Goto
<1>7. Untouched'
  BY HoldoutConstants, NotRecords DEF IInv, TypeOK, disk, study, runs, aux,
     Untouched, Evaluate, Goto, Progress, Concluding
<1>8. Ended'
  BY HoldoutConstants, NotRecords DEF IInv, TypeOK, disk, study, runs, aux,
     Ended, Exclusive, Evaluate, Goto
<1>9. OneInspection'
  BY HoldoutConstants, NotRecords DEF IInv, TypeOK, disk, study, runs, aux,
     OneInspection, Progress, Concluding, IsConsumed, Consumed, States,
     Evaluate, Goto
<1>10. ReportIsCommitted'
  BY HoldoutConstants, NotRecords DEF IInv, TypeOK, disk, study, runs, aux,
     ReportIsCommitted, Progress, Concluding, OneInspection, IsConsumed,
     Consumed, States, Evaluate, Goto
<1>11. WinnersPassed'
  BY HoldoutConstants, NotRecords, <1>p DEF IInv, TypeOK, disk, study, runs,
     aux, WinnersPassed, Passing, Winning, Selection, Study, Concluding,
     Progress, IsConsumed, Consumed, States, Evaluate, Goto
<1> QED
  BY <1>1, <1>2, <1>3, <1>4, <1>5, <1>6, <1>7, <1>8, <1>9, <1>10, <1>11 DEF
     IInv

LEMMA MarkFailedStep ==
  ASSUME IInv, NEW p \in Processes, MarkFailed(p)
  PROVE  IInv'
<1>p. \A s \in Studies : Passing(s) \subseteq Passing(s)'
  BY HoldoutConstants DEF Passing, study, IInv, TypeOK, Trying, Study, Passed,
     Unborn, Running, Rejected, MarkFailed, Leave
<1>v. /\ dest[p] \in Destinations /\ pc[p] \in {"evaluating", "evaluated"}
     /\ UNCHANGED <<report, looks, trials, selected>>
     /\ commitment[dest[p]] \in Commitments
  BY HoldoutConstants DEF IInv, TypeOK, Exclusive, study, disk, Progress,
     Concluding, MarkFailed, Leave
<1>w. /\ commitment' \in [Destinations -> Commitments \cup {NoCommitment}]
     /\ commitment'[dest[p]] \in Commitments
     /\ commitment'[dest[p]].state = "EVALUATION_FAILED"
     /\ commitment'[dest[p]].trial = commitment[dest[p]].trial
     /\ commitment'[dest[p]].config = commitment[dest[p]].config
     /\ \A e \in Destinations : e # dest[p] => commitment'[e] = commitment[e]
  BY HoldoutConstants, NotRecords, <1>v DEF IInv, TypeOK, Commitments, States,
     MarkFailed, Leave
<1>1. TypeOK'
  BY HoldoutConstants, NotRecords, <1>v, <1>w DEF IInv, TypeOK, disk, study,
     runs, aux, Commitments, Reports, States, Passed, Points, Concluding,
     MarkFailed, Leave, Unborn, Running, Rejected
<1>2. Exclusive'
  BY HoldoutConstants, NotRecords DEF IInv, TypeOK, disk, study, runs, aux,
     Exclusive, MarkFailed, Leave
<1>3. \A q \in Processes : Progress(q)'
  BY HoldoutConstants, NotRecords, <1>v, <1>w DEF IInv, TypeOK, disk, study,
     runs, aux, Exclusive, Progress, Concluding, IsConsumed, Consumed, States,
     MarkFailed, Leave
<1>4. \A q \in Processes : Winning(q)'
  BY HoldoutConstants, NotRecords, <1>p DEF IInv, TypeOK, disk, study, runs,
     aux, Exclusive, Winning, Concluding, Passing, Study, Trying, MarkFailed,
     Leave
<1>5. Trying'
  BY HoldoutConstants, NotRecords DEF IInv, TypeOK, disk, study, runs, aux,
     Trying, Study, Exclusive, MarkFailed, Leave, Unborn, Running, Rejected,
     Passed
<1>6. Selection'
  BY HoldoutConstants, NotRecords, <1>p DEF IInv, TypeOK, disk, study, runs,
     aux, Selection, Passing, MarkFailed, Leave
<1>7. Untouched'
  BY HoldoutConstants, NotRecords, <1>v, <1>w DEF IInv, TypeOK, disk, study,
     runs, aux, Untouched
<1>8. Ended'
  <2>1. \A e \in abandoned' : commitment'[e] # NoCommitment
    BY HoldoutConstants, NotRecords, <1>v, <1>w DEF IInv, TypeOK, Ended, aux,
       MarkFailed, Leave
  <2>2. \A q \in Processes :
          pc'[q] \notin {"idle", "locked"} => dest'[q] \notin abandoned'
    BY <1>v DEF IInv, TypeOK, Ended, Exclusive, aux, MarkFailed, Leave
  <2> QED
    BY <2>1, <2>2 DEF Ended
<1>9. OneInspection'
  <2> SUFFICES ASSUME NEW e \in Destinations
           PROVE  looks'[e] <= 1 /\ (looks'[e] > 0 => IsConsumed(e)')
    BY DEF OneInspection
  <2>1. CASE e = dest[p]
    BY HoldoutConstants, NotRecords, <1>v, <1>w, <2>1 DEF IInv, TypeOK,
       OneInspection, Progress, Concluding, IsConsumed, Consumed, States
  <2>2. CASE e # dest[p]
    BY HoldoutConstants, NotRecords, <1>v, <1>w, <2>2 DEF IInv, TypeOK,
       OneInspection, IsConsumed, Consumed, States
  <2> QED
    BY <2>1, <2>2
<1>10. ReportIsCommitted'
  <2> SUFFICES ASSUME NEW e \in Destinations
           PROVE  /\ report'[e] # NoReport =>
                        /\ IsConsumed(e)' /\ looks'[e] = 1
                        /\ report'[e].trial = commitment'[e].trial
                        /\ report'[e].config = commitment'[e].config
                  /\ commitment'[e] # NoCommitment =>
                        /\ commitment'[e].state = "EVALUATION_COMPLETE" => report'[e] # NoReport
                        /\ commitment'[e].state = "EVALUATION_FAILED" => report'[e] = NoReport
    BY DEF ReportIsCommitted
  <2>1. CASE e = dest[p]
    BY HoldoutConstants, NotRecords, <1>v, <1>w, <2>1 DEF IInv, TypeOK,
       ReportIsCommitted, Progress, Concluding, IsConsumed, Consumed, States
  <2>2. CASE e # dest[p]
    BY HoldoutConstants, NotRecords, <1>v, <1>w, <2>2 DEF IInv, TypeOK,
       ReportIsCommitted, IsConsumed, Consumed, States
  <2> QED
    BY <2>1, <2>2
<1>11. WinnersPassed'
  <2> SUFFICES ASSUME NEW e \in Destinations
           PROVE  IsConsumed(e)' =>
    {commitment'[e].trial, commitment'[e].config} \subseteq Passing(StudyOf[e])'
    BY DEF WinnersPassed
  <2>1. CASE e = dest[p]
    BY HoldoutConstants, NotRecords, <1>v, <1>w, <1>p, <2>1 DEF IInv, TypeOK,
       IsConsumed, Consumed, States, WinnersPassed, Progress, Concluding,
       Study
  <2>2. CASE e # dest[p]
    BY HoldoutConstants, NotRecords, <1>v, <1>w, <1>p, <2>2 DEF IInv, TypeOK,
       WinnersPassed, IsConsumed, Consumed, States
  <2> QED
    BY <2>1, <2>2
<1> QED
  BY <1>1, <1>2, <1>3, <1>4, <1>5, <1>6, <1>7, <1>8, <1>9, <1>10, <1>11 DEF
     IInv

LEMMA WriteReportStep ==
  ASSUME IInv, NEW p \in Processes, WriteReport(p)
  PROVE  IInv'
<1>p. \A s \in Studies : Passing(s) \subseteq Passing(s)'
  BY HoldoutConstants DEF Passing, study, IInv, TypeOK, Trying, Study, Passed,
     Unborn, Running, Rejected, WriteReport, Goto
<1>v. /\ dest[p] \in Destinations /\ pc[p] = "evaluated"
     /\ UNCHANGED <<commitment, looks, trials, selected>>
  BY HoldoutConstants DEF IInv, TypeOK, Exclusive, study, disk, WriteReport,
     Goto
<1>w. /\ report' \in [Destinations -> Reports \cup {NoReport}]
     /\ report'[dest[p]] # NoReport
     /\ report'[dest[p]].trial = commitment[dest[p]].trial
     /\ report'[dest[p]].config = winner[p]
     /\ \A e \in Destinations : e # dest[p] => report'[e] = report[e]
  BY HoldoutConstants, NotRecords, <1>v DEF IInv, TypeOK, Commitments, States,
     Reports, WinnersPassed, Passing, IsConsumed, Consumed, Progress,
     Concluding, WriteReport, Goto
<1>1. TypeOK'
  BY HoldoutConstants, NotRecords, <1>v, <1>w DEF IInv, TypeOK, disk, study,
     runs, aux, Commitments, Reports, States, Passed, Points, Concluding,
     WriteReport, Goto, Unborn, Running, Rejected
<1>2. Exclusive'
  BY HoldoutConstants, NotRecords DEF IInv, TypeOK, disk, study, runs, aux,
     Exclusive, WriteReport, Goto
<1>3. \A q \in Processes : Progress(q)'
  BY HoldoutConstants, NotRecords, <1>v, <1>w DEF IInv, TypeOK, disk, study,
     runs, aux, Exclusive, Progress, Concluding, IsConsumed, Consumed, States,
     WriteReport, Goto
<1>4. \A q \in Processes : Winning(q)'
  BY HoldoutConstants, NotRecords, <1>p DEF IInv, TypeOK, disk, study, runs,
     aux, Exclusive, Winning, Concluding, Passing, Study, Trying, WriteReport,
     Goto
<1>5. Trying'
  BY HoldoutConstants, NotRecords DEF IInv, TypeOK, disk, study, runs, aux,
     Trying, Study, Exclusive, WriteReport, Goto, Unborn, Running, Rejected,
     Passed
<1>6. Selection'
  BY HoldoutConstants, NotRecords, <1>p DEF IInv, TypeOK, disk, study, runs,
     aux, Selection, Passing, WriteReport, Goto
<1>7. Untouched'
  BY HoldoutConstants, NotRecords, <1>v, <1>w DEF IInv, TypeOK, disk, study,
     runs, aux, Untouched, Progress, Concluding
<1>8. Ended'
  BY HoldoutConstants, NotRecords, <1>v, <1>w DEF IInv, TypeOK, disk, study,
     runs, aux, Ended, Exclusive, WriteReport, Goto
<1>9. OneInspection'
  BY HoldoutConstants, NotRecords, <1>v, <1>w DEF IInv, TypeOK, disk, study,
     runs, aux, OneInspection, Progress, Concluding, IsConsumed, Consumed,
     States
<1>10. ReportIsCommitted'
  BY HoldoutConstants, NotRecords, <1>v, <1>w DEF IInv, TypeOK, disk, study,
     runs, aux, ReportIsCommitted, Progress, Concluding, OneInspection,
     IsConsumed, Consumed, States
<1>11. WinnersPassed'
  BY HoldoutConstants, NotRecords, <1>v, <1>w, <1>p DEF IInv, TypeOK, disk,
     study, runs, aux, WinnersPassed, Passing, Winning, Selection, Study,
     Concluding, Progress, IsConsumed, Consumed, States
<1> QED
  BY <1>1, <1>2, <1>3, <1>4, <1>5, <1>6, <1>7, <1>8, <1>9, <1>10, <1>11 DEF
     IInv

LEMMA CompleteStep ==
  ASSUME IInv, NEW p \in Processes, Complete(p)
  PROVE  IInv'
<1>p. \A s \in Studies : Passing(s) \subseteq Passing(s)'
  BY HoldoutConstants DEF Passing, study, IInv, TypeOK, Trying, Study, Passed,
     Unborn, Running, Rejected, Complete, Leave
<1>v. /\ dest[p] \in Destinations /\ pc[p] = "reported"
     /\ UNCHANGED <<report, looks, trials, selected>>
     /\ commitment[dest[p]] \in Commitments
  BY HoldoutConstants DEF IInv, TypeOK, Exclusive, study, disk, Progress,
     Concluding, Complete, Leave
<1>w. /\ commitment' \in [Destinations -> Commitments \cup {NoCommitment}]
     /\ commitment'[dest[p]] \in Commitments
     /\ commitment'[dest[p]].state = "EVALUATION_COMPLETE"
     /\ commitment'[dest[p]].trial = commitment[dest[p]].trial
     /\ commitment'[dest[p]].config = commitment[dest[p]].config
     /\ \A e \in Destinations : e # dest[p] => commitment'[e] = commitment[e]
  BY HoldoutConstants, NotRecords, <1>v DEF IInv, TypeOK, Commitments, States,
     Complete, Leave
<1>1. TypeOK'
  BY HoldoutConstants, NotRecords, <1>v, <1>w DEF IInv, TypeOK, disk, study,
     runs, aux, Commitments, Reports, States, Passed, Points, Concluding,
     Complete, Leave, Unborn, Running, Rejected
<1>2. Exclusive'
  BY HoldoutConstants, NotRecords DEF IInv, TypeOK, disk, study, runs, aux,
     Exclusive, Complete, Leave
<1>3. \A q \in Processes : Progress(q)'
  BY HoldoutConstants, NotRecords, <1>v, <1>w DEF IInv, TypeOK, disk, study,
     runs, aux, Exclusive, Progress, Concluding, IsConsumed, Consumed, States,
     Complete, Leave
<1>4. \A q \in Processes : Winning(q)'
  BY HoldoutConstants, NotRecords, <1>p DEF IInv, TypeOK, disk, study, runs,
     aux, Exclusive, Winning, Concluding, Passing, Study, Trying, Complete,
     Leave
<1>5. Trying'
  BY HoldoutConstants, NotRecords DEF IInv, TypeOK, disk, study, runs, aux,
     Trying, Study, Exclusive, Complete, Leave, Unborn, Running, Rejected,
     Passed
<1>6. Selection'
  BY HoldoutConstants, NotRecords, <1>p DEF IInv, TypeOK, disk, study, runs,
     aux, Selection, Passing, Complete, Leave
<1>7. Untouched'
  BY HoldoutConstants, NotRecords, <1>v, <1>w DEF IInv, TypeOK, disk, study,
     runs, aux, Untouched
<1>8. Ended'
  <2>1. \A e \in abandoned' : commitment'[e] # NoCommitment
    BY HoldoutConstants, NotRecords, <1>v, <1>w DEF IInv, TypeOK, Ended, aux,
       Complete, Leave
  <2>2. \A q \in Processes :
          pc'[q] \notin {"idle", "locked"} => dest'[q] \notin abandoned'
    BY <1>v DEF IInv, TypeOK, Ended, Exclusive, aux, Complete, Leave
  <2> QED
    BY <2>1, <2>2 DEF Ended
<1>9. OneInspection'
  <2> SUFFICES ASSUME NEW e \in Destinations
           PROVE  looks'[e] <= 1 /\ (looks'[e] > 0 => IsConsumed(e)')
    BY DEF OneInspection
  <2>1. CASE e = dest[p]
    BY HoldoutConstants, NotRecords, <1>v, <1>w, <2>1 DEF IInv, TypeOK,
       OneInspection, Progress, Concluding, IsConsumed, Consumed, States
  <2>2. CASE e # dest[p]
    BY HoldoutConstants, NotRecords, <1>v, <1>w, <2>2 DEF IInv, TypeOK,
       OneInspection, IsConsumed, Consumed, States
  <2> QED
    BY <2>1, <2>2
<1>10. ReportIsCommitted'
  <2> SUFFICES ASSUME NEW e \in Destinations
           PROVE  /\ report'[e] # NoReport =>
                        /\ IsConsumed(e)' /\ looks'[e] = 1
                        /\ report'[e].trial = commitment'[e].trial
                        /\ report'[e].config = commitment'[e].config
                  /\ commitment'[e] # NoCommitment =>
                        /\ commitment'[e].state = "EVALUATION_COMPLETE" => report'[e] # NoReport
                        /\ commitment'[e].state = "EVALUATION_FAILED" => report'[e] = NoReport
    BY DEF ReportIsCommitted
  <2>1. CASE e = dest[p]
    BY HoldoutConstants, NotRecords, <1>v, <1>w, <2>1 DEF IInv, TypeOK,
       ReportIsCommitted, Progress, Concluding, IsConsumed, Consumed, States
  <2>2. CASE e # dest[p]
    BY HoldoutConstants, NotRecords, <1>v, <1>w, <2>2 DEF IInv, TypeOK,
       ReportIsCommitted, IsConsumed, Consumed, States
  <2> QED
    BY <2>1, <2>2
<1>11. WinnersPassed'
  <2> SUFFICES ASSUME NEW e \in Destinations
           PROVE  IsConsumed(e)' =>
    {commitment'[e].trial, commitment'[e].config} \subseteq Passing(StudyOf[e])'
    BY DEF WinnersPassed
  <2>1. CASE e = dest[p]
    BY HoldoutConstants, NotRecords, <1>v, <1>w, <1>p, <2>1 DEF IInv, TypeOK,
       IsConsumed, Consumed, States, WinnersPassed, Progress, Concluding,
       Study
  <2>2. CASE e # dest[p]
    BY HoldoutConstants, NotRecords, <1>v, <1>w, <1>p, <2>2 DEF IInv, TypeOK,
       WinnersPassed, IsConsumed, Consumed, States
  <2> QED
    BY <2>1, <2>2
<1> QED
  BY <1>1, <1>2, <1>3, <1>4, <1>5, <1>6, <1>7, <1>8, <1>9, <1>10, <1>11 DEF
     IInv

LEMMA Initially == Init => IInv
<1> SUFFICES ASSUME Init PROVE IInv
  OBVIOUS
<1>1. TypeOK
  BY HoldoutConstants DEF Init, TypeOK, Points
<1>2. Exclusive /\ Trying /\ Selection /\ Untouched /\ Ended
  BY HoldoutConstants DEF Init, Exclusive, Trying, Selection, Untouched, Ended
<1>3. \A p \in Processes : Progress(p) /\ Winning(p)
  BY DEF Init, Progress, Winning, Concluding
<1>4. OneInspection /\ ReportIsCommitted /\ WinnersPassed
  BY DEF Init, OneInspection, ReportIsCommitted, WinnersPassed, IsConsumed
<1> QED
  BY <1>1, <1>2, <1>3, <1>4 DEF IInv

LEMMA StutterStep ==
  ASSUME IInv, UNCHANGED vars
  PROVE  IInv'
<1>1. UNCHANGED disk /\ \A s \in Studies : Passing(s) \subseteq Passing(s)'
  BY DEF vars, study, Passing
<1>2. TypeOK' /\ Exclusive' /\ Trying' /\ Selection' /\ Ended'
  BY DEF IInv, TypeOK, Exclusive, Trying, Selection, Ended, Study, Passing,
     vars, disk, study, runs, aux
<1>3. \A q \in Processes : Progress(q)' /\ Winning(q)'
  BY DEF IInv, Progress, Winning, IsConsumed, Study, Passing, vars, disk,
     study, runs
<1> QED
  BY <1>1, <1>2, <1>3, DiskUntouched DEF IInv

(* Every step of a run, and a stop, preserves the invariant. *)
LEMMA RunStep ==
  ASSUME IInv, NEW p \in Processes, Run(p) \/ Stop(p)
  PROVE  IInv'
<1>1. CASE Refuse(p)
  BY <1>1, LeaveStep DEF Refuse, IInv, TypeOK
<1>2. CASE Commit(p)
  BY <1>2, CommitStep
<1>3. CASE Search(p)
  <2>1. CASE \E t \in Trials : BeginTrial(p, t)
    BY <2>1, BeginTrialStep
  <2>2. CASE \E o \in {Rejected} \cup Passed : EndTrial(p, o)
    BY <2>2, EndTrialStep
  <2>3. CASE Choose(p)
    BY <2>3, ChooseStep
  <2>4. CASE NoWinner(p)
    BY <2>4, LeaveStep DEF NoWinner, IInv, TypeOK
  <2>5. CASE Select(p)
    BY <2>5, SelectStep
  <2>6. CASE RefuseSearch(p)
    BY <2>6, LeaveStep DEF RefuseSearch, IInv, TypeOK
  <2> QED
    BY <1>3, <2>1, <2>2, <2>3, <2>4, <2>5, <2>6 DEF Search
<1>4. CASE Conclude(p)
  BY <1>4, StartEvaluationStep, EvaluateStep, MarkFailedStep, WriteReportStep,
     CompleteStep DEF Conclude
<1>5. CASE Stop(p)
  BY <1>5, LeaveStep DEF Stop, IInv, TypeOK
<1> QED
  BY <1>1, <1>2, <1>3, <1>4, <1>5 DEF Run

(* The invariant is inductive: whatever the number of processes,            *)
(* destinations, studies and trials, every step of run_locked_holdout       *)
(* preserves it.                                                           *)
THEOREM Inductive == IInv /\ [Next]_vars => IInv'
<1> SUFFICES ASSUME IInv, [Next]_vars PROVE IInv'
  OBVIOUS
<1>1. CASE UNCHANGED vars
  BY <1>1, StutterStep
<1>2. CASE Next
  BY <1>2, BeginStep, RunStep DEF Next
<1> QED
  BY <1>1, <1>2

(* It holds in every reachable state (holdout.run_locked_holdout). *)
THEOREM Invariance == Spec => []IInv
<1>1. Init => IInv
  BY Initially
<1>2. IInv /\ [Next]_vars => IInv'
  BY Inductive
<1> QED
  BY <1>1, <1>2, PTL DEF Spec

(* Every variable keeps its type. *)
THEOREM TypeCorrect == Spec => []TypeOK
<1>1. IInv => TypeOK
  BY DEF IInv
<1> QED
  BY <1>1, Invariance, PTL

(* The final partition of a destination is evaluated once at most, and only *)
(* after the commitment that consumes the evaluation is on disk, whatever   *)
(* races, kills and restarts happen (holdout.run_locked_holdout).           *)
THEOREM EvaluatedOnce == Spec => []OneInspection
<1>1. IInv => OneInspection
  BY DEF IInv
<1> QED
  BY <1>1, Invariance, PTL

(* The report on disk is that of the committed evaluation.                  *)
THEOREM ReportsAreCommitted == Spec => []ReportIsCommitted
<1>1. IInv => ReportIsCommitted
  BY DEF IInv
<1> QED
  BY <1>1, Invariance, PTL

(* Only gate-passing trials are committed to and evaluated.                 *)
THEOREM OnlyWinners == Spec => []WinnersPassed
<1>1. IInv => WinnersPassed
  BY DEF IInv
<1> QED
  BY <1>1, Invariance, PTL

(* No later run touches what an ended run left on disk: a step that writes  *)
(* is the step of a run whose commitment is not abandoned.                  *)
THEOREM LeftAlone == Spec => NeverRevived
<1> DEFINE Kept == \A d \in abandoned :
                       /\ commitment'[d] = commitment[d]
                       /\ report'[d] = report[d] /\ looks'[d] = looks[d]
<1>1. ASSUME IInv, [Next]_vars
      PROVE  Kept \/ UNCHANGED disk
  <2> SUFFICES ASSUME NEW p \in Processes, Run(p), ~UNCHANGED disk
               PROVE  Kept
    BY <1>1 DEF Next, vars, Begin, Stop
  <2>1. Commit(p) \/ Conclude(p)
    BY DEF Run, Refuse, Search, BeginTrial, EndTrial, Choose, NoWinner,
       Select, RefuseSearch
  <2>2. dest[p] \notin abandoned
    BY <1>1, <2>1 DEF IInv, Ended, Commit, Conclude, StartEvaluation, Evaluate,
       MarkFailed, WriteReport, Complete
  <2>3. \A d \in Destinations : d # dest[p] =>
           /\ commitment'[d] = commitment[d]
           /\ report'[d] = report[d] /\ looks'[d] = looks[d]
    BY <1>1, <2>1 DEF IInv, TypeOK, Commit, Conclude, StartEvaluation, Consume,
       Evaluate, MarkFailed, WriteReport, Complete
  <2> QED
    BY <1>1, <2>2, <2>3 DEF IInv, TypeOK
<1> QED
  BY <1>1, Invariance, PTL DEF Spec, NeverRevived


-----------------------------------------------------------------------------
(* A step of a run, seen as a step of the one-shot token. *)
LEMMA ShotRun ==
  ASSUME IInv, NEW p \in Processes, Run(p)
  PROVE  Shot!Next \/ UNCHANGED Shot!vars
<1> DEFINE Spent == {d \in Destinations : IsConsumed(d)}
           Done  == {d \in Destinations : IsConcluded(d)}
<1>1. CASE UNCHANGED <<commitment, looks>>
  BY <1>1 DEF Shot!vars, IsConsumed, IsConcluded
<1>2. ASSUME Commit(p) \/ StartEvaluation(p) \/ MarkFailed(p) \/ Complete(p)
      PROVE  /\ dest[p] \in Destinations
             /\ UNCHANGED looks
             /\ \A d \in Destinations : d # dest[p] =>
                   /\ commitment'[d] = commitment[d]
                   /\ IsConsumed(d)' <=> IsConsumed(d)
                   /\ IsConcluded(d)' <=> IsConcluded(d)
  <2>1. dest[p] \in Destinations /\ UNCHANGED looks
    BY <1>2 DEF IInv, TypeOK, Commit, StartEvaluation, MarkFailed, Complete,
       disk
  <2>2. \A d \in Destinations : d # dest[p] => commitment'[d] = commitment[d]
    BY <1>2 DEF IInv, TypeOK, Commit, StartEvaluation, Consume, MarkFailed,
       Complete
  <2> QED
    BY <2>1, <2>2 DEF IsConsumed, IsConcluded
<1>3. CASE Commit(p)
  <2>1. /\ ~IsConsumed(dest[p])
        /\ commitment'[dest[p]].state = "SEARCH_IN_PROGRESS"
    BY <1>2, <1>3 DEF Commit, IsConsumed, IInv, TypeOK
  <2>2. Spent' = Spent /\ Done' = Done
    BY <1>2, <1>3, <2>1 DEF IsConsumed, IsConcluded, Consumed, States
  <2> QED
    BY <1>2, <1>3, <2>2 DEF Shot!vars
<1>4. CASE StartEvaluation(p)
  <2>1. ~IsConsumed(dest[p])
    BY <1>2, <1>4 DEF StartEvaluation, IInv, Progress
  <2>2. commitment'[dest[p]].state = "EVALUATION_STARTED"
    BY <1>2, <1>4 DEF StartEvaluation, Consume, IInv, TypeOK
  <2>3. commitment'[dest[p]] # NoCommitment
    <3>1. pc'[p] = "evaluating" /\ dest'[p] = dest[p]
      BY <1>4 DEF StartEvaluation, Goto, IInv, TypeOK
    <3>2. Progress(p)'
      BY <1>4, StartEvaluationStep DEF IInv
    <3> QED
      BY <3>1, <3>2 DEF Progress, Concluding
  <2>4. Spent' = Spent \cup {dest[p]} /\ Done' = Done
    BY <1>2, <1>4, <2>1, <2>2, <2>3 DEF IsConsumed, IsConcluded, Consumed, States
  <2>5. Shot!Spend(dest[p])
    BY <1>2, <1>4, <2>1, <2>4 DEF Shot!Spend
  <2> QED
    BY <1>2, <1>4, <2>5 DEF Shot!Next
<1>5. CASE Evaluate(p)
  <2>1. dest[p] \in Destinations
    BY <1>5 DEF Evaluate, IInv, TypeOK
  <2>2. IsConsumed(dest[p]) /\ ~IsConcluded(dest[p]) /\ looks[dest[p]] = 0
    BY <1>5 DEF Evaluate, IInv, Progress, Concluding, IsConsumed, IsConcluded,
       Consumed, States
  <2>3. looks' = [looks EXCEPT ![dest[p]] = 1] /\ UNCHANGED commitment
    BY <1>5, <2>1, <2>2 DEF Evaluate, IInv, TypeOK
  <2>4. Spent' = Spent /\ Done' = Done
    BY <2>3 DEF IsConsumed, IsConcluded
  <2>5. Shot!Look(dest[p])
    BY <2>1, <2>2, <2>3, <2>4 DEF Shot!Look
  <2> QED
    BY <2>1, <2>5 DEF Shot!Next
<1>6. CASE MarkFailed(p) \/ Complete(p)
  <2>1. IsConsumed(dest[p]) /\ ~IsConcluded(dest[p])
    BY <1>6 DEF MarkFailed, Complete, IInv, Progress, Concluding, IsConsumed,
       IsConcluded, Consumed, States
  <2>2. commitment'[dest[p]].state \in {"EVALUATION_FAILED", "EVALUATION_COMPLETE"}
    BY <1>2, <1>6, <2>1 DEF MarkFailed, Complete, IInv, TypeOK, Commitments,
       IsConsumed
  <2>3. commitment'[dest[p]] # NoCommitment
    BY <1>2, <1>6, MarkFailedStep, CompleteStep
       DEF IInv, Ended, MarkFailed, Complete, Leave, TypeOK
  <2>4. Spent' = Spent /\ Done' = Done \cup {dest[p]}
    BY <1>2, <1>6, <2>1, <2>2, <2>3 DEF IsConsumed, IsConcluded, Consumed,
       States
  <2>5. Shot!Conclude(dest[p])
    BY <1>2, <1>6, <2>1, <2>4 DEF Shot!Conclude
  <2> QED
    BY <1>2, <1>6, <2>5 DEF Shot!Next
<1> QED
  BY <1>1, <1>3, <1>4, <1>5, <1>6 DEF Run, Search, Conclude, Refuse,
     BeginTrial, EndTrial, Choose, NoWinner, Select, RefuseSearch, WriteReport,
     disk

(* The holdout of every destination is a one-shot token: every behaviour of *)
(* run_locked_holdout is one of OneShot under the refinement mapping.       *)
THEOREM ImplementsOneShot == Spec => OneShotHoldout
<1>1. Init => Shot!Init
  BY DEF Init, Shot!Init, IsConsumed, IsConcluded
<1>2. ASSUME IInv, [Next]_vars
      PROVE  [Shot!Next]_(Shot!vars)
  <2>1. CASE UNCHANGED <<commitment, looks>>
    BY <2>1 DEF Shot!vars, IsConsumed, IsConcluded
  <2>2. ASSUME NEW p \in Processes, Run(p)
        PROVE  [Shot!Next]_(Shot!vars)
    BY <1>2, <2>2, ShotRun
  <2> QED
    BY <1>2, <2>1, <2>2 DEF Next, vars, disk, Begin, Stop
<1> QED
  BY <1>1, <1>2, Invariance, PTL DEF Spec, OneShotHoldout, Shot!Spec
=============================================================================
