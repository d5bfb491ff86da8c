--------------------------- MODULE PromotionProofs ---------------------------
(***************************************************************************)
(* The inductive invariant of Promotion, and the climb of the champion.    *)
(***************************************************************************)
EXTENDS Promotion, TLAPS

LEMMA LeaveStep ==
  ASSUME IInv, NEW p \in Processes, pc[p] # "idle", Leave(p),
         UNCHANGED <<store, champion, decision>>,
         stops' = stops \/ stops' = stops + 1,
         pc[p] \in {"approved", "rechecked"} => stops' # 0 \/ bad # {}
  PROVE  IInv'
<1>1. TypeOK'
  BY PromotionConstants DEF IInv, TypeOK, store, runs, Metrics, Bytes,
     Pointers, Kinds, Points, Judging, Leave, Goto
<1>2. \A q \in Processes : Judged(q)' /\ Prepared(q)'
  BY PromotionConstants DEF IInv, TypeOK, store, runs, Judged, Prepared,
     Judging, Leave, Goto
<1>3. ReplaysOfBundles'
  BY PromotionConstants DEF IInv, TypeOK, store, runs, ReplaysOfBundles,
     Leave, Goto
<1>4. ChampionQualified'
  <2>1. PointerQualified'
    BY PromotionConstants DEF IInv, TypeOK, store, runs, ChampionQualified,
       PointerQualified, WentBadAt, Leave, Goto
  <2>2. \A q \in Processes : RecheckedSound(q)'
    BY PromotionConstants DEF IInv, TypeOK, store, runs, ChampionQualified,
       RecheckedSound, WentBadAt, Sound, Leave, Goto
  <2> QED
    BY <2>1, <2>2 DEF ChampionQualified
<1>5. ApprovedAgainstCurrent'
  BY PromotionConstants DEF IInv, TypeOK, store, runs, ApprovedAgainstCurrent,
     Approves, Judging, Leave, Goto
<1>6. DecisionKept'
  BY PromotionConstants DEF IInv, TypeOK, store, runs, DecisionKept, Judging,
     BytesOf, Sound, Leave, Goto
<1>7. \A q \in Processes : ReportKept(q)'
  BY PromotionConstants DEF IInv, TypeOK, store, runs, ReportKept, WentBadAt,
     Sound, Leave, Goto
<1> QED
  BY <1>1, <1>2, <1>3, <1>4, <1>5, <1>6, <1>7 DEF IInv

LEMMA TrainStep ==
  ASSUME IInv, NEW p \in Processes, NEW c \in Bundles, NEW m \in Metrics, Train(p, c, m)
  PROVE  IInv'
<1>1. TypeOK'
  BY PromotionConstants DEF IInv, TypeOK, store, runs, Metrics, Bytes,
     Pointers, Kinds, Points, Judging, Train, Goto
<1>2. \A q \in Processes : Judged(q)' /\ Prepared(q)'
  BY PromotionConstants DEF IInv, TypeOK, store, runs, Judged, Prepared,
     Judging, Train, Goto, ReplaysOfBundles
<1>3. ReplaysOfBundles'
  BY PromotionConstants DEF IInv, TypeOK, store, runs, ReplaysOfBundles,
     Train, Goto
<1>4. ChampionQualified'
  <2>1. PointerQualified'
    BY PromotionConstants DEF IInv, TypeOK, store, runs, ChampionQualified,
       PointerQualified, WentBadAt, Train, Goto
  <2>2. \A q \in Processes : RecheckedSound(q)'
    BY PromotionConstants DEF IInv, TypeOK, store, runs, ChampionQualified,
       RecheckedSound, WentBadAt, Sound, Train, Goto
  <2> QED
    BY <2>1, <2>2 DEF ChampionQualified
<1>5. ApprovedAgainstCurrent'
  BY PromotionConstants DEF IInv, TypeOK, store, runs, ApprovedAgainstCurrent,
     Approves, Judging, Train, Goto, Judged, ChampionQualified,
     PointerQualified
<1>6. DecisionKept'
  BY PromotionConstants DEF IInv, TypeOK, store, runs, DecisionKept, Judging,
     BytesOf, Sound, Train, Goto
<1>7. \A q \in Processes : ReportKept(q)'
  BY PromotionConstants DEF IInv, TypeOK, store, runs, ReportKept, WentBadAt,
     Sound, Train, Goto
<1> QED
  BY <1>1, <1>2, <1>3, <1>4, <1>5, <1>6, <1>7 DEF IInv

LEMMA WriteReportStep ==
  ASSUME IInv, NEW p \in Processes, NEW o \in {"passing", "failing"}, WriteReport(p, o)
  PROVE  IInv'
<1>1. TypeOK'
  BY PromotionConstants DEF IInv, TypeOK, store, runs, Metrics, Bytes,
     Pointers, Kinds, Points, Judging, WriteReport, Goto
<1>2. \A q \in Processes : Judged(q)' /\ Prepared(q)'
  BY PromotionConstants DEF IInv, TypeOK, store, runs, Judged, Prepared,
     Judging, WriteReport, Goto
<1>3. ReplaysOfBundles'
  BY PromotionConstants DEF IInv, TypeOK, store, runs, ReplaysOfBundles,
     WriteReport, Goto, Prepared
<1>4. ChampionQualified'
  <2>1. PointerQualified'
    BY PromotionConstants DEF IInv, TypeOK, store, runs, ChampionQualified,
       PointerQualified, WentBadAt, WriteReport, Goto, Prepared
  <2>2. \A q \in Processes : RecheckedSound(q)'
    BY PromotionConstants DEF IInv, TypeOK, store, runs, ChampionQualified,
       RecheckedSound, WentBadAt, Sound, WriteReport, Goto, Prepared
  <2> QED
    BY <2>1, <2>2 DEF ChampionQualified
<1>5. ApprovedAgainstCurrent'
  BY PromotionConstants DEF IInv, TypeOK, store, runs, ApprovedAgainstCurrent,
     Approves, Judging, WriteReport, Goto
<1>6. DecisionKept'
  BY PromotionConstants DEF IInv, TypeOK, store, runs, DecisionKept, Judging,
     BytesOf, Sound, WriteReport, Goto
<1>7. \A q \in Processes : ReportKept(q)'
  BY PromotionConstants DEF IInv, TypeOK, store, runs, ReportKept, WentBadAt,
     Sound, WriteReport, Goto
<1> QED
  BY <1>1, <1>2, <1>3, <1>4, <1>5, <1>6, <1>7 DEF IInv

LEMMA PromotePreparedStep ==
  ASSUME IInv, NEW p \in Processes, PromotePrepared(p)
  PROVE  IInv'
<1>1. TypeOK'
  BY PromotionConstants DEF IInv, TypeOK, store, runs, Metrics, Bytes,
     Pointers, Kinds, Points, Judging, PromotePrepared, Enter, Goto
<1>2. \A q \in Processes : Judged(q)' /\ Prepared(q)'
  BY PromotionConstants DEF IInv, TypeOK, store, runs, Judged, Prepared,
     Judging, PromotePrepared, Enter, Goto
<1>3. ReplaysOfBundles'
  BY PromotionConstants DEF IInv, TypeOK, store, runs, ReplaysOfBundles,
     PromotePrepared, Enter, Goto
<1>4. ChampionQualified'
  <2>1. PointerQualified'
    BY PromotionConstants DEF IInv, TypeOK, store, runs, ChampionQualified,
       PointerQualified, WentBadAt, PromotePrepared, Enter, Goto
  <2>2. \A q \in Processes : RecheckedSound(q)'
    BY PromotionConstants DEF IInv, TypeOK, store, runs, ChampionQualified,
       RecheckedSound, WentBadAt, Sound, PromotePrepared, Enter, Goto
  <2> QED
    BY <2>1, <2>2 DEF ChampionQualified
<1>5. ApprovedAgainstCurrent'
  BY PromotionConstants DEF IInv, TypeOK, store, runs, ApprovedAgainstCurrent,
     Approves, Judging, PromotePrepared, Enter, Goto
<1>6. DecisionKept'
  BY PromotionConstants DEF IInv, TypeOK, store, runs, DecisionKept, Judging,
     BytesOf, Sound, PromotePrepared, Enter, Goto
<1>7. \A q \in Processes : ReportKept(q)'
  BY PromotionConstants DEF IInv, TypeOK, store, runs, ReportKept, WentBadAt,
     Sound, PromotePrepared, Enter, Goto
<1> QED
  BY <1>1, <1>2, <1>3, <1>4, <1>5, <1>6, <1>7 DEF IInv

LEMMA PromoteChosenStep ==
  ASSUME IInv, NEW p \in Processes, NEW c \in Bundles, NEW r \in Bundles, PromoteChosen(p, c, r)
  PROVE  IInv'
<1>1. TypeOK'
  BY PromotionConstants DEF IInv, TypeOK, store, runs, Metrics, Bytes,
     Pointers, Kinds, Points, Judging, PromoteChosen, Enter, Goto
<1>2. \A q \in Processes : Judged(q)' /\ Prepared(q)'
  BY PromotionConstants DEF IInv, TypeOK, store, runs, Judged, Prepared,
     Judging, PromoteChosen, Enter, Goto
<1>3. ReplaysOfBundles'
  BY PromotionConstants DEF IInv, TypeOK, store, runs, ReplaysOfBundles,
     PromoteChosen, Enter, Goto
<1>4. ChampionQualified'
  <2>1. PointerQualified'
    BY PromotionConstants DEF IInv, TypeOK, store, runs, ChampionQualified,
       PointerQualified, WentBadAt, PromoteChosen, Enter, Goto
  <2>2. \A q \in Processes : RecheckedSound(q)'
    BY PromotionConstants DEF IInv, TypeOK, store, runs, ChampionQualified,
       RecheckedSound, WentBadAt, Sound, PromoteChosen, Enter, Goto
  <2> QED
    BY <2>1, <2>2 DEF ChampionQualified
<1>5. ApprovedAgainstCurrent'
  BY PromotionConstants DEF IInv, TypeOK, store, runs, ApprovedAgainstCurrent,
     Approves, Judging, PromoteChosen, Enter, Goto
<1>6. DecisionKept'
  BY PromotionConstants DEF IInv, TypeOK, store, runs, DecisionKept, Judging,
     BytesOf, Sound, PromoteChosen, Enter, Goto
<1>7. \A q \in Processes : ReportKept(q)'
  BY PromotionConstants DEF IInv, TypeOK, store, runs, ReportKept, WentBadAt,
     Sound, PromoteChosen, Enter, Goto
<1> QED
  BY <1>1, <1>2, <1>3, <1>4, <1>5, <1>6, <1>7 DEF IInv

LEMMA VerifyChallengerStep ==
  ASSUME IInv, NEW p \in Processes, VerifyChallenger(p)
  PROVE  IInv'
<1>1. TypeOK'
  BY PromotionConstants DEF IInv, TypeOK, store, runs, Metrics, Bytes,
     Pointers, Kinds, Points, Judging, VerifyChallenger, Goto
<1>2. \A q \in Processes : Judged(q)' /\ Prepared(q)'
  BY PromotionConstants DEF IInv, TypeOK, store, runs, Judged, Prepared,
     Judging, VerifyChallenger, Goto
<1>3. ReplaysOfBundles'
  BY PromotionConstants DEF IInv, TypeOK, store, runs, ReplaysOfBundles,
     VerifyChallenger, Goto
<1>4. ChampionQualified'
  <2>1. PointerQualified'
    BY PromotionConstants DEF IInv, TypeOK, store, runs, ChampionQualified,
       PointerQualified, WentBadAt, VerifyChallenger, Goto
  <2>2. \A q \in Processes : RecheckedSound(q)'
    BY PromotionConstants DEF IInv, TypeOK, store, runs, ChampionQualified,
       RecheckedSound, WentBadAt, Sound, VerifyChallenger, Goto
  <2> QED
    BY <2>1, <2>2 DEF ChampionQualified
<1>5. ApprovedAgainstCurrent'
  BY PromotionConstants DEF IInv, TypeOK, store, runs, ApprovedAgainstCurrent,
     Approves, Judging, VerifyChallenger, Goto
<1>6. DecisionKept'
  BY PromotionConstants DEF IInv, TypeOK, store, runs, DecisionKept, Judging,
     BytesOf, Sound, VerifyChallenger, Goto
<1>7. \A q \in Processes : ReportKept(q)'
  BY PromotionConstants DEF IInv, TypeOK, store, runs, ReportKept, WentBadAt,
     Sound, VerifyChallenger, Goto
<1> QED
  BY <1>1, <1>2, <1>3, <1>4, <1>5, <1>6, <1>7 DEF IInv

LEMMA JudgeReplayStep ==
  ASSUME IInv, NEW p \in Processes, JudgeReplay(p)
  PROVE  IInv'
<1>1. TypeOK'
  BY PromotionConstants DEF IInv, TypeOK, store, runs, Metrics, Bytes,
     Pointers, Kinds, Points, Judging, JudgeReplay, EvidenceAccepted, Goto
<1>2. \A q \in Processes : Judged(q)' /\ Prepared(q)'
  BY PromotionConstants DEF IInv, TypeOK, store, runs, Judged, Prepared,
     Judging, JudgeReplay, EvidenceAccepted, Goto
<1>3. ReplaysOfBundles'
  BY PromotionConstants DEF IInv, TypeOK, store, runs, ReplaysOfBundles,
     JudgeReplay, EvidenceAccepted, Goto
<1>4. ChampionQualified'
  <2>1. PointerQualified'
    BY PromotionConstants DEF IInv, TypeOK, store, runs, ChampionQualified,
       PointerQualified, WentBadAt, JudgeReplay, EvidenceAccepted, Goto
  <2>2. \A q \in Processes : RecheckedSound(q)'
    BY PromotionConstants DEF IInv, TypeOK, store, runs, ChampionQualified,
       RecheckedSound, WentBadAt, Sound, JudgeReplay, EvidenceAccepted, Goto
  <2> QED
    BY <2>1, <2>2 DEF ChampionQualified
<1>5. ApprovedAgainstCurrent'
  BY PromotionConstants DEF IInv, TypeOK, store, runs, ApprovedAgainstCurrent,
     Approves, Judging, JudgeReplay, EvidenceAccepted, Goto
<1>6. DecisionKept'
  BY PromotionConstants DEF IInv, TypeOK, store, runs, DecisionKept, Judging,
     BytesOf, Sound, JudgeReplay, EvidenceAccepted, Goto
<1>7. \A q \in Processes : ReportKept(q)'
  BY PromotionConstants DEF IInv, TypeOK, store, runs, ReportKept, WentBadAt,
     Sound, JudgeReplay, EvidenceAccepted, Goto
<1> QED
  BY <1>1, <1>2, <1>3, <1>4, <1>5, <1>6, <1>7 DEF IInv

LEMMA HashReplayStep ==
  ASSUME IInv, NEW p \in Processes, HashReplay(p)
  PROVE  IInv'
<1>1. TypeOK'
  BY PromotionConstants DEF IInv, TypeOK, store, runs, Metrics, Bytes,
     Pointers, Kinds, Points, Judging, HashReplay, BytesOf, Goto
<1>2. \A q \in Processes : Judged(q)' /\ Prepared(q)'
  BY PromotionConstants DEF IInv, TypeOK, store, runs, Judged, Prepared,
     Judging, HashReplay, BytesOf, Goto
<1>3. ReplaysOfBundles'
  BY PromotionConstants DEF IInv, TypeOK, store, runs, ReplaysOfBundles,
     HashReplay, BytesOf, Goto
<1>4. ChampionQualified'
  <2>1. PointerQualified'
    BY PromotionConstants DEF IInv, TypeOK, store, runs, ChampionQualified,
       PointerQualified, WentBadAt, HashReplay, BytesOf, Goto
  <2>2. \A q \in Processes : RecheckedSound(q)'
    BY PromotionConstants DEF IInv, TypeOK, store, runs, ChampionQualified,
       RecheckedSound, WentBadAt, Sound, HashReplay, BytesOf, Goto
  <2> QED
    BY <2>1, <2>2 DEF ChampionQualified
<1>5. ApprovedAgainstCurrent'
  BY PromotionConstants DEF IInv, TypeOK, store, runs, ApprovedAgainstCurrent,
     Approves, Judging, HashReplay, BytesOf, Goto
<1>6. DecisionKept'
  BY PromotionConstants DEF IInv, TypeOK, store, runs, DecisionKept, Judging,
     BytesOf, Sound, HashReplay, BytesOf, Goto
<1>7. \A q \in Processes : ReportKept(q)'
  BY PromotionConstants DEF IInv, TypeOK, store, runs, ReportKept, WentBadAt,
     Sound, HashReplay, BytesOf, Goto
<1> QED
  BY <1>1, <1>2, <1>3, <1>4, <1>5, <1>6, <1>7 DEF IInv

LEMMA ResolveIncumbentStep ==
  ASSUME IInv, NEW p \in Processes, ResolveIncumbent(p)
  PROVE  IInv'
<1>1. TypeOK'
  BY PromotionConstants DEF IInv, TypeOK, store, runs, Metrics, Bytes,
     Pointers, Kinds, Points, Judging, ResolveIncumbent, Goto
<1>2. \A q \in Processes : Judged(q)' /\ Prepared(q)'
  BY PromotionConstants DEF IInv, TypeOK, store, runs, Judged, Prepared,
     Judging, ResolveIncumbent, Goto
<1>3. ReplaysOfBundles'
  BY PromotionConstants DEF IInv, TypeOK, store, runs, ReplaysOfBundles,
     ResolveIncumbent, Goto
<1>4. ChampionQualified'
  <2>1. PointerQualified'
    BY PromotionConstants DEF IInv, TypeOK, store, runs, ChampionQualified,
       PointerQualified, WentBadAt, ResolveIncumbent, Goto
  <2>2. \A q \in Processes : RecheckedSound(q)'
    BY PromotionConstants DEF IInv, TypeOK, store, runs, ChampionQualified,
       RecheckedSound, WentBadAt, Sound, ResolveIncumbent, Goto
  <2> QED
    BY <2>1, <2>2 DEF ChampionQualified
<1>5. ApprovedAgainstCurrent'
  BY PromotionConstants DEF IInv, TypeOK, store, runs, ApprovedAgainstCurrent,
     Approves, Judging, ResolveIncumbent, Goto
<1>6. DecisionKept'
  BY PromotionConstants DEF IInv, TypeOK, store, runs, DecisionKept, Judging,
     BytesOf, Sound, ResolveIncumbent, Goto
<1>7. \A q \in Processes : ReportKept(q)'
  BY PromotionConstants DEF IInv, TypeOK, store, runs, ReportKept, WentBadAt,
     Sound, ResolveIncumbent, Goto
<1> QED
  BY <1>1, <1>2, <1>3, <1>4, <1>5, <1>6, <1>7 DEF IInv

LEMMA ApproveStep ==
  ASSUME IInv, NEW p \in Processes, Approve(p)
  PROVE  IInv'
<1>1. TypeOK'
  BY PromotionConstants DEF IInv, TypeOK, store, runs, Metrics, Bytes,
     Pointers, Kinds, Points, Judging, Approve, Goto
<1>2. \A q \in Processes : Judged(q)' /\ Prepared(q)'
  BY PromotionConstants DEF IInv, TypeOK, store, runs, Judged, Prepared,
     Judging, Approve, Goto
<1>3. ReplaysOfBundles'
  BY PromotionConstants DEF IInv, TypeOK, store, runs, ReplaysOfBundles,
     Approve, Goto
<1>4. ChampionQualified'
  <2>1. PointerQualified'
    BY PromotionConstants DEF IInv, TypeOK, store, runs, ChampionQualified,
       PointerQualified, WentBadAt, Approve, Goto
  <2>2. \A q \in Processes : RecheckedSound(q)'
    BY PromotionConstants DEF IInv, TypeOK, store, runs, ChampionQualified,
       RecheckedSound, WentBadAt, Sound, Approve, Goto
  <2> QED
    BY <2>1, <2>2 DEF ChampionQualified
<1>5. ApprovedAgainstCurrent'
  BY PromotionConstants DEF IInv, TypeOK, store, runs, ApprovedAgainstCurrent,
     Approves, Judging, Approve, Goto
<1>6. DecisionKept'
  BY PromotionConstants DEF IInv, TypeOK, store, runs, DecisionKept, Judging,
     BytesOf, Sound, Approve, Goto
<1>7. \A q \in Processes : ReportKept(q)'
  BY PromotionConstants DEF IInv, TypeOK, store, runs, ReportKept, WentBadAt,
     Sound, Approve, Goto
<1> QED
  BY <1>1, <1>2, <1>3, <1>4, <1>5, <1>6, <1>7 DEF IInv

LEMMA RejectStep ==
  ASSUME IInv, NEW p \in Processes, Reject(p)
  PROVE  IInv'
<1>1. TypeOK'
  BY PromotionConstants DEF IInv, TypeOK, store, runs, Metrics, Bytes,
     Pointers, Kinds, Points, Judging, Reject, Leave, Goto
<1>2. \A q \in Processes : Judged(q)' /\ Prepared(q)'
  BY PromotionConstants DEF IInv, TypeOK, store, runs, Judged, Prepared,
     Judging, Reject, Leave, Goto
<1>3. ReplaysOfBundles'
  BY PromotionConstants DEF IInv, TypeOK, store, runs, ReplaysOfBundles,
     Reject, Leave, Goto
<1>4. ChampionQualified'
  <2>1. PointerQualified'
    BY PromotionConstants DEF IInv, TypeOK, store, runs, ChampionQualified,
       PointerQualified, WentBadAt, Reject, Leave, Goto
  <2>2. \A q \in Processes : RecheckedSound(q)'
    BY PromotionConstants DEF IInv, TypeOK, store, runs, ChampionQualified,
       RecheckedSound, WentBadAt, Sound, Reject, Leave, Goto
  <2> QED
    BY <2>1, <2>2 DEF ChampionQualified
<1>5. ApprovedAgainstCurrent'
  BY PromotionConstants DEF IInv, TypeOK, store, runs, ApprovedAgainstCurrent,
     Approves, Judging, Reject, Leave, Goto
<1>6. DecisionKept'
  BY PromotionConstants DEF IInv, TypeOK, store, runs, DecisionKept, Judging,
     BytesOf, Sound, Reject, Leave, Goto
<1>7. \A q \in Processes : ReportKept(q)'
  BY PromotionConstants DEF IInv, TypeOK, store, runs, ReportKept, WentBadAt,
     Sound, Reject, Leave, Goto
<1> QED
  BY <1>1, <1>2, <1>3, <1>4, <1>5, <1>6, <1>7 DEF IInv

LEMMA RecheckStep ==
  ASSUME IInv, NEW p \in Processes, Recheck(p)
  PROVE  IInv'
<1>1. TypeOK'
  BY PromotionConstants DEF IInv, TypeOK, store, runs, Metrics, Bytes,
     Pointers, Kinds, Points, Judging, Recheck, Goto
<1>2. \A q \in Processes : Judged(q)' /\ Prepared(q)'
  BY PromotionConstants DEF IInv, TypeOK, store, runs, Judged, Prepared,
     Judging, Recheck, Goto
<1>3. ReplaysOfBundles'
  BY PromotionConstants DEF IInv, TypeOK, store, runs, ReplaysOfBundles,
     Recheck, Goto
<1>4. ChampionQualified'
  <2>1. PointerQualified'
    BY PromotionConstants DEF IInv, TypeOK, store, runs, ChampionQualified,
       PointerQualified, WentBadAt, Recheck
  <2>2. \A q \in Processes : RecheckedSound(q)'
    BY PromotionConstants DEF IInv, TypeOK, store, runs, ChampionQualified,
       RecheckedSound, WentBadAt, Sound, Recheck, Unchanged, BytesOf,
       ReportKept, Goto
  <2> QED
    BY <2>1, <2>2 DEF ChampionQualified
<1>5. ApprovedAgainstCurrent'
  BY PromotionConstants DEF IInv, TypeOK, store, runs, ApprovedAgainstCurrent,
     Approves, Judging, Recheck, Goto
<1>6. DecisionKept'
  BY PromotionConstants DEF IInv, TypeOK, store, runs, DecisionKept, Judging,
     BytesOf, Sound, Recheck, Goto
<1>7. \A q \in Processes : ReportKept(q)'
  BY PromotionConstants DEF IInv, TypeOK, store, runs, ReportKept, WentBadAt,
     Sound, Recheck, Goto
<1> QED
  BY <1>1, <1>2, <1>3, <1>4, <1>5, <1>6, <1>7 DEF IInv

LEMMA PublishStep ==
  ASSUME IInv, NEW p \in Processes, Publish(p)
  PROVE  IInv'
<1>1. TypeOK'
  BY PromotionConstants DEF IInv, TypeOK, store, runs, Metrics, Bytes,
     Pointers, Kinds, Points, Judging, Publish, Leave, Goto
<1>2. \A q \in Processes : Judged(q)' /\ Prepared(q)'
  BY PromotionConstants DEF IInv, TypeOK, store, runs, Judged, Prepared,
     Judging, Publish, Leave, Goto
<1>3. ReplaysOfBundles'
  BY PromotionConstants DEF IInv, TypeOK, store, runs, ReplaysOfBundles,
     Publish, Leave, Goto
<1>4. ChampionQualified'
  <2>1. PointerQualified'
    BY PromotionConstants DEF IInv, TypeOK, store, runs, ChampionQualified,
       PointerQualified, WentBadAt, Publish, Leave, Judged, Judging,
       ReportKept, ApprovedAgainstCurrent, Approves
  <2>2. \A q \in Processes : RecheckedSound(q)'
    BY PromotionConstants DEF IInv, TypeOK, store, runs, ChampionQualified,
       RecheckedSound, WentBadAt, Sound, Publish, Leave, Goto
  <2> QED
    BY <2>1, <2>2 DEF ChampionQualified
<1>5. ApprovedAgainstCurrent'
  BY PromotionConstants DEF IInv, TypeOK, store, runs, ApprovedAgainstCurrent,
     Approves, Judging, Publish, Leave, Goto
<1>6. DecisionKept'
  <2>1. champion' # NoChampion /\ champion'.bundle = challenger[p]
    BY PromotionConstants DEF Publish, IInv, TypeOK, Judging, Pointers, Bytes
  <2>2. decision'.bundle = challenger[p]
    BY DEF Publish, IInv, ApprovedAgainstCurrent
  <2> QED
    BY <2>1, <2>2 DEF IInv, TypeOK, DecisionKept, Publish, Leave, store
<1>7. \A q \in Processes : ReportKept(q)'
  BY PromotionConstants DEF IInv, TypeOK, store, runs, ReportKept, WentBadAt,
     Sound, Publish, Leave, Goto
<1> QED
  BY <1>1, <1>2, <1>3, <1>4, <1>5, <1>6, <1>7 DEF IInv

LEMMA GoBadStep ==
  ASSUME IInv, NEW kind \in Kinds, NEW c \in Bundles, GoBad(kind, c)
  PROVE  IInv'
<1>1. changes \subseteq changes'
  BY DEF GoBad
<1>2. \A q \in Processes : \A k, b : Sound(k, b) =>
         \/ Sound(k, b)'
         \/ k = kind /\ b = c /\ (Concerns(q, k, b) =>
                                    <<pc[q], k, b>> \in changes')
  BY DEF GoBad, Sound
<1>3. TypeOK'
  BY PromotionConstants DEF IInv, TypeOK, store, runs, Metrics, Bytes,
     Pointers, Kinds, Points, Judging, GoBad
<1>4. \A q \in Processes : Judged(q)' /\ Prepared(q)'
  BY PromotionConstants DEF IInv, TypeOK, store, runs, Judged, Prepared,
     Judging, GoBad
<1>5. ReplaysOfBundles'
  BY PromotionConstants DEF IInv, TypeOK, store, runs, ReplaysOfBundles, GoBad
<1>6. ChampionQualified'
  <2>1. PointerQualified'
    BY <1>1 DEF IInv, ChampionQualified, PointerQualified, WentBadAt, GoBad
  <2>2. ASSUME NEW q \in Processes, pc'[q] = "rechecked"
        PROVE  RecheckedSound(q)'
    <3>1. pc[q] = "rechecked" /\ RecheckedSound(q) /\ UNCHANGED runs
      BY <2>2 DEF GoBad, runs, IInv, ChampionQualified
    <3>2. Sound("bundle", challenger[q])
             \/ WentBadAt("rechecked", "bundle", challenger[q])
      BY <3>1 DEF RecheckedSound
    <3>3. \/ Sound("replay", evidence[q])
          \/ \E point \in {"judged", "rechecked"} :
                WentBadAt(point, "replay", evidence[q])
      BY <3>1 DEF RecheckedSound
    <3>4. Sound("bundle", challenger[q])'
             \/ WentBadAt("rechecked", "bundle", challenger[q])'
      BY <1>1, <1>2, <3>1, <3>2 DEF Concerns, WentBadAt, runs, Judging
    <3>5. \/ Sound("replay", evidence[q])'
          \/ \E point \in {"judged", "rechecked"} :
                WentBadAt(point, "replay", evidence[q])'
      BY <1>1, <1>2, <3>1, <3>3 DEF Concerns, WentBadAt, runs, Judging
    <3> QED
      BY <3>4, <3>5 DEF RecheckedSound
  <2> QED
    BY <2>1, <2>2 DEF ChampionQualified, RecheckedSound
<1>7. ApprovedAgainstCurrent'
  BY PromotionConstants DEF IInv, TypeOK, store, runs, ApprovedAgainstCurrent,
     Approves, Judging, GoBad
<1>8. DecisionKept'
  BY PromotionConstants DEF IInv, TypeOK, store, runs, DecisionKept, Judging,
     BytesOf, Sound, GoBad
<1>9. ASSUME NEW q \in Processes
      PROVE  ReportKept(q)'
  <2>1. ReportKept(q) /\ UNCHANGED runs
    BY DEF GoBad, IInv
  <2> QED
    BY <1>1, <1>2, <2>1 DEF Concerns, WentBadAt, ReportKept, runs, Judging
<1> QED
  BY <1>3, <1>4, <1>5, <1>6, <1>7, <1>8, <1>9 DEF IInv

LEMMA Initially == Init => IInv
<1> SUFFICES ASSUME Init PROVE IInv
  OBVIOUS
<1>1. TypeOK
  BY PromotionConstants DEF Init, TypeOK, Points, Judging, Bytes
<1>2. \A p \in Processes : Judged(p) /\ Prepared(p) /\ ReportKept(p)
  BY DEF Init, Judged, Prepared, ReportKept, Judging
<1> QED
  BY <1>1, <1>2 DEF Init, IInv, ReplaysOfBundles, ChampionQualified,
     PointerQualified, RecheckedSound, ApprovedAgainstCurrent, DecisionKept

LEMMA StutterStep ==
  ASSUME IInv, UNCHANGED vars
  PROVE  IInv'
<1> USE DEF vars, store, runs
<1>1. TypeOK' /\ ReplaysOfBundles' /\ DecisionKept'
  BY DEF IInv, TypeOK, ReplaysOfBundles, DecisionKept
<1>2. \A q \in Processes : Judged(q)' /\ Prepared(q)' /\ ReportKept(q)'
  BY DEF IInv, Judged, Prepared, ReportKept, WentBadAt, Sound
<1>3. ChampionQualified'
  BY DEF IInv, ChampionQualified, PointerQualified, RecheckedSound, WentBadAt,
     Sound
<1>4. ApprovedAgainstCurrent'
  BY DEF IInv, ApprovedAgainstCurrent, Approves
<1> QED
  BY <1>1, <1>2, <1>3, <1>4 DEF IInv

(* Every step of a run and of the environment preserves the invariant. *)
LEMMA RunStep ==
  ASSUME IInv, NEW p \in Processes,
         \/ Prepare(p) \/ Promote(p) \/ Stop(p)
         \/ \E b, r \in Bundles : PromoteChosen(p, b, r)
  PROVE  IInv'
<1>1. CASE Prepare(p)
  <2>1. CASE \E b \in Bundles, m \in Metrics : Train(p, b, m)
    BY <2>1, TrainStep
  <2>2. CASE \E o \in {"passing", "failing"} : WriteReport(p, o)
    BY <2>2, WriteReportStep
  <2>3. CASE EndPreparation(p)
    BY <2>3, LeaveStep DEF EndPreparation
  <2> QED
    BY <1>1, <2>1, <2>2, <2>3 DEF Prepare
<1>2. CASE Refuse(p) \/ Stop(p)
  <2>1. /\ pc[p] # "idle" /\ Leave(p)
        /\ UNCHANGED <<store, champion, decision>>
        /\ stops' = stops \/ stops' = stops + 1
    BY <1>2 DEF Refuse, Stop
  <2>2. pc[p] \in {"approved", "rechecked"} => stops' # 0 \/ bad # {}
    BY <1>2 DEF Refuse, Stop, Unchanged, BytesOf, Sound, IInv, TypeOK,
       DecisionKept
  <2> QED
    BY <2>1, <2>2, LeaveStep
<1>3. CASE Promote(p)
  BY <1>2, <1>3, PromotePreparedStep, VerifyChallengerStep, JudgeReplayStep,
     HashReplayStep, ResolveIncumbentStep, ApproveStep, RejectStep,
     RecheckStep, PublishStep DEF Promote
<1>4. CASE \E b, r \in Bundles : PromoteChosen(p, b, r)
  BY <1>4, PromoteChosenStep
<1> QED
  BY <1>1, <1>2, <1>3, <1>4

(* The invariant is inductive, for any number of processes, bundles and      *)
(* scores, any margin and any faults.                                       *)
THEOREM Inductive == IInv /\ [Next]_vars => IInv'
<1> SUFFICES ASSUME IInv, [Next]_vars PROVE IInv'
  OBVIOUS
<1>1. CASE UNCHANGED vars
  BY <1>1, StutterStep
<1>2. CASE Next
  BY <1>2, RunStep, GoBadStep DEF Next
<1> QED
  BY <1>1, <1>2

(* It holds in every reachable state of promotion. *)
THEOREM Invariance == Spec => []IInv
<1>1. Init => IInv
  BY Initially
<1>2. IInv /\ [Next]_vars => IInv'
  BY Inductive
<1> QED
  BY <1>1, <1>2, PTL DEF Spec

(* Every variable keeps its type, and the lock is held exactly while a run   *)
(* judges.                                                                  *)
THEOREM TypeCorrect == Spec => []TypeOK
<1>1. IInv => TypeOK
  BY DEF IInv
<1> QED
  BY <1>1, Invariance, PTL

(* The champion always passed its gates and has the passing replay report of *)
(* its own manifest; its bytes are those that were judged unless the report  *)
(* changed between its two reads, or anything after the recheck              *)
(* (promotion._promote_unlocked).                                            *)
THEOREM ChampionsAreQualified == Spec => []ChampionQualified
<1>1. IInv => ChampionQualified
  BY DEF IInv
<1> QED
  BY <1>1, Invariance, PTL

(* An approval is never stale: the champion it was judged against is still   *)
(* the champion when the pointer is replaced (promotion.promote's lock).     *)
THEOREM ApprovalsAreCurrent == Spec => []ApprovedAgainstCurrent
<1>1. IInv => ApprovedAgainstCurrent
  BY DEF IInv
<1> QED
  BY <1>1, Invariance, PTL

(* Between promotions an approved decision is the champion, unless a run was *)
(* killed or a stored byte changed (promotion._promote_unlocked).            *)
THEOREM DecisionsTakeEffect == Spec => []DecisionTakesEffect
<1>1. IInv => DecisionTakesEffect
  BY PromotionConstants
     DEF IInv, TypeOK, Judging, DecisionKept, DecisionTakesEffect
<1> QED
  BY <1>1, Invariance, PTL

-----------------------------------------------------------------------------
(* Only Publish writes the champion pointer. *)
LEMMA OnlyPublishWrites ==
  ASSUME [Next]_vars, champion' # champion
  PROVE  \E p \in Processes : Publish(p)
<1>1. ASSUME NEW p \in Processes, Prepare(p) \/ Stop(p)
      PROVE  FALSE
  BY <1>1 DEF Prepare, Train, WriteReport, EndPreparation, Stop
<1>2. ASSUME NEW p \in Processes, Promote(p)
      PROVE  Publish(p)
  BY <1>2 DEF Promote, PromotePrepared, VerifyChallenger, JudgeReplay,
     HashReplay, ResolveIncumbent, Approve, Reject, Recheck, Refuse
<1> QED
  BY <1>1, <1>2 DEF Next, PromoteChosen, GoBad, vars

(* The champion's score only climbs, by the margin at least, whatever races, *)
(* kills and faults happen (promotion.decide_promotion and promote).         *)
THEOREM ChampionClimbs == Spec => ChampionImproves
<1> DEFINE Climb == champion # NoChampion /\ champion' # champion =>
          /\ champion' # NoChampion
          /\ metrics[champion'.bundle].score
                - metrics[champion.bundle].score >= Margin
<1>1. ASSUME IInv, [Next]_vars
      PROVE  Climb
  <2> SUFFICES ASSUME champion # NoChampion, champion' # champion
               PROVE  Climb
    OBVIOUS
  <2>1. PICK p \in Processes : Publish(p)
    BY <1>1, OnlyPublishWrites
  <2>2. champion' # NoChampion
    BY <1>1, <2>1, PublishStep, PromotionConstants
       DEF Publish, IInv, TypeOK, Pointers, Bytes, Judged, Judging
  <2>3. champion'.bundle = challenger[p]
    BY <2>1 DEF Publish
  <2>4. Approves(challenger[p], champion)
    BY <1>1, <2>1 DEF Publish, IInv, ApprovedAgainstCurrent
  <2> QED
    BY <2>2, <2>3, <2>4 DEF Approves
<1> QED
  BY <1>1, Invariance, PTL DEF Spec, ChampionImproves
=============================================================================
