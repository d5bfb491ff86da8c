------------------------------ MODULE Promotion ------------------------------
(***************************************************************************)
(* From a trained challenger to the champion pointer: bundles.export_bundle *)
(* writes an immutable bundle, replay.run_challenger_replay its replay      *)
(* report, and promotion.promote, under a fail-fast lock, judges both,      *)
(* records a decision and replaces the pointer. Runs race, are killed at    *)
(* any step, and stored bytes go bad between any two of them.               *)
(***************************************************************************)
EXTENDS Integers, FiniteSets

CONSTANTS
    Processes,    \* deep cycles and commands that prepare or promote
    Bundles,      \* bundle directories; a name is exported once
    Scores,       \* scores of metrics.json
    Margin,       \* gates.min_promotion_score_improvement
    Perishable,   \* kinds of artifact whose bytes may go bad
    NoProcess, NoBundle, NoMetrics, NoChampion,
    MaxStops,     \* bound: kills in one behaviour
    MaxFaults     \* bound: artifacts gone bad

Kinds   == {"bundle", "replay"}
Metrics == [score : Scores, passed : BOOLEAN]
Bytes   == {"intact", "bad"}

(* The pointer names a bundle, the replay report, and its hash. *)
Pointers == [bundle : Bundles, replay : Bundles, hash : Bytes]

ASSUME PromotionConstants ==
    /\ Scores \subseteq Int
    /\ Margin \in Nat
    /\ Perishable \subseteq Kinds
    /\ MaxStops \in Nat /\ MaxFaults \in Nat
    /\ NoProcess \notin Processes
    /\ NoBundle \notin Bundles
    /\ NoMetrics \notin Metrics
    /\ NoChampion \notin Pointers

VARIABLES
    metrics,     \* metrics.json of the exported bundles
    replayed,    \* replays/<bundle>.json: none, passing or failing
    bad,         \* artifacts whose bytes changed, as <<kind, bundle>>
    champion,    \* champion.json
    decision,    \* last_promotion_decision.json
    lock,        \* who holds .ares-promotion.lock
    pc, challenger, evidence, hash, incumbent,  \* runs: program point, locals
    stops,       \* auxiliary: kills so far
    changes      \* auxiliary: <<point, kind, bundle>>, where a run was that
                 \* promotes the bundle when the artifact went bad

store == <<metrics, replayed, bad, changes>>
runs  == <<pc, challenger, evidence, hash, incumbent>>
vars  == <<store, champion, decision, lock, runs, stops>>

(* The program points under the promotion lock, in order. *)
Judging == {"locked", "verified", "judged", "hashed", "resolved", "approved",
            "rechecked"}
Points  == {"idle", "trained", "ready"} \cup Judging

(* Every variable has its type, and the lock is held at the points under it. *)
TypeOK ==
    /\ metrics \in [Bundles -> Metrics \cup {NoMetrics}]
    /\ replayed \in [Bundles -> {"none", "passing", "failing"}]
    /\ bad \subseteq Kinds \X Bundles
    /\ changes \subseteq Points \X Kinds \X Bundles
    /\ champion \in Pointers \cup {NoChampion}
    /\ decision \in [bundle : Bundles \cup {NoBundle}, approved : BOOLEAN]
    /\ lock \in Processes \cup {NoProcess}
    /\ pc \in [Processes -> Points]
    /\ challenger \in [Processes -> Bundles \cup {NoBundle}]
    /\ evidence \in [Processes -> Bundles \cup {NoBundle}]
    /\ hash \in [Processes -> Bytes]
    /\ incumbent \in [Processes -> Pointers \cup {NoChampion}]
    /\ \A p \in Processes :
          /\ challenger[p] # NoBundle <=> pc[p] # "idle"
          /\ evidence[p] # NoBundle <=> pc[p] # "idle"
          /\ lock = p <=> pc[p] \in Judging
    /\ stops \in Nat

Init ==
    /\ metrics = [b \in Bundles |-> NoMetrics]
    /\ replayed = [b \in Bundles |-> "none"]
    /\ bad = {}
    /\ changes = {}
    /\ champion = NoChampion
    /\ decision = [bundle |-> NoBundle, approved |-> FALSE]
    /\ lock = NoProcess
    /\ pc = [p \in Processes |-> "idle"]
    /\ challenger = [p \in Processes |-> NoBundle]
    /\ evidence = [p \in Processes |-> NoBundle]
    /\ hash = [p \in Processes |-> "intact"]
    /\ incumbent = [p \in Processes |-> NoChampion]
    /\ stops = 0

-----------------------------------------------------------------------------
Goto(p, point) == pc' = [pc EXCEPT ![p] = point]

(* The run returns or raises; the lock is released if it was held. *)
Leave(p) ==
    /\ lock' = IF lock = p THEN NoProcess ELSE lock
    /\ Goto(p, "idle")
    /\ challenger' = [challenger EXCEPT ![p] = NoBundle]
    /\ evidence' = [evidence EXCEPT ![p] = NoBundle]
    /\ hash' = [hash EXCEPT ![p] = "intact"]
    /\ incumbent' = [incumbent EXCEPT ![p] = NoChampion]

Sound(kind, b) == <<kind, b>> \notin bad

(* training.train_candidate raises for a candidate that failed its gates;   *)
(* export_bundle makes the new directory appear complete, by one rename.    *)
Train(p, b, m) ==
    /\ pc[p] = "idle"
    /\ metrics[b] = NoMetrics
    /\ m.passed
    /\ metrics' = [metrics EXCEPT ![b] = m]
    /\ challenger' = [challenger EXCEPT ![p] = b]
    /\ evidence' = [evidence EXCEPT ![p] = b]
    /\ Goto(p, "trained")
    /\ UNCHANGED <<replayed, bad, changes, champion, decision, lock, hash,
                   incumbent, stops>>

(* run_challenger_replay: the report of a verified bundle is written, *)
WriteReport(p, outcome) ==
    /\ pc[p] = "trained"
    /\ Sound("bundle", challenger[p])
    /\ replayed' = [replayed EXCEPT ![challenger[p]] = outcome]
    /\ Goto(p, "ready")
    /\ UNCHANGED <<metrics, bad, changes, champion, decision, lock,
                   challenger, evidence, hash, incumbent, stops>>

(* then validated: a failing one raises and stays on disk. A command that   *)
(* only trains or prepares ends here, as does a replay that raises or a     *)
(* deep cycle that finds the promotion lock taken.                          *)
EndPreparation(p) ==
    /\ pc[p] \in {"trained", "ready"}
    /\ Leave(p)
    /\ UNCHANGED <<store, champion, decision, stops>>

-----------------------------------------------------------------------------
(* Mutation of Enter: the lock is not awaited. *)
EnterUnlocked(p) ==
    /\ lock' = p
    /\ Goto(p, "locked")

(* The deep cycle promotes what it prepared, *)
Enter(p) ==
    /\ lock = NoProcess
    /\ lock' = p
    /\ Goto(p, "locked")

PromotePrepared(p) ==
    /\ pc[p] = "ready"
    /\ replayed[challenger[p]] = "passing"
    /\ Enter(p)
    /\ UNCHANGED <<store, champion, decision, challenger, evidence, hash,
                   incumbent, stops>>

(* an operator any exported bundle with any report.                        *)
PromoteChosen(p, b, r) ==
    /\ pc[p] = "idle"
    /\ metrics[b] # NoMetrics
    /\ replayed[r] # "none"
    /\ Enter(p)
    /\ challenger' = [challenger EXCEPT ![p] = b]
    /\ evidence' = [evidence EXCEPT ![p] = r]
    /\ UNCHANGED <<store, champion, decision, hash, incumbent, stops>>

VerifyChallenger(p) ==
    /\ pc[p] = "locked"
    /\ Sound("bundle", challenger[p])
    /\ Goto(p, "verified")
    /\ UNCHANGED <<store, champion, decision, lock, challenger, evidence, hash,
                   incumbent, stops>>

(* validate_replay_report: passing, and bound to the challenger's manifest. *)
EvidenceAccepted(b, r) ==
    /\ r = b
    /\ replayed[r] = "passing"
    /\ Sound("replay", r) /\ Sound("bundle", b)

JudgeReplay(p) ==
    /\ pc[p] = "verified"
    /\ EvidenceAccepted(challenger[p], evidence[p])
    /\ Goto(p, "judged")
    /\ UNCHANGED <<store, champion, decision, lock, challenger, evidence, hash,
                   incumbent, stops>>

(* The bytes a hash is taken of now. *)
BytesOf(kind, b) == IF Sound(kind, b) THEN "intact" ELSE "bad"

(* The report is opened a second time, to hash it. *)
HashReplay(p) ==
    /\ pc[p] = "judged"
    /\ hash' = [hash EXCEPT ![p] = BytesOf("replay", evidence[p])]
    /\ Goto(p, "hashed")
    /\ UNCHANGED <<store, champion, decision, lock, challenger, evidence,
                   incumbent, stops>>

(* resolve_champion: no pointer, or one whose bundle and report still match *)
(* it; anything else raises.                                               *)
Resolvable ==
    champion # NoChampion =>
        /\ Sound("bundle", champion.bundle)
        /\ BytesOf("replay", champion.replay) = champion.hash

(* Mutation of ResolveIncumbent: a champion that fails is no champion. *)
ResolveLenient(p) ==
    /\ pc[p] = "hashed"
    /\ incumbent' = [incumbent EXCEPT
                        ![p] = IF Resolvable THEN champion ELSE NoChampion]
    /\ Goto(p, "resolved")
    /\ UNCHANGED <<store, champion, decision, lock, challenger, evidence, hash,
                   stops>>

ResolveIncumbent(p) ==
    /\ pc[p] = "hashed"
    /\ Resolvable
    /\ incumbent' = [incumbent EXCEPT ![p] = champion]
    /\ Goto(p, "resolved")
    /\ UNCHANGED <<store, champion, decision, lock, challenger, evidence, hash,
                   stops>>

-----------------------------------------------------------------------------
(* decide_promotion: the first champion needs its gates passed, a later one *)
(* beats the incumbent by the margin;                                      *)
Approves(b, c) ==
    /\ metrics[b].passed
    /\ c # NoChampion =>
          metrics[b].score - metrics[c.bundle].score >= Margin

(* it raises if what it reads no longer verifies.                          *)
Comparable(p) ==
    /\ Sound("bundle", challenger[p])
    /\ metrics[challenger[p]].passed /\ incumbent[p] # NoChampion =>
          /\ Sound("bundle", incumbent[p].bundle)
          /\ metrics[incumbent[p].bundle].passed

Approve(p) ==
    /\ pc[p] = "resolved"
    /\ Comparable(p)
    /\ Approves(challenger[p], incumbent[p])
    /\ decision' = [bundle |-> challenger[p], approved |-> TRUE]
    /\ Goto(p, "approved")
    /\ UNCHANGED <<store, champion, lock, challenger, evidence, hash, incumbent,
                   stops>>

(* The decision is saved, then PromotionRejected is raised. *)
Reject(p) ==
    /\ pc[p] = "resolved"
    /\ Comparable(p)
    /\ ~Approves(challenger[p], incumbent[p])
    /\ decision' = [bundle |-> challenger[p], approved |-> FALSE]
    /\ Leave(p)
    /\ UNCHANGED <<store, champion, stops>>

(* Between the decision and the pointer both artifacts are hashed again. *)
Unchanged(p) ==
    /\ Sound("bundle", challenger[p])
    /\ BytesOf("replay", evidence[p]) = hash[p]

(* Mutation of Recheck: the pointer is written without it. *)
RecheckNothing(p) ==
    /\ pc[p] = "approved"
    /\ Goto(p, "rechecked")
    /\ UNCHANGED <<store, champion, decision, lock, challenger, evidence, hash,
                   incumbent, stops>>

Recheck(p) ==
    /\ pc[p] = "approved"
    /\ Unchanged(p)
    /\ Goto(p, "rechecked")
    /\ UNCHANGED <<store, champion, decision, lock, challenger, evidence, hash,
                   incumbent, stops>>

(* Mutation of Publish: the lock is released without the pointer. *)
PublishNothing(p) ==
    /\ pc[p] = "rechecked"
    /\ Leave(p)
    /\ UNCHANGED <<store, champion, decision, stops>>

Publish(p) ==
    /\ pc[p] = "rechecked"
    /\ champion' = [bundle |-> challenger[p], replay |-> evidence[p],
                    hash |-> hash[p]]
    /\ Leave(p)
    /\ UNCHANGED <<store, decision, stops>>

(* A check raises; nothing was written since the last step. *)
Refuse(p) ==
    /\ \/ pc[p] = "locked" /\ ~Sound("bundle", challenger[p])
       \/ pc[p] = "verified" /\ ~EvidenceAccepted(challenger[p], evidence[p])
       \/ pc[p] = "hashed" /\ ~Resolvable
       \/ pc[p] = "resolved" /\ ~Comparable(p)
       \/ pc[p] = "approved" /\ ~Unchanged(p)
    /\ Leave(p)
    /\ UNCHANGED <<store, champion, decision, stops>>

(* Mutation of Stop: the lock file outlives its process. *)
StopKeepsLock(p) ==
    /\ pc[p] # "idle"
    /\ stops < MaxStops
    /\ stops' = stops + 1
    /\ Goto(p, "idle")
    /\ challenger' = [challenger EXCEPT ![p] = NoBundle]
    /\ evidence' = [evidence EXCEPT ![p] = NoBundle]
    /\ UNCHANGED <<store, champion, decision, lock, hash, incumbent>>

(* The process is killed, or a write fails; the system frees the file lock. *)
Stop(p) ==
    /\ pc[p] # "idle"
    /\ stops < MaxStops
    /\ stops' = stops + 1
    /\ Leave(p)
    /\ UNCHANGED <<store, champion, decision>>

(* The artifacts a run promotes or gives as evidence. *)
Concerns(p, kind, b) ==
    /\ pc[p] \in Judging
    /\ b = IF kind = "bundle" THEN challenger[p] ELSE evidence[p]

(* The bytes of a stored artifact change. *)
GoBad(kind, b) ==
    /\ kind \in Perishable
    /\ Cardinality(bad) < MaxFaults
    /\ Sound(kind, b)
    /\ kind = "bundle" => metrics[b] # NoMetrics
    /\ kind = "replay" => replayed[b] # "none"
    /\ bad' = bad \cup {<<kind, b>>}
    /\ changes' = changes \cup
          {<<pc[p], kind, b>> : p \in {q \in Processes : Concerns(q, kind, b)}}
    /\ UNCHANGED <<metrics, replayed, champion, decision, lock, runs, stops>>

-----------------------------------------------------------------------------
Prepare(p) ==
    \/ \E b \in Bundles, m \in Metrics : Train(p, b, m)
    \/ \E outcome \in {"passing", "failing"} : WriteReport(p, outcome)
    \/ EndPreparation(p)

Promote(p) ==
    \/ PromotePrepared(p)
    \/ VerifyChallenger(p) \/ JudgeReplay(p) \/ HashReplay(p)
    \/ ResolveIncumbent(p) \/ Approve(p) \/ Reject(p)
    \/ Recheck(p) \/ Publish(p) \/ Refuse(p)

Next ==
    \/ \E p \in Processes :
          \/ Prepare(p) \/ Promote(p) \/ Stop(p)
          \/ \E b, r \in Bundles : PromoteChosen(p, b, r)
    \/ \E kind \in Kinds, b \in Bundles : GoBad(kind, b)

Spec == Init /\ [][Next]_vars

(* A run under the lock goes on; nothing need ever be prepared or chosen. *)
FairSpec == Spec /\ \A p \in Processes : WF_vars(Promote(p))

-----------------------------------------------------------------------------
(* While a run promoted bundle b, this artifact went bad at this point. *)
WentBadAt(point, kind, b) == <<point, kind, b>> \in changes

(* The pointer names a qualified bundle with its own passing report, and a  *)
(* hash of other bytes than those judged only if the report changed between *)
(* its two reads (promotion.py 192-194).                                    *)
PointerQualified ==
    champion # NoChampion =>
        /\ metrics[champion.bundle] # NoMetrics
        /\ metrics[champion.bundle].passed
        /\ champion.replay = champion.bundle
        /\ replayed[champion.replay] = "passing"
        /\ champion.hash = "bad" =>
              WentBadAt("judged", "replay", champion.replay)

(* What the run that is about to write the pointer saw sound is sound, but  *)
(* for that report and what changed after the recheck (203-210).            *)
RecheckedSound(p) ==
    pc[p] = "rechecked" =>
        /\ Sound("bundle", challenger[p])
              \/ WentBadAt("rechecked", "bundle", challenger[p])
        /\ \/ Sound("replay", evidence[p])
           \/ \E point \in {"judged", "rechecked"} :
                 WentBadAt(point, "replay", evidence[p])

(* The champion passed its gates, and its replay report is its own and      *)
(* passed, whatever sequence of bundles and reports is chosen.  Its bytes   *)
(* are those that were judged, with two exceptions and no other: a report   *)
(* that changes between its two reads, whose new hash the pointer then      *)
(* names, and what changes after the recheck (promotion.py 187-223).        *)
ChampionQualified ==
    /\ PointerQualified
    /\ \A p \in Processes : RecheckedSound(p)

(* A champion is only ever replaced by one that beats it by the margin,     *)
(* although it was read long before the pointer is written, and although    *)
(* stored bytes go bad (promotion.promote, decide_promotion).               *)
ChampionImproves ==
    [][champion # NoChampion /\ champion' # champion =>
          /\ champion' # NoChampion
          /\ metrics[champion'.bundle].score
                - metrics[champion.bundle].score >= Margin]_champion

(* The saved decision and the pointer agree when no promotion runs, unless  *)
(* one was killed or refused between the two writes (promotion.py 197-224). *)
DecisionTakesEffect ==
    lock = NoProcess /\ stops = 0 /\ bad = {} /\ decision.approved =>
        champion # NoChampion /\ champion.bundle = decision.bundle

(* What was judged stays true until the pointer is written: the incumbent   *)
(* is still the champion, and the approval would be given again             *)
(* (the promotion lock of promotion.promote).                               *)
ApprovedAgainstCurrent ==
    \A p \in Processes :
        pc[p] \in {"resolved", "approved", "rechecked"} =>
            /\ incumbent[p] = champion
            /\ pc[p] # "resolved" =>
                  /\ Approves(challenger[p], champion)
                  /\ decision = [bundle |-> challenger[p], approved |-> TRUE]

(* The promotion lock is never held for good, by a kill or a refusal least  *)
(* of all: later promotions fail fast only while one runs                   *)
(* (promotion.promote, FileLock with timeout 0).                            *)
LockIsFreed == lock # NoProcess ~> lock = NoProcess

-----------------------------------------------------------------------------
(* What a run has established at each program point under the lock          *)
(* (promotion._promote_unlocked).                                           *)
Judged(p) ==
    pc[p] \in Judging =>
        /\ metrics[challenger[p]] # NoMetrics
        /\ pc[p] \notin {"locked", "verified"} =>
              evidence[p] = challenger[p] /\ replayed[evidence[p]] = "passing"

(* A run that prepares owns its bundle, which has no report yet             *)
(* (replay.prepare_replayed_challenger).                                    *)
Prepared(p) ==
    /\ pc[p] \in {"trained", "ready"} =>
          /\ metrics[challenger[p]] # NoMetrics
          /\ evidence[p] = challenger[p]
    /\ pc[p] = "trained" =>
          /\ replayed[challenger[p]] = "none"
          /\ \A q \in Processes :
                pc[q] = "trained" /\ challenger[q] = challenger[p] => q = p

(* What the checks and the hash established of the report's bytes            *)
(* (promotion.py 192-194).                                                   *)
ReportKept(p) ==
    /\ pc[p] = "judged" =>
          \/ Sound("replay", evidence[p])
          \/ WentBadAt("judged", "replay", evidence[p])
    /\ hash[p] = "bad" => WentBadAt("judged", "replay", evidence[p])

(* While nothing was killed or went bad, an approval is either being carried *)
(* out or is the champion (promotion._promote_unlocked).                     *)
DecisionKept ==
    stops = 0 /\ bad = {} =>
        /\ \A p \in Processes : hash[p] = "intact"
        /\ decision.approved /\ (\A p \in Processes :
                                    pc[p] \notin {"approved", "rechecked"}) =>
              champion # NoChampion /\ champion.bundle = decision.bundle

(* Only exported bundles are replayed (replay.run_challenger_replay).        *)
ReplaysOfBundles ==
    \A b \in Bundles : replayed[b] # "none" => metrics[b] # NoMetrics

(* What every step preserves: the lock, what a run has established at each   *)
(* program point, and the properties above (promotion.py, replay.py).        *)
IInv ==
    /\ TypeOK
    /\ \A p \in Processes : Judged(p) /\ Prepared(p) /\ ReportKept(p)
    /\ ReplaysOfBundles
    /\ ChampionQualified
    /\ ApprovedAgainstCurrent
    /\ DecisionKept
=============================================================================
