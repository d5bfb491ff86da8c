------------------------- MODULE MarketHistoryProofs -------------------------
(***************************************************************************)
(* Proofs about MarketHistory: its inductive invariant, and from it that   *)
(* histories only grow, what the filter of open candles achieves, and that *)
(* nothing but a venue out of reach keeps an undisturbed job from passing. *)
(***************************************************************************)
EXTENDS MarketHistory, FiniteSetTheorems, TLAPS

LEMMA InitHolds == Init => IInv
<1> SUFFICES ASSUME Init PROVE IInv
  OBVIOUS
<1> USE VenuesAssumption, GatesAssumption DEF Init
<1>1. TypeOK
  BY DEF TypeOK, Points
<1>2. Stored /\ InFlight
  BY DEF Stored, InFlight, Past
<1>3. Extending /\ Usable
  BY DEF Extending, Usable
<1> QED
  BY <1>1, <1>2, <1>3 DEF IInv

(* A job that ends without publishing leaves the invariant as it was. *)
LEMMA LeaveStep ==
  ASSUME IInv, Leave, UNCHANGED <<resume, now, history, crossed>>, faults' \in Nat
  PROVE  IInv'
<1>1. /\ candles' = candles /\ partial' = partial /\ now' = now /\ resume' = resume
      /\ crossed' = crossed
  BY DEF history
<1>2. TypeOK'
  BY <1>1, VenuesAssumption DEF IInv, TypeOK, Leave, Points
<1>3. Stored'
  BY <1>1 DEF IInv, Stored, Past
<1>4. InFlight' /\ Extending'
  BY DEF Leave, InFlight, Extending
<1>5. Usable'
  BY <1>1 DEF IInv, Usable
<1> QED
  BY <1>2, <1>3, <1>4, <1>5 DEF IInv

LEMMA StartStep ==
  ASSUME IInv, Start
  PROVE  IInv'
<1>1. /\ UNCHANGED <<resume, now, candles, partial, venue, received, unfinished, judged>>
      /\ UNCHANGED <<merged, merged_partial, passed, crossed, faults>>
      /\ pc = "idle" /\ pc' = "next" /\ generated_at' = now
  BY DEF Start, history, answer, frames, counters
<1>2. TypeOK'
  BY <1>1 DEF IInv, TypeOK, Points
<1>3. Stored' /\ InFlight'
  BY <1>1 DEF IInv, Stored, InFlight, Past
<1>4. Extending'
  BY <1>1 DEF IInv, Extending, Past, Fresh
<1>5. Usable'
  BY <1>1 DEF IInv, Usable
<1> QED
  BY <1>2, <1>3, <1>4, <1>5 DEF IInv

LEMMA AnswerStep ==
  ASSUME IInv, NEW v \in Venues, Answer(v)
  PROVE  IInv'
<1>1. /\ UNCHANGED <<resume, now, candles, partial, generated_at, judged>>
      /\ UNCHANGED <<merged, merged_partial, passed, crossed>>
      /\ pc = "next" /\ pc' = "answered" /\ v \notin judged /\ venue' = v
  BY DEF Answer, history, frames
<1>2. PICK left_out \in SUBSET (Wanted(v) \cap Served(v)) :
        /\ faults' = faults + Cardinality(left_out \ {now})
        /\ faults + Cardinality(left_out \ {now}) <= MaxFaults
        /\ received' = (Wanted(v) \cap Served(v)) \ left_out
  BY DEF Answer
<1>3. unfinished' = received' \cap {now}
  BY DEF Answer
<1>4. now \in Nat /\ Since \in Nat
  BY GatesAssumption DEF IInv, TypeOK
<1>5. faults' \in Nat
  <2>1. IsFiniteSet(left_out \ {now})
    <3>1. IsFiniteSet(0 .. now)
      BY <1>4, FS_Interval
    <3>2. left_out \ {now} \subseteq 0 .. now
      BY DEF Wanted
    <3> QED
      BY <3>1, <3>2, FS_Subset
  <2>2. Cardinality(left_out \ {now}) \in Nat
    BY <2>1, FS_CardinalityType
  <2> QED
    BY <1>2, <2>2 DEF IInv, TypeOK
<1>6. received' \subseteq Wanted(v) /\ unfinished' \subseteq received'
  BY <1>2, <1>3
<1>7. \A c \in Wanted(v) : /\ c \in Nat /\ c >= Since /\ c <= now
                           /\ resume => c \notin candles[v]
  BY <1>4 DEF Wanted, IInv, TypeOK
<1>8. TypeOK'
  BY <1>1, <1>5, <1>6, <1>7 DEF IInv, TypeOK, Points
<1>9. InFlight'
  BY <1>1, <1>3, <1>4, <1>6, <1>7 DEF InFlight
<1>10. Stored'
  BY <1>1 DEF IInv, Stored, Past
<1>11. Extending'
  BY <1>1 DEF IInv, Extending, Past, Fresh
<1>12. Usable'
  BY <1>1 DEF IInv, Usable
<1> QED
  BY <1>8, <1>9, <1>10, <1>11, <1>12 DEF IInv

LEMMA KeepStep ==
  ASSUME IInv, Keep
  PROVE  IInv'
<1>1. /\ UNCHANGED <<resume, now, candles, partial, generated_at, crossed, faults>>
      /\ pc = "answered" /\ venue' = Primary /\ received' = {} /\ unfinished' = {}
      /\ judged' = judged \cup {venue}
      /\ pc' = IF judged' = Venues THEN "judging" ELSE "next"
      /\ merged' = [merged EXCEPT ![venue] = candles[venue] \cup Closed]
      /\ passed' = (passed /\ Whole(venue, candles[venue] \cup Closed)
                           /\ Fresh(candles[venue] \cup Closed))
  BY DEF Keep, history, counters
<1>2. PICK stored \in SUBSET (candles[venue] \cap Closed) :
        merged_partial' = [merged_partial EXCEPT ![venue] =
            (partial[venue] \cap (stored \cup (candles[venue] \ Closed)))
            \cup ((unfinished \cap Closed) \ stored)]
  BY DEF Keep
<1> DEFINE fresh == (partial[venue] \cap (stored \cup (candles[venue] \ Closed)))
                    \cup ((unfinished \cap Closed) \ stored)
<1>3. /\ TypeOK /\ venue \in Venues /\ venue \notin judged /\ now \in Nat
      /\ Closed \subseteq received /\ received \subseteq Nat /\ unfinished \subseteq received
      /\ candles[venue] \subseteq Nat /\ partial[venue] \subseteq candles[venue]
  BY <1>1 DEF IInv, TypeOK, InFlight, Stored, Closed
<1>4. /\ Past(candles[venue] \cup Closed)
      /\ fresh \subseteq candles[venue] \cup Closed
      /\ resume => fresh \cap candles[venue] = partial[venue]
      /\ DropOpen => fresh \subseteq crossed
  <2>1. Past(candles[venue] \cup Closed)
    BY <1>3 DEF IInv, Stored, InFlight, Past, Closed
  <2>2. fresh \subseteq candles[venue] \cup Closed
    BY <1>3
  <2>3. resume => fresh \cap candles[venue] = partial[venue]
    <3>1. resume => Closed \cap candles[venue] = {}
      BY <1>3 DEF IInv, InFlight
    <3> QED
      BY <1>3, <3>1
  <2>4. DropOpen => fresh \subseteq crossed
    <3>1. DropOpen => unfinished \cap Closed \subseteq crossed
      BY DEF IInv, InFlight, Closed
    <3>2. DropOpen => partial[venue] \subseteq crossed
      BY <1>3 DEF IInv, Stored
    <3> QED
      BY <3>1, <3>2
  <2> QED
    BY <2>1, <2>2, <2>3, <2>4
<1>5. /\ merged'[venue] = candles[venue] \cup Closed
      /\ merged_partial'[venue] = fresh
      /\ \A v \in judged : merged'[v] = merged[v] /\ merged_partial'[v] = merged_partial[v]
  BY <1>1, <1>2, <1>3 DEF TypeOK
<1>6. passed' \in BOOLEAN /\ (passed' <=> /\ passed /\ Whole(venue, merged'[venue])
                                        /\ Fresh(merged'[venue]))
  <2>1. passed' \in BOOLEAN
    BY <1>1
  <2>2. passed' <=> /\ passed /\ Whole(venue, candles[venue] \cup Closed)
                    /\ Fresh(candles[venue] \cup Closed)
    BY <1>1
  <2> QED
    BY <2>1, <2>2, <1>5
<1>7. TypeOK'
  <2>1. merged' \in [Venues -> SUBSET Nat] /\ merged_partial' \in [Venues -> SUBSET Nat]
    BY <1>1, <1>2, <1>3, <1>4 DEF TypeOK
  <2>2. judged' \in SUBSET Venues /\ pc' \in Points
    BY <1>1, <1>3 DEF TypeOK, Points
  <2> QED
    BY <1>1, <1>3, <1>6, <2>1, <2>2, VenuesAssumption DEF TypeOK
<1>8. Stored' /\ InFlight'
  BY <1>1 DEF IInv, Stored, InFlight, Past
<1>9. Extending'
  <2>1. ASSUME NEW v \in judged'
        PROVE  /\ candles[v] \subseteq merged'[v]
               /\ Past(merged'[v])
               /\ merged_partial'[v] \subseteq merged'[v]
               /\ resume => merged_partial'[v] \cap candles[v] = partial[v]
               /\ DropOpen => merged_partial'[v] \subseteq crossed
               /\ passed' => Whole(v, merged'[v])
    <3>1. CASE v = venue
      BY <1>4, <1>5, <1>6, <3>1
    <3>2. CASE v \in judged
      BY <1>5, <1>6, <3>2 DEF IInv, Extending
    <3> QED
      BY <1>1, <2>1, <3>1, <3>2
  <2>2. pc' # "idle" /\ (pc' = "judging" => judged' = Venues)
    BY <1>1
  <2>3. passed' <=> \A v \in judged' : Whole(v, merged'[v]) /\ Fresh(merged[v])'
    <3>1. passed <=> \A v \in judged : Whole(v, merged[v]) /\ Fresh(merged[v])
      BY DEF IInv, Extending
    <3>2. \A v \in judged' : v \in judged \/ v = venue
      BY <1>1
    <3>3. judged \subseteq judged' /\ venue \in judged'
      BY <1>1
    <3>4. \A v \in judged : merged'[v] = merged[v]
      BY <1>5
    <3>5. passed' <=> \A v \in judged' : Whole(v, merged'[v]) /\ Fresh(merged'[v])
      BY <1>6, <3>1, <3>2, <3>3, <3>4
    <3>6. \A v : Fresh(merged[v])' <=> Fresh(merged'[v])
      BY <1>1 DEF Fresh
    <3> QED
      BY <3>5, <3>6
  <2> QED
    BY <1>1, <2>1, <2>2, <2>3 DEF Extending, Past
<1>10. Usable'
  BY <1>1 DEF IInv, Usable
<1> QED
  BY <1>7, <1>8, <1>9, <1>10 DEF IInv

LEMMA PublishStep ==
  ASSUME IInv, Publish
  PROVE  IInv'
<1>1. /\ UNCHANGED <<resume, now, crossed, faults>>
      /\ pc = "judging" /\ candles' = merged /\ partial' = merged_partial
      /\ Leave /\ AllPass
  BY DEF Publish, counters
<1>2. judged = Venues
  BY <1>1 DEF IInv, Extending
<1>3. TypeOK'
  BY <1>1, VenuesAssumption DEF IInv, TypeOK, Leave, Points
<1>4. Stored'
  BY <1>1, <1>2 DEF IInv, Extending, Stored, Past
<1>5. InFlight' /\ Extending'
  BY <1>1 DEF Leave, InFlight, Extending
<1>6. Usable'
  <2>1. \A v \in Venues : Whole(v, merged[v])
    BY <1>1, <1>2 DEF AllPass, IInv, Extending
  <2>2. \A v \in Venues \ {Primary} : Agrees(merged[Primary], merged[v])
    BY <1>1 DEF AllPass
  <2> QED
    BY <1>1, <2>1, <2>2 DEF Usable
<1> QED
  BY <1>3, <1>4, <1>5, <1>6 DEF IInv

LEMMA TickStep ==
  ASSUME IInv, Tick
  PROVE  IInv'
<1>1. /\ UNCHANGED <<resume, candles, partial, pc, generated_at, venue, received, unfinished>>
      /\ UNCHANGED <<judged, merged, merged_partial, passed, faults>>
      /\ now' = now + 1
      /\ crossed' = IF pc = "answered" THEN crossed \cup (unfinished \cap {now}) ELSE crossed
  BY DEF Tick, history, job, answer, frames
<1>2. now \in Nat /\ crossed \subseteq crossed' /\ TypeOK
  BY <1>1 DEF IInv, TypeOK
<1>3. TypeOK'
  BY <1>1, <1>2 DEF TypeOK
<1>4. ASSUME NEW F \in SUBSET Nat, Past(F)
      PROVE  Past(F)'
  BY <1>1, <1>2, <1>4 DEF Past
<1>5. Stored'
  <2>1. ASSUME NEW v \in Venues
        PROVE  /\ Past(candles[v])'
               /\ partial[v] \subseteq candles[v]
               /\ DropOpen => partial[v] \subseteq crossed'
    BY <1>1, <1>2 DEF IInv, Stored, TypeOK, Past
  <2> QED
    BY <1>1, <2>1 DEF Stored, Past
<1>6. InFlight'
  <2>1. \A c \in received : c \in Nat /\ c >= Since /\ c <= now + 1
                            /\ (resume => c \notin candles[venue])
    BY <1>2 DEF IInv, InFlight, TypeOK
  <2>2. ASSUME NEW c \in unfinished, c < now + 1
        PROVE  c \in crossed'
    <3>1. pc = "answered" /\ c \in Nat
      BY DEF IInv, InFlight, TypeOK
    <3>2. CASE c < now
      BY <1>2, <3>2 DEF IInv, InFlight
    <3>3. CASE ~(c < now)
      <4>1. c = now
        BY <1>2, <2>2, <3>1, <3>3
      <4> QED
        BY <1>1, <3>1, <4>1
    <3> QED
      BY <3>2, <3>3
  <2> QED
    BY <1>1, <2>1, <2>2 DEF IInv, InFlight
<1>7. Extending'
  <2>1. ASSUME NEW v \in judged
        PROVE  Past(merged[v])' /\ (DropOpen => merged_partial[v] \subseteq crossed')
    BY <1>1, <1>2 DEF IInv, Extending, TypeOK, Past
  <2> QED
    BY <1>1, <2>1 DEF IInv, Extending, Past, Fresh
<1>8. Usable'
  BY <1>1 DEF IInv, Usable
<1> QED
  BY <1>3, <1>5, <1>6, <1>7, <1>8 DEF IInv

LEMMA NextHolds == IInv /\ [Next]_vars => IInv'
<1> SUFFICES ASSUME IInv, [Next]_vars PROVE IInv'
  OBVIOUS
<1>1. CASE Start
  BY <1>1, StartStep
<1>2. CASE \E v \in Venues : Answer(v)
  BY <1>2, AnswerStep
<1>3. CASE Keep
  BY <1>3, KeepStep
<1>4. CASE Publish
  BY <1>4, PublishStep
<1>5. CASE Reject
  BY <1>5, LeaveStep DEF Reject, counters, IInv, TypeOK
<1>6. CASE Abandon
  BY <1>6, LeaveStep DEF Abandon, IInv, TypeOK
<1>7. CASE Tick
  BY <1>7, TickStep
<1>8. CASE RefuseValues
  BY <1>8, LeaveStep DEF RefuseValues, IInv, TypeOK
<1>9. CASE UNCHANGED vars
  BY <1>9 DEF vars, history, job, answer, frames, counters, IInv, TypeOK, Stored, InFlight,
     Extending, Usable, Past, Fresh
<1> QED
  BY <1>1, <1>2, <1>3, <1>4, <1>5, <1>6, <1>7, <1>8, <1>9 DEF Next, Work

----------------------------------------------------------------------------
(* The inductive invariant holds, for any venues, depths and gates. *)
THEOREM Invariance == Spec => []IInv
<1>1. Init => IInv
  BY InitHolds
<1>2. IInv /\ [Next]_vars => IInv'
  BY NextHolds
<1> QED
  BY <1>1, <1>2, PTL DEF Spec

(* Every generation ingestion publishes passed its gates whole.               *)
THEOREM GenerationsAreUsable == Spec => []Usable
<1>1. IInv => Usable
  BY DEF IInv
<1> QED
  BY <1>1, Invariance, PTL

(* A candle that was in progress when it was fetched is only stored if it     *)
(* closed before the clock was read to filter it.                             *)
THEOREM PartialsCrossed == Spec => []PartialOnlyAtBoundary
<1>1. IInv => PartialOnlyAtBoundary
  BY DEF IInv, Stored, PartialOnlyAtBoundary
<1> QED
  BY <1>1, Invariance, PTL

(* Publications never take a candle out of a history, nor revise one when     *)
(* they resume.                                                               *)
THEOREM HistoriesGrow == Spec => HistoryOnlyGrows
<1> DEFINE Grows == \A v \in Venues :
                       /\ candles[v] \subseteq candles'[v]
                       /\ resume => partial'[v] \cap candles[v] = partial[v]
<1>1. IInv /\ [Next]_vars => [Grows]_history
  <2> SUFFICES ASSUME IInv, [Next]_vars PROVE [Grows]_history
    OBVIOUS
  <2>1. CASE Publish
    <3>1. candles' = merged /\ partial' = merged_partial /\ judged = Venues
      BY <2>1 DEF Publish, IInv, Extending
    <3> QED
      BY <3>1 DEF IInv, Extending
  <2>2. CASE ~Publish
    <3>1. UNCHANGED history
      BY <2>2 DEF Next, Work, Start, Answer, Keep, Reject, RefuseValues, Abandon, Tick, vars
    <3> QED
      BY <3>1
  <2> QED
    BY <2>1, <2>2
<1> QED
  BY <1>1, Invariance, PTL DEF Spec, HistoryOnlyGrows

(* A job during which no candle closed and which got every closed candle it *)
(* asked for, from venues that serve enough to compare and to start with.   *)
Undisturbed ==
    /\ generated_at = now
    /\ \A v \in Venues :
          merged[v] = candles[v] \cup {c \in Wanted(v) \cap Served(v) : c < now}
ServesEnough ==
    /\ \A v \in Venues : Depth[v] > MinOverlap
    /\ candles[Primary] = {} => Since \in Served(Primary)

(* It passes the gates on times, unless a venue is out of reach: why nothing *)
(* else stops ingestion from catching up (ingest.py:107-251).                *)
OnlyReachMatters ==
    DropOpen /\ pc = "judging" /\ Undisturbed /\ ServesEnough /\ Enough /\ ~OutOfReach => AllPass

LEMMA GapsBetween ==
  ASSUME NEW F, NEW g
  PROVE  g \in Gaps(F) <=> g \notin F /\ \E a, b \in F : g \in a + 1 .. b - 1
<1> DEFINE S == {a + 1 .. b - 1 : a \in F, b \in F}
<1>1. ASSUME NEW X PROVE X \in S <=> \E a, b \in F : X = a + 1 .. b - 1
  OBVIOUS
<1>3. Gaps(F) = (UNION S) \ F
  BY DEF Gaps
<1> HIDE DEF S
<1>2. g \in UNION S <=> \E X \in S : g \in X
  OBVIOUS
<1> QED
  BY <1>1, <1>2, <1>3

LEMMA NaturalsBelow ==
  ASSUME NEW n \in Nat, NEW F, \A c \in F : c \in Nat /\ c <= n
  PROVE  IsFiniteSet(F)
<1>1. F \in SUBSET (0 .. n)
  OBVIOUS
<1>2. IsFiniteSet(0 .. n)
  BY FS_Interval
<1> QED
  BY <1>1, <1>2, FS_Subset

(* What the frame of a venue holds after such a job. *)
LEMMA UndisturbedFrame ==
  ASSUME NEW v \in Venues, IInv, DropOpen, Undisturbed, ServesEnough, Enough
  PROVE  /\ candles[v] \subseteq merged[v] /\ merged[v] \subseteq Nat
         /\ \A c \in merged[v] : Since <= c /\ c < now
         /\ \A c \in Nat \ candles[v] :
               c \in merged[v] <=> /\ Since <= c /\ c < now /\ c + Depth[v] > now
                                   /\ resume => \A d \in candles[v] : c > d
         /\ now - 1 \in merged[v]
<1> DEFINE C == candles[v]
           F == merged[v]
<1>1. /\ now \in Nat /\ Since \in Nat /\ MinOverlap \in Nat \ {0} /\ Depth[v] \in Nat
      /\ C \subseteq Nat
  BY VenuesAssumption, GatesAssumption DEF IInv, TypeOK
<1>2. \A c \in C : Since <= c /\ c < now
  BY DEF IInv, Stored, Past
<1>3. F = C \cup {c \in Wanted(v) \cap Served(v) : c < now}
  BY DEF Undisturbed
<1>4. \A c \in Nat : c \in F <=> \/ c \in C
                                 \/ /\ Since <= c /\ c < now /\ c + Depth[v] > now
                                    /\ resume => \A d \in C : c > d
  BY <1>1, <1>3 DEF Wanted, Served
<1>5. C \subseteq F /\ F \subseteq Nat
  BY <1>1, <1>3 DEF Wanted
<1>6. \A c \in F : Since <= c /\ c < now
  BY <1>2, <1>3 DEF Wanted
<1>7. now - 1 \in F
  <2>1. now >= Since + MinOverlap /\ Depth[v] > MinOverlap
    BY DEF Enough, ServesEnough
  <2>2. now - 1 \in Nat /\ Since <= now - 1 /\ now - 1 < now /\ now - 1 + Depth[v] > now
    BY <1>1, <2>1
  <2>3. now - 1 \in C \/ \A d \in C : now - 1 > d
    BY <1>1, <1>2
  <2> HIDE DEF C, F
  <2> QED
    BY <1>4, <2>2, <2>3
<1> QED
  BY <1>4, <1>5, <1>6, <1>7

(* A gap of such a frame lies behind a stored candle, and before one or     *)
(* where the venue serves nothing any more.                                 *)
LEMMA UndisturbedGap ==
  ASSUME NEW v \in Venues, IInv, DropOpen, Undisturbed, ServesEnough, Enough,
         NEW g \in Gaps(merged[v])
  PROVE  /\ g \in Nat /\ g < now /\ g \notin candles[v]
         /\ \E d \in candles[v] : d < g
         /\ g + Depth[v] <= now \/ \E d \in candles[v] : g < d
<1> DEFINE C == candles[v]
           F == merged[v]
<1>1. /\ C \subseteq F /\ F \subseteq Nat
      /\ \A c \in F : Since <= c /\ c < now
      /\ \A c \in Nat \ C :
               c \in F <=> /\ Since <= c /\ c < now /\ c + Depth[v] > now
                           /\ resume => \A d \in C : c > d
  BY UndisturbedFrame
<1>2. now \in Nat /\ Since \in Nat /\ Depth[v] \in Nat
  BY VenuesAssumption, GatesAssumption DEF IInv, TypeOK
<1>3. PICK a \in F, b \in F : g \in a + 1 .. b - 1
  BY GapsBetween
<1>4. g \notin F
  BY GapsBetween
<1> HIDE DEF C, F
<1>5. g \in Nat /\ Since <= g /\ g < now /\ a < g /\ a \in Nat /\ g \notin C
  BY <1>1, <1>2, <1>3, <1>4
<1>6. g + Depth[v] <= now \/ (resume /\ \E d \in C : g < d)
  <2>1. ~(g + Depth[v] > now) \/ (resume /\ ~\A d \in C : g > d)
    BY <1>1, <1>4, <1>5
  <2>2. ASSUME NEW d \in C, ~(g > d) PROVE g < d
    BY <1>1, <1>5, <2>2
  <2> QED
    BY <1>2, <1>5, <2>1, <2>2
<1>7. \E d \in C : d < g
  <2>1. CASE a \in C
    BY <1>5, <2>1
  <2>2. CASE a \notin C
    <3>1. a + Depth[v] > now /\ (resume => \A d \in C : a > d)
      BY <1>1, <1>5, <2>2, <1>3
    <3>2. g + Depth[v] > now
      BY <1>2, <1>5, <3>1
    <3>3. PICK d \in C : g < d
      BY <1>2, <1>5, <1>6, <3>2
    <3>4. resume
      BY <1>2, <1>5, <1>6, <3>2
    <3>5. a > d /\ d \in Nat
      BY <3>1, <3>3, <3>4, <1>1
    <3> QED
      BY <1>5, <3>3, <3>5
  <2> QED
    BY <2>1, <2>2
<1> QED
  BY <1>5, <1>6, <1>7 DEF C

LEMMA UndisturbedIsWhole ==
  ASSUME NEW v \in Venues, IInv, DropOpen, Undisturbed, ServesEnough, Enough, ~OutOfReach
  PROVE  Whole(v, merged[v]) /\ Fresh(merged[v])
<1> DEFINE C == candles[v]
           F == merged[v]
           M == {c \in 0 .. now - 1 : /\ c \notin C \cup Served(v)
                                      /\ \E d \in C : d < c}
<1>1. /\ now \in Nat /\ Since \in Nat /\ Depth[v] \in Nat /\ MaxGap \in Nat
      /\ MaxStale \in Nat \ {0} /\ C \subseteq Nat
  BY VenuesAssumption, GatesAssumption DEF IInv, TypeOK
<1>2. /\ C \subseteq F /\ F \subseteq Nat /\ now - 1 \in F
      /\ \A c \in F : Since <= c /\ c < now
      /\ \A c \in Nat \ C :
               c \in F <=> /\ Since <= c /\ c < now /\ c + Depth[v] > now
                           /\ resume => \A d \in C : c > d
  BY UndisturbedFrame
<1>3. \A g \in Gaps(F) : /\ g \in Nat /\ g < now /\ g \notin C
                         /\ \E d \in C : d < g
                         /\ g + Depth[v] <= now \/ \E d \in C : g < d
  BY UndisturbedGap
<1>4. C # {} => Whole(v, C)
  BY DEF IInv, Usable
<1>5. IsFiniteSet(M) /\ Cardinality(M) <= MaxGap
  <2>1. IsFiniteSet(0 .. now - 1)
    BY <1>1, FS_Interval
  <2>2. IsFiniteSet(M)
    BY <2>1, FS_Subset
  <2>3. ~(Cardinality(M) > MaxGap)
    BY DEF OutOfReach
  <2> QED
    BY <1>1, <2>2, <2>3, FS_CardinalityType
<1>6. C # {} => IsFiniteSet(Gaps(C)) /\ Cardinality(Gaps(C)) <= MaxGap
  <2>1. \A c \in C : c \in Nat /\ c < now
    BY <1>1, <1>2
  <2>2. \A g \in Gaps(C) : g \in Nat /\ g <= now
    <3>1. ASSUME NEW g \in Gaps(C) PROVE g \in Nat /\ g <= now
      <4>1. PICK a \in C, b \in C : g \in a + 1 .. b - 1
        BY GapsBetween
      <4> QED
        BY <1>1, <2>1, <4>1
    <3> QED
      BY <3>1
  <2>3. IsFiniteSet(Gaps(C))
    BY <1>1, <2>2, NaturalsBelow
  <2> QED
    BY <1>4, <2>3 DEF Whole
<1>7. Cardinality(Gaps(F)) <= MaxGap
  <2>1. CASE \E g \in Gaps(F) : \A d \in C : ~(g < d)
    <3>1. PICK g \in Gaps(F) : \A d \in C : ~(g < d)
      BY <2>1
    <3>2. g \in Nat /\ g + Depth[v] <= now
      BY <1>3, <3>1
    <3>3. ASSUME NEW e \in Gaps(F) PROVE e \in M
      <4>1. e \in Nat /\ e < now /\ e \notin C /\ \E d \in C : d < e
        BY <1>3
      <4>2. e + Depth[v] <= now
        <5>1. CASE e <= g
          BY <1>1, <3>2, <4>1, <5>1
        <5>2. CASE ~(e <= g)
          <6>1. \A d \in C : ~(e < d)
            BY <1>1, <3>1, <3>2, <4>1, <5>2
          <6> QED
            BY <6>1, <1>3
        <5> QED
          BY <5>1, <5>2
      <4>3. e \notin Served(v) /\ e \in 0 .. now - 1
        BY <1>1, <4>1, <4>2 DEF Served
      <4> QED
        BY <4>1, <4>3
    <3>4. Gaps(F) \subseteq M
      BY <3>3
    <3> HIDE DEF M, F
    <3>5. Cardinality(Gaps(F)) <= Cardinality(M) /\ IsFiniteSet(Gaps(F))
      BY <1>5, <3>4, FS_Subset
    <3>6. Cardinality(Gaps(F)) \in Nat /\ Cardinality(M) \in Nat
      BY <1>5, <3>5, FS_CardinalityType
    <3> QED
      BY <1>1, <1>5, <3>5, <3>6
  <2>2. CASE \A g \in Gaps(F) : \E d \in C : g < d
    <3>1. ASSUME NEW g \in Gaps(F) PROVE g \in Gaps(C)
      <4>1. PICK b \in C : g < b
        BY <2>2
      <4>2. PICK a \in C : a < g
        BY <1>3
      <4>3. g \in a + 1 .. b - 1
        BY <1>1, <1>3, <4>1, <4>2
      <4> QED
        BY <1>3, <4>3, GapsBetween
    <3>2. Gaps(F) \subseteq Gaps(C)
      BY <3>1
    <3>3. CASE C = {}
      <4>1. Gaps(F) = {}
        BY <1>3, <3>3
      <4> QED
        BY <1>1, <4>1, FS_EmptySet
    <3>4. CASE C # {}
      <4> HIDE DEF C, F
      <4>1. Cardinality(Gaps(F)) <= Cardinality(Gaps(C)) /\ IsFiniteSet(Gaps(F))
        BY <1>6, <3>2, <3>4, FS_Subset
      <4>2. Cardinality(Gaps(F)) \in Nat /\ Cardinality(Gaps(C)) \in Nat
        BY <1>6, <3>4, <4>1, FS_CardinalityType
      <4> QED
        BY <1>1, <1>6, <3>4, <4>1, <4>2
    <3> QED
      BY <3>3, <3>4
  <2> QED
    BY <2>1, <2>2
<1>8. ASSUME v = Primary PROVE \E c \in F : c <= Since
  <2>1. CASE C # {}
    BY <1>2, <1>4, <1>8, <2>1 DEF Whole
  <2>2. CASE C = {}
    <3>1. Since \in Served(v)
      BY <1>8, <2>2 DEF ServesEnough
    <3>2. Since + Depth[v] > now /\ Since < now
      BY <1>1, <1>2, <3>1 DEF Served
    <3>3. Since \in F
      BY <1>1, <1>2, <2>2, <3>2
    <3> QED
      BY <1>1, <3>3
  <2> QED
    BY <2>1, <2>2
<1>9. Fresh(F)
  <2>1. generated_at = now
    BY DEF Undisturbed
  <2>2. (now - 1) + 1 + MaxStale > generated_at
    BY <1>1, <2>1
  <2> QED
    BY <1>2, <2>2 DEF Fresh
<1> QED
  BY <1>2, <1>7, <1>8, <1>9 DEF Whole

(* Frames of such a job agree: they end together and overlap enough. *)
LEMMA UndisturbedAgree ==
  ASSUME NEW v \in Venues, IInv, DropOpen, Undisturbed, ServesEnough, Enough,
         v # Primary
  PROVE  Agrees(merged[Primary], merged[v])
<1> DEFINE F == merged[Primary]
           G == merged[v]
<1>0. Primary \in Venues
  BY VenuesAssumption
<1>1. now \in Nat /\ Since \in Nat /\ MinOverlap \in Nat \ {0}
  BY GatesAssumption DEF IInv, TypeOK
<1>2. ASSUME NEW w \in Venues PROVE Latest(merged[w]) = {now - 1}
  <2>1. merged[w] \subseteq Nat /\ now - 1 \in merged[w] /\ \A c \in merged[w] : c < now
    BY UndisturbedFrame
  <2>2. \A c \in merged[w] : c <= now - 1
    BY <1>1, <2>1
  <2> QED
    BY <1>1, <2>1, <2>2 DEF Latest
<1>3. IsFiniteSet(F \cap G)
  <2>1. F \subseteq Nat /\ \A c \in F : c < now
    BY <1>0, UndisturbedFrame
  <2>2. \A c \in F \cap G : c \in Nat /\ c <= now
    BY <1>1, <2>1
  <2> QED
    BY <1>1, <2>2, NaturalsBelow
<1>4. PICK I \in SUBSET (F \cap G) : Cardinality(I) >= MinOverlap
  <2>1. CASE \A w \in Venues : candles[w] = {}
    <3> DEFINE I == now - MinOverlap .. now - 1
    <3>1. now >= Since + MinOverlap /\ \A w \in Venues : Depth[w] \in Nat /\ Depth[w] > MinOverlap
      BY VenuesAssumption DEF Enough, ServesEnough
    <3>2. ASSUME NEW w \in Venues, NEW c \in I PROVE c \in merged[w]
      <4>1. c \in Nat /\ Since <= c /\ c < now /\ c + Depth[w] > now
        BY <1>1, <3>1
      <4>2. c \notin candles[w] /\ \A d \in candles[w] : c > d
        BY <2>1
      <4> QED
        BY <4>1, <4>2, UndisturbedFrame
    <3>3. Cardinality(I) = MinOverlap
      BY <1>1, <3>1, FS_Interval
    <3> QED
      BY <1>0, <1>1, <3>2, <3>3
  <2>2. CASE ~\A w \in Venues : candles[w] = {}
    <3>1. Cardinality(candles[Primary] \cap candles[v]) >= MinOverlap
      BY <2>2 DEF IInv, Usable, Agrees
    <3>2. candles[Primary] \subseteq F /\ candles[v] \subseteq G
      BY <1>0, UndisturbedFrame
    <3> QED
      BY <3>1, <3>2
  <2> QED
    BY <2>1, <2>2
<1> HIDE DEF F, G
<1>5. Cardinality(F \cap G) >= MinOverlap
  <2>1. IsFiniteSet(I) /\ Cardinality(I) <= Cardinality(F \cap G)
    BY <1>3, <1>4, FS_Subset
  <2>2. Cardinality(I) \in Nat /\ Cardinality(F \cap G) \in Nat
    BY <1>3, <2>1, FS_CardinalityType
  <2> QED
    BY <1>1, <1>4, <2>1, <2>2
<1> QED
  BY <1>0, <1>2, <1>5 DEF Agrees, F, G

(* The gates reject a job only for what happened during it, for what the     *)
(* venues left out, or for a venue out of reach.                             *)
THEOREM ReachDecides == Spec => []OnlyReachMatters
<1>1. ASSUME IInv, DropOpen, pc = "judging", Undisturbed, ServesEnough, Enough, ~OutOfReach
      PROVE  AllPass
  <2>1. judged = Venues
    BY <1>1 DEF IInv, Extending
  <2>2. \A v \in Venues : Whole(v, merged[v]) /\ Fresh(merged[v])
    BY <1>1, UndisturbedIsWhole
  <2>3. passed
    BY <1>1, <2>1, <2>2 DEF IInv, Extending
  <2>4. \A v \in Venues \ {Primary} : Agrees(merged[Primary], merged[v])
    BY <1>1, UndisturbedAgree
  <2> QED
    BY <2>3, <2>4 DEF AllPass
<1>2. IInv => OnlyReachMatters
  BY <1>1 DEF OnlyReachMatters
<1> QED
  BY <1>2, Invariance, PTL
=============================================================================
