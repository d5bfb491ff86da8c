---------------------------- MODULE MarketHistory ----------------------------
(***************************************************************************)
(* What the canonical history of each venue holds as ingestions follow one *)
(* another in time (data/ingest.py): where a job resumes, which candles it *)
(* takes for closed, what it merges, and what the quality gates of         *)
(* data/quality.py let pass.  Jobs and publications are atomic here as far *)
(* as GenerationStore shows them to be, and a fetch is what Pagination     *)
(* shows it to return; data.until is not set, as in the running service.   *)
(*                                                                         *)
(* Candles are numbered on the grid of the timeframe.  Candle now is in    *)
(* progress, every earlier one is closed, and instants lie inside candles. *)
(* A candle fetched while in progress has values that are not final.       *)
(***************************************************************************)
EXTENDS Integers, FiniteSets

CONSTANTS
    Venues,       \* the primary exchange and the validation exchanges
    Primary,      \* primary_exchange
    Depth,        \* newest candles a venue serves, the one in progress included
    DropOpen,     \* drop_open_candle
    Since,        \* data.since: the first candle wanted
    MaxGap,       \* max_gap_count
    MaxStale,     \* max_staleness_bars
    MinOverlap,   \* min_cross_venue_overlap
    MaxNow,       \* bound: how long time runs
    MaxFaults     \* bound: closed candles left out of answers, and jobs that
                  \* end without a verdict

ASSUME VenuesAssumption == Primary \in Venues /\ Depth \in [Venues -> Nat]
ASSUME GatesAssumption ==
    /\ Since \in Nat /\ MaxGap \in Nat /\ MaxStale \in Nat \ {0}
    /\ MinOverlap \in Nat \ {0} /\ DropOpen \in BOOLEAN
ASSUME BoundsAssumption == MaxNow \in Nat /\ MaxFaults \in Nat

VARIABLES
    resume,             \* data.resume
    now,                \* the candle in progress
    candles,            \* candles in the canonical history of each venue
    partial,            \* those of them with values that are not final
    pc,                 \* program point of the job that holds the lock
    generated_at,       \* when it started
    venue,              \* the venue it is at
    received,           \* incoming: the answer
    unfinished,         \* candles in it that were in progress
    judged,             \* venues it has merged and validated
    merged, merged_partial,  \* frames: the merged histories of these
    passed,             \* all their reports passed
    crossed,            \* auxiliary: candles that closed between the answer
                        \* with them and its filtering
    faults              \* auxiliary: for the bound

history == <<candles, partial>>
answer == <<received, unfinished>>
frames == <<judged, merged, merged_partial, passed>>
counters == <<crossed, faults>>
job == <<pc, generated_at, venue, answer, frames>>
vars == <<resume, now, history, job, counters>>

Points == {"idle", "next", "answered", "judging"}

----------------------------------------------------------------------------
(* The gates. *)

(* Slots between the first and the last candle of F that F does not have. *)
Gaps(F) == (UNION {a + 1 .. b - 1 : a \in F, b \in F}) \ F

Latest(F) == {c \in F : \A d \in F : d <= c}

(* Not empty, no more gaps than forgiven, and for the primary the start. *)
Whole(v, F) ==
    /\ F # {}
    /\ Cardinality(Gaps(F)) <= MaxGap
    /\ v = Primary => \E c \in F : c <= Since

(* Staleness is measured at the start of the job. *)
Fresh(F) == \E c \in F : c + 1 + MaxStale > generated_at

(* validate_cross_venue, without the comparison of prices. *)
Agrees(F, G) == Cardinality(F \cap G) >= MinOverlap /\ Latest(F) = Latest(G)

----------------------------------------------------------------------------
(* The exchange is outside: it serves its newest candles, but may leave out *)
(* the one in progress, or lose some.                                       *)
Served(v) == {c \in 0 .. now : c + Depth[v] > now}

(* Mutation of Wanted: the last stored candle is asked for again. *)
WantedOverlapping(v) ==
    {c \in 0 .. now : c >= Since /\ (resume => \A d \in candles[v] : c >= d)}

(* Mutation of Wanted: a step too far. *)
WantedSkipping(v) == {c \in 0 .. now : c >= Since /\ (resume => \A d \in candles[v] : c > d + 1)}

(* _resume_since: from the candle after the last stored one on. *)
Wanted(v) == {c \in 0 .. now : c >= Since /\ (resume => \A d \in candles[v] : c > d)}

(* Mutation of Closed: judged by the candle in progress, not by its start. *)
ClosedLate == IF DropOpen THEN {c \in received : c <= now} ELSE received

(* _closed_candles_only, by the clock after the fetch. *)
Closed == IF DropOpen THEN {c \in received : c < now} ELSE received

----------------------------------------------------------------------------
Init ==
    /\ resume \in BOOLEAN
    /\ now = Since
    /\ candles = [v \in Venues |-> {}]
    /\ partial = [v \in Venues |-> {}]
    /\ pc = "idle"
    /\ generated_at = 0
    /\ venue = Primary
    /\ received = {}
    /\ unfinished = {}
    /\ judged = {}
    /\ merged = [v \in Venues |-> {}]
    /\ merged_partial = [v \in Venues |-> {}]
    /\ passed = TRUE
    /\ crossed = {}
    /\ faults = 0

(* The job returns, raises or dies: nothing of it stays but CURRENT. *)
Leave ==
    /\ pc' = "idle"
    /\ generated_at' = 0
    /\ venue' = Primary
    /\ received' = {}
    /\ unfinished' = {}
    /\ judged' = {}
    /\ merged' = [v \in Venues |-> {}]
    /\ merged_partial' = [v \in Venues |-> {}]
    /\ passed' = TRUE

Start ==
    /\ pc = "idle"
    /\ generated_at' = now
    /\ pc' = "next"
    /\ UNCHANGED <<resume, now, history, venue, answer, frames, counters>>

(* The primary comes first.  The request ends where the clock was when it   *)
(* was made: one of the ways to leave out the candle in progress.           *)
Answer(v) ==
    /\ pc = "next"
    /\ v \notin judged
    /\ v # Primary => Primary \in judged
    /\ venue' = v
    /\ \E left_out \in SUBSET (Wanted(v) \cap Served(v)) :
        /\ faults + Cardinality(left_out \ {now}) <= MaxFaults
        /\ faults' = faults + Cardinality(left_out \ {now})
        /\ received' = (Wanted(v) \cap Served(v)) \ left_out
    /\ unfinished' = received' \cap {now}
    /\ pc' = "answered"
    /\ UNCHANGED <<resume, now, history, generated_at, frames, crossed>>

(* Filter, merge and validate.  The sort of merge_market is not stable, so  *)
(* of a candle in both frames either one survives.                          *)
Keep ==
    /\ pc = "answered"
    /\ \E stored \in SUBSET (candles[venue] \cap Closed) :
        merged_partial' = [merged_partial EXCEPT ![venue] =
            (partial[venue] \cap (stored \cup (candles[venue] \ Closed)))
            \cup ((unfinished \cap Closed) \ stored)]
    /\ merged' = [merged EXCEPT ![venue] = candles[venue] \cup Closed]
    /\ passed' = (passed /\ Whole(venue, candles[venue] \cup Closed)
                         /\ Fresh(candles[venue] \cup Closed))
    /\ judged' = judged \cup {venue}
    /\ pc' = IF judged' = Venues THEN "judging" ELSE "next"
    /\ venue' = Primary
    /\ received' = {}
    /\ unfinished' = {}
    /\ UNCHANGED <<resume, now, history, generated_at, counters>>

AllPass == passed /\ \A v \in Venues \ {Primary} : Agrees(merged[Primary], merged[v])

Publish ==
    /\ pc = "judging"
    /\ AllPass
    /\ candles' = merged
    /\ partial' = merged_partial
    /\ Leave
    /\ UNCHANGED <<resume, now, counters>>

(* A rejected report, or DataQualityError. *)
Reject ==
    /\ pc = "judging"
    /\ ~AllPass
    /\ Leave
    /\ UNCHANGED <<resume, now, history, counters>>

(* Values, not times, that fail a gate: columns, metadata, prices, volumes, *)
(* closes of two venues too far apart.                                      *)
RefuseValues ==
    /\ pc = "judging"
    /\ faults < MaxFaults
    /\ faults' = faults + 1
    /\ Leave
    /\ UNCHANGED <<resume, now, history, crossed>>

(* A fetch that raises, an error, a kill. *)
Abandon ==
    /\ pc # "idle"
    /\ faults < MaxFaults
    /\ faults' = faults + 1
    /\ Leave
    /\ UNCHANGED <<resume, now, history, crossed>>

Tick ==
    /\ now < MaxNow
    /\ now' = now + 1
    /\ crossed' = IF pc = "answered" THEN crossed \cup (unfinished \cap {now}) ELSE crossed
    /\ UNCHANGED <<resume, history, job, faults>>

Work == Start \/ (\E v \in Venues : Answer(v)) \/ Keep \/ Publish \/ Reject

Next == Work \/ RefuseValues \/ Abandon \/ Tick

Spec == Init /\ [][Next]_vars

(* The scheduler starts jobs again and again, and a started job is run. *)
Fairness == WF_vars(Work)

FairSpec == Spec /\ Fairness

----------------------------------------------------------------------------
TypeOK ==
    /\ resume \in BOOLEAN
    /\ now \in Nat
    /\ candles \in [Venues -> SUBSET Nat] /\ partial \in [Venues -> SUBSET Nat]
    /\ pc \in Points
    /\ generated_at \in Nat /\ venue \in Venues
    /\ received \in SUBSET Nat /\ unfinished \in SUBSET Nat
    /\ judged \in SUBSET Venues
    /\ merged \in [Venues -> SUBSET Nat] /\ merged_partial \in [Venues -> SUBSET Nat]
    /\ passed \in BOOLEAN
    /\ crossed \in SUBSET Nat /\ faults \in Nat

(* A publication never takes a candle out of a history, and a resumed one   *)
(* never revises one either, whatever clocks, venues and failed jobs do     *)
(* (ingest.py:84-89, storage.py:106-123): what was committed to by the hash *)
(* of research bars stays what it was.                                      *)
HistoryOnlyGrows ==
    [][\A v \in Venues :
        /\ candles[v] \subseteq candles'[v]
        /\ resume => partial'[v] \cap candles[v] = partial[v]]_history

(* With drop_open_candle, the one way for values that are not final into a  *)
(* history is a candle that closes between the answer that holds it and the *)
(* reading of the clock that filters it (ingest.py:135-145).                *)
PartialOnlyAtBoundary == DropOpen => \A v \in Venues : partial[v] \subseteq crossed

(* The test of tests/test_ccxt_wire_ingestion.py:282-284: the in-progress   *)
(* candle served by the venue must never reach canonical storage            *)
(* (ingest.py:144-145).                                                     *)
OpenCandleKeptOut == DropOpen => \A v \in Venues : partial[v] = {}

(* Every venue's history reaches the last closed candle. *)
Current == \A v \in Venues : \E c \in candles[v] : c + 1 >= now

(* There are enough closed candles to compare venues by. *)
Enough == now >= Since + MinOverlap

(* A history lacks more closed candles than are forgiven that its venue     *)
(* serves no more.                                                          *)
OutOfReach ==
    \E v \in Venues :
        Cardinality({c \in 0 .. now - 1 : /\ c \notin candles[v] \cup Served(v)
                                         /\ \E d \in candles[v] : d < c}) > MaxGap

(* As long as no venue's answers have fallen out of reach of its history,   *)
(* ingestion catches up after failures, lost candles and jobs caught at a   *)
(* candle's boundary (ingest.py:107-251).                                   *)
StuckOnlyOutOfReach ==
    DropOpen => []<>Current \/ <>[](OutOfReach \/ ~Enough)

(* ingest.py:159-163: a venue's capped history does not make ingestion      *)
(* permanently impossible.                                                  *)
IngestionCatchesUp == DropOpen => []<>(Current \/ ~Enough)

----------------------------------------------------------------------------
(* The inductive invariant. *)

(* Histories hold wanted candles that began, with DropOpen ones that ended. *)
Past(F) == \A c \in F : Since <= c /\ IF DropOpen THEN c < now ELSE c <= now

Stored ==
    \A v \in Venues :
        /\ Past(candles[v])
        /\ partial[v] \subseteq candles[v]
        /\ DropOpen => partial[v] \subseteq crossed

(* An answer holds what was wanted; what was in progress still is, or has   *)
(* been seen to close.                                                      *)
InFlight ==
    /\ pc # "answered" => received = {} /\ unfinished = {}
    /\ pc = "answered" => venue \notin judged
    /\ unfinished \subseteq received
    /\ \A c \in received :
        /\ c >= Since /\ c <= now
        /\ resume => c \notin candles[venue]
    /\ \A c \in unfinished : c < now => c \in crossed

(* Merged histories extend the stored ones, and passed says what they passed. *)
Extending ==
    /\ pc = "idle" => judged = {}
    /\ pc = "judging" => judged = Venues
    /\ \A v \in judged :
        /\ candles[v] \subseteq merged[v]
        /\ Past(merged[v])
        /\ merged_partial[v] \subseteq merged[v]
        /\ resume => merged_partial[v] \cap candles[v] = partial[v]
        /\ DropOpen => merged_partial[v] \subseteq crossed
    /\ passed <=> \A v \in judged : Whole(v, merged[v]) /\ Fresh(merged[v])

(* Every generation passed its gates whole: all venues are there, with the  *)
(* gaps that are forgiven, and end at the same candle.                      *)
Usable ==
    \/ \A v \in Venues : candles[v] = {}
    \/ /\ \A v \in Venues : Whole(v, candles[v])
       /\ \A v \in Venues \ {Primary} : Agrees(candles[Primary], candles[v])

IInv == TypeOK /\ Stored /\ InFlight /\ Extending /\ Usable
=============================================================================
