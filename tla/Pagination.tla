----------------------------- MODULE Pagination -----------------------------
(***************************************************************************)
(* CCXTOHLCVProvider.fetch_range (data/providers.py): one call that pages  *)
(* through an exchange's candles from Since up to Until, with retries, a   *)
(* cursor that must advance, a page limit, and the telemetry that the      *)
(* public audit later accounts for (public_audit.py, _validate_trace).     *)
(*                                                                         *)
(* The exchange may answer anything: short, overlapping, out-of-range,     *)
(* repeated or unsorted rows, nothing, or an error.  A row is the page it  *)
(* came with, its time, and a copy number that tells apart rows a page     *)
(* repeats; prices do not matter here.                                     *)
(***************************************************************************)
EXTENDS Integers, FiniteSets, Sequences

CONSTANTS Times,     \* timestamps rows can carry
          Since,     \* start of the requested range
          Until,     \* its end, or the exchange's clock when none is given
          Step,      \* the timeframe
          MaxPages,  \* max_pages
          Retries,   \* retries of one page
          MaxRows    \* bound on the rows of a page

ASSUME TimesAssumption == Times \subseteq Int /\ IsFiniteSet(Times)
ASSUME RangeAssumption == Since \in Int /\ Until \in Int
ASSUME BoundAssumption ==
    /\ Step \in Nat \ {0} /\ MaxPages \in Nat \ {0}
    /\ Retries \in Nat /\ MaxRows \in Nat

VARIABLES
    market,   \* times of the candles the exchange really has
    pc,       \* "paging", "normalizing", "returned" or "raised"
    cursor,   \* cursor_ms
    page,     \* pages answered in the loop so far
    attempt,  \* failed attempts at the current page
    rows,     \* usable rows collected so far
    frame,    \* the frame the call returns
    count,    \* FetchTelemetry: its counters
    cursors,  \* FetchTelemetry: cursor_progression_ms
    honest    \* history: every answer so far showed the market as it is

vars == <<market, pc, cursor, page, attempt, rows, frame, count, cursors, honest>>

Row == [page : 0 .. MaxPages - 1, time : Times, copy : 1 .. 2]

(* Candles of one market are at least a timeframe apart. *)
Market == {m \in SUBSET Times : \A s, t \in m : s < t => s + Step <= t}

TimesOf(S) == {r.time : r \in S}

Counters == {"fetch_ohlcv_call_count", "page_count", "raw_rows_received",
             "normalized_rows", "duplicate_rows_removed",
             "overlapping_rows_removed", "out_of_range_rows_removed", "retry_count"}

----------------------------------------------------------------------------
Init ==
    /\ market \in Market
    /\ pc = IF Since >= Until THEN "normalizing" ELSE "paging"
    /\ cursor = Since
    /\ page = 0
    /\ attempt = 0
    /\ rows = {}
    /\ frame = {}
    /\ count = [c \in Counters |-> 0]
    /\ cursors = <<>>
    /\ honest = TRUE

(* The telemetry every attempt records before it calls the exchange. *)
Log == cursors' = Append(cursors, cursor)

Called == [count EXCEPT !["fetch_ohlcv_call_count"] = @ + 1,
                        !["retry_count"] = IF attempt > 0 THEN @ + 1 ELSE @]

(* A call fails and is tried again after a pause. *)
Fail ==
    /\ pc = "paging"
    /\ attempt < Retries
    /\ attempt' = attempt + 1
    /\ Log
    /\ count' = Called
    /\ UNCHANGED <<market, pc, cursor, page, rows, frame, honest>>

(* The last attempt fails. *)
GiveUp ==
    /\ pc = "paging"
    /\ attempt = Retries
    /\ pc' = "raised"
    /\ Log
    /\ count' = Called
    /\ UNCHANGED <<market, cursor, page, attempt, rows, frame, honest>>

(* An empty answer ends the loop. *)
EmptyPage ==
    /\ pc = "paging"
    /\ pc' = "normalizing"
    /\ page' = page + 1
    /\ attempt' = 0
    /\ Log
    /\ count' = [Called EXCEPT !["page_count"] = @ + 1]
    /\ honest' = (honest /\ \A t \in market : t < cursor \/ t >= Until)
    /\ UNCHANGED <<market, cursor, rows, frame>>

(* What an exchange can answer: rows with the times T, some repeated. *)
Batch(T, D) == [page : {page}, time : T, copy : {1}]
                   \cup [page : {page}, time : D, copy : {2}]

Batches == {Batch(p[1], p[2]) : p \in
               {q \in (SUBSET Times) \X (SUBSET Times) :
                   /\ q[1] # {} /\ q[2] \subseteq q[1]
                   /\ Cardinality(q[1]) + Cardinality(q[2]) <= MaxRows}}

(* ordered[-1][0]: the time of the last row of the sorted page. *)
Latest(b) == {t \in TimesOf(b) : \A s \in TimesOf(b) : s <= t}

(* Mutation of Usable: rows before the cursor are kept. *)
UsableOverlapping(b) == {r \in b : r.time < Until}

Usable(b) == {r \in b : cursor <= r.time /\ r.time < Until}

(* Mutation of NextCursor: one timeframe too far. *)
NextCursorSkipping(latest) == latest + 2 * Step

(* latest_ms + step_ms *)
NextCursor(latest) == latest + Step

(* The rows of an honest answer: candles of the market, none left out up to *)
(* the latest.                                                              *)
Shown(b) ==
    /\ TimesOf(b) \subseteq market
    /\ \A t \in market, s \in TimesOf(b) : cursor <= t /\ t <= s => t \in TimesOf(b)

(* Mutation of Received: a row at the very end of the range is not counted. *)
ReceivedPastEnd(b) ==
    [Called EXCEPT
        !["page_count"] = @ + 1,
        !["raw_rows_received"] = @ + Cardinality(b),
        !["overlapping_rows_removed"] =
            @ + Cardinality({r \in b : r.time < cursor}),
        !["out_of_range_rows_removed"] =
            @ + Cardinality({r \in b : r.time > Until})]

(* The telemetry of an answer with rows. *)
Received(b) ==
    [Called EXCEPT
        !["page_count"] = @ + 1,
        !["raw_rows_received"] = @ + Cardinality(b),
        !["overlapping_rows_removed"] =
            @ + Cardinality({r \in b : r.time < cursor}),
        !["out_of_range_rows_removed"] =
            @ + Cardinality({r \in b : r.time >= Until})]

(* The part of the loop body that every answer with rows goes through. *)
Receive(b) ==
    /\ pc = "paging"
    /\ rows' = rows \cup Usable(b)
    /\ Log
    /\ count' = Received(b)
    /\ page' = page + 1
    /\ attempt' = 0
    /\ honest' = (honest /\ Shown(b))
    /\ UNCHANGED <<market, frame>>

(* The cursor did not move: the call raises. *)
StalledPage(b, latest) ==
    /\ NextCursor(latest) <= cursor
    /\ pc' = "raised"
    /\ UNCHANGED cursor
    /\ Receive(b)

(* The answer advanced the cursor: the loop goes on, leaves at the end of   *)
(* the range, or raises after max_pages pages.                              *)
FullPage(b, latest) ==
    /\ NextCursor(latest) > cursor
    /\ cursor' = NextCursor(latest)
    /\ pc' = IF cursor' >= Until THEN "normalizing"
             ELSE IF page + 1 = MaxPages THEN "raised" ELSE "paging"
    /\ Receive(b)

(* Frames that keep one row per timestamp.  Which of several repetitions    *)
(* survives depends on the sort, which is not stable.                       *)
Deduplicated ==
    {S \in SUBSET rows :
        /\ TimesOf(S) = TimesOf(rows)
        /\ \A r, s \in S : r.time = s.time => r = s}

Normalize ==
    /\ pc = "normalizing"
    /\ pc' = "returned"
    /\ frame' \in Deduplicated
    /\ count' = [count EXCEPT
                    !["duplicate_rows_removed"] =
                        Cardinality(rows) - Cardinality(TimesOf(rows)),
                    !["normalized_rows"] = Cardinality(frame')]
    /\ UNCHANGED <<market, cursor, page, attempt, rows, cursors, honest>>

Done == pc \in {"returned", "raised"} /\ UNCHANGED vars

Next ==
    \/ Fail \/ GiveUp \/ EmptyPage \/ Normalize \/ Done
    \/ \E b \in Batches : \E latest \in Latest(b) :
          StalledPage(b, latest) \/ FullPage(b, latest)

Spec == Init /\ [][Next]_vars
----------------------------------------------------------------------------
(* Every variable keeps its type. *)
TypeOK ==
    /\ market \in Market
    /\ pc \in {"paging", "normalizing", "returned", "raised"}
    /\ cursor \in Int
    /\ page \in 0 .. MaxPages
    /\ attempt \in 0 .. Retries
    /\ rows \subseteq Row
    /\ frame \subseteq rows
    /\ count \in [Counters -> Nat]
    /\ cursors \in Seq(Int)
    /\ honest \in BOOLEAN

(* Whatever the exchange sends, and however its pages overlap, no two pages  *)
(* contribute the same candle and none outside the range is kept: the merged *)
(* history cannot be overwritten by a later page of the same call.           *)
CandlesOnce ==
    \A r, s \in rows :
        /\ Since <= r.time /\ r.time < Until
        /\ r.time = s.time => r.page = s.page

(* If the answers showed the market as it is, however short, overlapping or  *)
(* repetitive its pages were, a call that returns has every candle of the    *)
(* range, once.                                                              *)
NothingSkipped ==
    pc = "returned" /\ honest =>
        /\ TimesOf(frame) = {t \in market : Since <= t /\ t < Until}
        /\ \A r, s \in frame : r.time = s.time => r = s

(* What _validate_trace demands of the telemetry of a call. *)
Accounted ==
    /\ Len(cursors) = count["fetch_ohlcv_call_count"]
    /\ \A i, j \in DOMAIN cursors : i <= j => cursors[i] <= cursors[j]
    /\ count["fetch_ohlcv_call_count"] = count["page_count"] + count["retry_count"]
    /\ count["normalized_rows"] =
          count["raw_rows_received"] - count["duplicate_rows_removed"]
              - count["overlapping_rows_removed"] - count["out_of_range_rows_removed"]

(* The last attempt was answered, if there was one.                          *)
Answered ==
    count["fetch_ohlcv_call_count"] = count["page_count"] + count["retry_count"]

(* The telemetry of a call that returned adds up as the audit demands:       *)
(* after any mix of retries and filters every call is a page or a retry,     *)
(* every row is kept or counted as removed, and cursors never go back.  That *)
(* of a call that raised adds up exactly if its last attempt was answered    *)
(* and no row was kept before: a cursor that stalls on the first page does,  *)
(* the page limit does not (providers.py 223-258).                           *)
EvidenceAddsUp ==
    /\ pc = "returned" => Accounted
    /\ pc = "raised" => (Accounted <=> Answered /\ rows = {})

----------------------------------------------------------------------------
(* The inductive invariant. *)

(* What was collected lies behind the cursor, page by page. *)
RowsBehind ==
    /\ IsFiniteSet(rows)
    /\ \A r \in rows : /\ Since <= r.time /\ r.time < cursor /\ r.time < Until
                      /\ r.page < page
    /\ Since <= cursor
    /\ pc = "paging" => cursor < Until /\ page < MaxPages

(* Every call is a page, a retry, or the first attempt at the current page. *)
CallsCounted ==
    /\ Len(cursors) = count["fetch_ohlcv_call_count"]
    /\ \A i, j \in DOMAIN cursors : i <= j => cursors[i] <= cursors[j]
    /\ \A i \in DOMAIN cursors : cursors[i] <= cursor
    /\ pc # "raised" =>
          count["fetch_ohlcv_call_count"] =
              count["page_count"] + count["retry_count"] + IF attempt = 0 THEN 0 ELSE 1
    /\ pc \in {"normalizing", "returned"} => attempt = 0

(* Every row received was kept or counted as removed. *)
RowsCounted ==
    /\ count["raw_rows_received"] = Cardinality(rows) + count["overlapping_rows_removed"]
                                   + count["out_of_range_rows_removed"]
    /\ IF pc = "returned"
       THEN /\ count["normalized_rows"] = Cardinality(TimesOf(rows))
            /\ count["duplicate_rows_removed"] = Cardinality(rows) - Cardinality(TimesOf(rows))
            /\ frame \in Deduplicated
       ELSE /\ count["normalized_rows"] = 0
            /\ count["duplicate_rows_removed"] = 0

(* Honest answers leave no candle out between Since and the cursor. *)
MarketCovered ==
    honest =>
        /\ TimesOf(rows) \subseteq market
        /\ \A t \in market :
              Since <= t /\ t < Until /\ (t < cursor \/ pc \in {"normalizing", "returned"})
                  => t \in TimesOf(rows)

IInv == TypeOK /\ CandlesOnce /\ RowsBehind /\ CallsCounted /\ RowsCounted /\ MarketCovered
=============================================================================
