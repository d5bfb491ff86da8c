-------------------------- MODULE PaginationProofs --------------------------
(***************************************************************************)
(* Proofs about Pagination: its inductive invariant, and from it that no    *)
(* candle is kept twice, none is skipped, and the telemetry adds up.        *)
(***************************************************************************)
EXTENDS Pagination, FiniteSetTheorems, TLAPS

(* A page has as many rows as it has times and repetitions: what one part   *)
(* of it contributes is finite.                                            *)
LEMMA SliceFinite ==
  ASSUME NEW p, NEW c, NEW T, IsFiniteSet(T)
  PROVE  IsFiniteSet([page : {p}, time : T, copy : {c}])
<1> DEFINE S == [page : {p}, time : T, copy : {c}]
           f == [t \in T |-> [page |-> p, time |-> t, copy |-> c]]
<1>1. f \in [T -> S]
  OBVIOUS
<1>2. \A s, t \in T : s # t => f[s] # f[t]
  <2>1. ASSUME NEW s \in T, NEW t \in T, f[s] = f[t]
        PROVE  s = t
    <3>1. f[s].time = f[t].time
      BY <2>1
    <3> QED
      BY <3>1
  <2> QED
    BY <2>1
<1>3. \A r \in S : \E t \in T : f[t] = r
  <2>1. ASSUME NEW r \in S
        PROVE  f[r.time] = r /\ r.time \in T
    OBVIOUS
  <2> QED
    BY <2>1
<1>4. f \in Bijection(T, S)
  BY <1>1, <1>2, <1>3 DEF Bijection, Injection, Surjection, IsInjective
<1> QED
  BY <1>4, FS_Bijection DEF ExistsBijection

(* The rows of a page are rows of that page with known times, finitely many. *)
LEMMA BatchType ==
  ASSUME NEW b \in Batches
  PROVE  /\ IsFiniteSet(b)
         /\ b # {}
         /\ b \subseteq [page : {page}, time : Times, copy : 1 .. 2]
<1>1. PICK T \in SUBSET Times, D \in SUBSET Times : T # {} /\ D \subseteq T /\ b = Batch(T, D)
  BY DEF Batches
<1>2. IsFiniteSet(T) /\ IsFiniteSet(D)
  BY TimesAssumption, FS_Subset
<1>3. IsFiniteSet(b)
  BY <1>1, <1>2, SliceFinite, FS_Union DEF Batch
<1>4. b # {}
  <2>1. PICK t \in T : TRUE
    BY <1>1
  <2>2. [page |-> page, time |-> t, copy |-> 1] \in b
    BY <1>1, <2>1 DEF Batch
  <2> QED
    BY <2>2
<1>5. b \subseteq [page : {page}, time : Times, copy : 1 .. 2]
  BY <1>1 DEF Batch
<1> QED
  BY <1>3, <1>4, <1>5

(* The times of finitely many rows have a cardinality that frames without    *)
(* repeated times share.                                                     *)
LEMMA FrameSize ==
  ASSUME NEW S, IsFiniteSet(S), \A r, s \in S : r.time = s.time => r = s
  PROVE  IsFiniteSet(TimesOf(S)) /\ Cardinality(TimesOf(S)) = Cardinality(S)
<1> DEFINE f == [r \in S |-> r.time]
<1>1. f \in Bijection(S, TimesOf(S))
  BY DEF Bijection, Injection, Surjection, IsInjective, TimesOf
<1> QED
  BY <1>1, FS_Bijection DEF ExistsBijection

(* One more call: the cursors stay sorted, end at the current cursor, and   *)
(* are as many as the calls.                                                *)
LEMMA LogSorted ==
  ASSUME TypeOK, CallsCounted, Log
  PROVE  /\ cursors' \in Seq(Int)
         /\ Len(cursors') = Len(cursors) + 1
         /\ \A i, j \in DOMAIN cursors' : i <= j => cursors'[i] <= cursors'[j]
         /\ \A i \in DOMAIN cursors' : cursors'[i] <= cursor
<1>0. cursors \in Seq(Int) /\ cursor \in Int
  BY DEF TypeOK
<1>1. /\ cursors' \in Seq(Int)
      /\ Len(cursors') = Len(cursors) + 1
      /\ cursors'[Len(cursors) + 1] = cursor
      /\ \A i \in 1 .. Len(cursors) : cursors'[i] = cursors[i]
  BY <1>0 DEF Log
<1>2. /\ DOMAIN cursors' = 1 .. Len(cursors) + 1
      /\ DOMAIN cursors = 1 .. Len(cursors)
      /\ Len(cursors) \in Nat
  BY <1>0, <1>1
<1>3. \A i \in 1 .. Len(cursors) : cursors[i] \in Int /\ cursors[i] <= cursor
  BY <1>0, <1>2 DEF CallsCounted
<1>4. \A i \in DOMAIN cursors' : cursors'[i] <= cursor
  <2> SUFFICES ASSUME NEW i \in 1 .. Len(cursors) + 1 PROVE cursors'[i] <= cursor
    BY <1>2
  <2>1. CASE i = Len(cursors) + 1
    BY <2>1, <1>0, <1>1
  <2>2. CASE i \in 1 .. Len(cursors)
    BY <2>2, <1>1, <1>3
  <2> QED
    BY <2>1, <2>2, <1>2
<1>5. \A i, j \in DOMAIN cursors' : i <= j => cursors'[i] <= cursors'[j]
  <2> SUFFICES ASSUME NEW i \in 1 .. Len(cursors) + 1, NEW j \in 1 .. Len(cursors) + 1, i <= j
               PROVE  cursors'[i] <= cursors'[j]
    BY <1>2
  <2>1. CASE j = Len(cursors) + 1
    BY <2>1, <1>1, <1>2, <1>4
  <2>2. CASE j \in 1 .. Len(cursors)
    <3>1. i \in 1 .. Len(cursors)
      BY <2>2, <1>2
    <3>2. cursors[i] <= cursors[j]
      BY <3>1, <2>2, <1>2 DEF CallsCounted
    <3> QED
      BY <3>1, <3>2, <2>2, <1>1
  <2> QED
    BY <2>1, <2>2, <1>2
<1> QED
  BY <1>1, <1>4, <1>5

(* What one more call does to the counters. *)
LEMMA CalledCounts ==
  ASSUME TypeOK
  PROVE  /\ Called \in [Counters -> Nat]
         /\ \A k \in Counters \ {"fetch_ohlcv_call_count", "retry_count"} : Called[k] = count[k]
         /\ Called["fetch_ohlcv_call_count"] = count["fetch_ohlcv_call_count"] + 1
         /\ Called["retry_count"] = count["retry_count"] + IF attempt = 0 THEN 0 ELSE 1
<1> DEFINE retried == IF attempt > 0 THEN count["retry_count"] + 1 ELSE count["retry_count"]
<1>1. /\ attempt \in Nat
      /\ count \in [Counters -> Nat]
      /\ \A k \in Counters : count[k] \in Nat
  BY BoundAssumption DEF TypeOK
<1>2. {"fetch_ohlcv_call_count", "retry_count"} \subseteq Counters
  BY DEF Counters
<1>3. retried \in Nat /\ retried = count["retry_count"] + IF attempt = 0 THEN 0 ELSE 1
  BY <1>1, <1>2
<1>4. Called = [count EXCEPT !["fetch_ohlcv_call_count"] = count["fetch_ohlcv_call_count"] + 1,
                             !["retry_count"] = retried]
  BY <1>1, <1>2 DEF Called
<1> HIDE DEF retried
<1> QED
  BY <1>1, <1>2, <1>3, <1>4

LEMMA InitIInv == Init => IInv
<1> SUFFICES ASSUME Init PROVE IInv
  OBVIOUS
<1>1. TypeOK
  BY RangeAssumption, BoundAssumption DEF Init, TypeOK
<1>2. IsFiniteSet(rows) /\ Cardinality(rows) = 0 /\ TimesOf(rows) = {}
  BY FS_EmptySet DEF Init, TimesOf
<1>3. CandlesOnce
  BY DEF Init, CandlesOnce
<1>4. RowsBehind
  BY <1>2, RangeAssumption, BoundAssumption DEF Init, RowsBehind
<1>5. CallsCounted
  BY DEF Init, CallsCounted, Counters
<1>6. RowsCounted
  BY <1>2 DEF Init, RowsCounted, Counters
<1>7. MarketCovered
  <2>1. market \subseteq Int
    BY TimesAssumption DEF Init, Market
  <2> QED
    BY <1>2, <2>1, RangeAssumption DEF Init, MarketCovered
<1> QED
  BY <1>1, <1>3, <1>4, <1>5, <1>6, <1>7 DEF IInv

LEMMA FailStep ==
  ASSUME IInv, Fail
  PROVE  IInv'
<1>1. TypeOK'
  BY LogSorted, CalledCounts, BoundAssumption DEF IInv, TypeOK, Fail
<1>2. CandlesOnce'
  BY DEF IInv, CandlesOnce, Fail
<1>3. RowsBehind'
  BY DEF IInv, RowsBehind, Fail
<1>4. CallsCounted'
  <2>1. count["fetch_ohlcv_call_count"] \in Nat /\ count["page_count"] \in Nat /\ count["retry_count"] \in Nat
    BY DEF IInv, TypeOK, Counters
  <2>2. /\ count'["page_count"] = count["page_count"]
        /\ count'["fetch_ohlcv_call_count"] = count["fetch_ohlcv_call_count"] + 1
        /\ count'["retry_count"] = count["retry_count"] + IF attempt = 0 THEN 0 ELSE 1
    BY CalledCounts DEF IInv, Fail, Counters
  <2>3. attempt' # 0 /\ UNCHANGED cursor /\ pc = "paging" /\ pc' = "paging"
    BY BoundAssumption DEF IInv, TypeOK, Fail
  <2>4. count["fetch_ohlcv_call_count"] =
            count["page_count"] + count["retry_count"] + IF attempt = 0 THEN 0 ELSE 1
    BY <2>3 DEF IInv, CallsCounted
  <2>5. count'["fetch_ohlcv_call_count"] = count'["page_count"] + count'["retry_count"] + 1
    BY <2>1, <2>2, <2>4
  <2>6. Len(cursors') = Len(cursors) + 1
    BY LogSorted DEF IInv, Fail
  <2>7. Len(cursors') = count'["fetch_ohlcv_call_count"]
    BY <2>2, <2>6 DEF IInv, CallsCounted
  <2> QED
    BY <2>3, <2>5, <2>7, LogSorted DEF IInv, CallsCounted, Fail
<1>5. RowsCounted'
  BY CalledCounts DEF IInv, RowsCounted, Fail, Counters
<1>6. MarketCovered'
  BY DEF IInv, MarketCovered, Fail
<1> QED
  BY <1>1, <1>2, <1>3, <1>4, <1>5, <1>6 DEF IInv

LEMMA GiveUpStep ==
  ASSUME IInv, GiveUp
  PROVE  IInv'
<1>1. TypeOK'
  BY LogSorted, CalledCounts DEF IInv, TypeOK, GiveUp
<1>2. CandlesOnce'
  BY DEF IInv, CandlesOnce, GiveUp
<1>3. RowsBehind'
  BY DEF IInv, RowsBehind, GiveUp
<1>4. CallsCounted'
  BY LogSorted, CalledCounts DEF IInv, CallsCounted, GiveUp
<1>5. RowsCounted'
  BY CalledCounts DEF IInv, RowsCounted, GiveUp, Counters
<1>6. MarketCovered'
  BY DEF IInv, MarketCovered, GiveUp
<1> QED
  BY <1>1, <1>2, <1>3, <1>4, <1>5, <1>6 DEF IInv

LEMMA EmptyPageStep ==
  ASSUME IInv, EmptyPage
  PROVE  IInv'
<1>0. /\ count' \in [Counters -> Nat]
      /\ count'["page_count"] = Called["page_count"] + 1
      /\ \A k \in Counters \ {"page_count"} : count'[k] = Called[k]
  BY CalledCounts DEF IInv, EmptyPage, Counters
<1>1. TypeOK'
  <2>1. page' \in 0 .. MaxPages /\ attempt' \in 0 .. Retries
    BY BoundAssumption DEF IInv, TypeOK, RowsBehind, EmptyPage
  <2>2. cursors' \in Seq(Int)
    BY LogSorted DEF IInv, EmptyPage
  <2>3. honest' \in BOOLEAN
    BY DEF EmptyPage
  <2> QED
    BY <1>0, <2>1, <2>2, <2>3 DEF IInv, TypeOK, EmptyPage
<1>2. CandlesOnce'
  BY DEF IInv, CandlesOnce, EmptyPage
<1>3. RowsBehind'
  BY DEF IInv, TypeOK, Row, RowsBehind, EmptyPage
<1>4. CallsCounted'
  <2>1. \A k \in Counters : count[k] \in Nat
    BY DEF IInv, TypeOK
  <2>2. /\ pc' = "normalizing" /\ attempt' = 0 /\ UNCHANGED cursor
        /\ pc = "paging"
    BY DEF EmptyPage
  <2>3. /\ count'["fetch_ohlcv_call_count"] = count["fetch_ohlcv_call_count"] + 1
        /\ count'["page_count"] = count["page_count"] + 1
        /\ count'["retry_count"] = count["retry_count"] + IF attempt = 0 THEN 0 ELSE 1
    BY <1>0, CalledCounts DEF IInv, Counters
  <2>4. Len(cursors') = Len(cursors) + 1
    BY LogSorted DEF IInv, EmptyPage
  <2>5. count["fetch_ohlcv_call_count"] =
            count["page_count"] + count["retry_count"] + IF attempt = 0 THEN 0 ELSE 1
    BY <2>2 DEF IInv, CallsCounted
  <2>6. /\ Len(cursors') = count'["fetch_ohlcv_call_count"]
        /\ count'["fetch_ohlcv_call_count"] = count'["page_count"] + count'["retry_count"]
    BY <2>1, <2>3, <2>4, <2>5 DEF IInv, CallsCounted, Counters
  <2> QED
    BY <2>2, <2>6, LogSorted DEF IInv, CallsCounted, EmptyPage
<1>5. RowsCounted'
  BY <1>0, CalledCounts DEF IInv, RowsCounted, EmptyPage, Counters
<1>6. MarketCovered'
  <2>1. \A t \in market : t \in Int
    BY TimesAssumption DEF IInv, TypeOK, Market
  <2> SUFFICES ASSUME honest'
               PROVE  /\ TimesOf(rows) \subseteq market
                      /\ \A t \in market : Since <= t /\ t < Until => t \in TimesOf(rows)
    BY DEF MarketCovered, EmptyPage
  <2>2. honest /\ \A t \in market : t < cursor \/ t >= Until
    BY DEF EmptyPage
  <2> QED
    BY <2>1, <2>2, RangeAssumption DEF IInv, MarketCovered
<1> QED
  BY <1>1, <1>2, <1>3, <1>4, <1>5, <1>6 DEF IInv

(* The rows of a page fall apart into the usable ones, those before the      *)
(* cursor and those past the range.                                         *)
LEMMA PageSplits ==
  ASSUME NEW b \in Batches, cursor \in Int, cursor < Until
  PROVE  /\ IsFiniteSet(Usable(b))
         /\ Cardinality(b) = Cardinality(Usable(b))
                               + Cardinality({r \in b : r.time < cursor})
                               + Cardinality({r \in b : r.time >= Until})
         /\ Cardinality(b) \in Nat
         /\ Cardinality({r \in b : r.time < cursor}) \in Nat
         /\ Cardinality({r \in b : r.time >= Until}) \in Nat
         /\ Cardinality(Usable(b)) \in Nat
<1> DEFINE u == Usable(b)
           o == {r \in b : r.time < cursor}
           x == {r \in b : r.time >= Until}
<1>1. IsFiniteSet(b) /\ \A r \in b : r.time \in Int
  BY BatchType, TimesAssumption
<1>2. u \in SUBSET b /\ o \in SUBSET b /\ x \in SUBSET b
  BY DEF Usable
<1>3. IsFiniteSet(u) /\ IsFiniteSet(o) /\ IsFiniteSet(x)
  BY <1>1, <1>2, FS_Subset
<1>4. /\ u \cap o = {} /\ (u \cup o) \cap x = {}
      /\ b = (u \cup o) \cup x
  BY <1>1, RangeAssumption DEF Usable
<1> HIDE DEF u, o, x
<1>5. /\ IsFiniteSet(u \cup o)
      /\ Cardinality(u \cup o) = Cardinality(u) + Cardinality(o) - Cardinality(u \cap o)
  BY <1>3, FS_Union
<1>6. Cardinality((u \cup o) \cup x) =
        Cardinality(u \cup o) + Cardinality(x) - Cardinality((u \cup o) \cap x)
  BY <1>3, <1>5, FS_Union
<1>7. /\ Cardinality(b) \in Nat /\ Cardinality(u) \in Nat
      /\ Cardinality(o) \in Nat /\ Cardinality(x) \in Nat
  BY <1>1, <1>3, FS_CardinalityType
<1>8. Cardinality(b) = Cardinality(u) + Cardinality(o) + Cardinality(x)
  <2>1. Cardinality({}) = 0
    BY FS_EmptySet
  <2>2. Cardinality(u \cup o) = Cardinality(u) + Cardinality(o)
    <3>1. Cardinality(u \cap o) = 0
      BY <1>4, <2>1
    <3> QED
      BY <3>1, <1>5, <1>7
  <2>3. Cardinality(b) = Cardinality(u \cup o) + Cardinality(x)
    <3>1. Cardinality(b) = Cardinality((u \cup o) \cup x)
      BY <1>4
    <3>2. Cardinality((u \cup o) \cap x) = 0
      BY <1>4, <2>1
    <3> QED
      BY <3>1, <3>2, <1>6, <1>7, <2>2
  <2> QED
    BY <2>2, <2>3
<1> QED
  BY <1>3, <1>7, <1>8 DEF u, o, x

(* What an answer with rows does to the counters. *)
LEMMA ReceivedCounts ==
  ASSUME TypeOK, cursor < Until, NEW b \in Batches
  PROVE  /\ Received(b) \in [Counters -> Nat]
         /\ Received(b)["page_count"] = Called["page_count"] + 1
         /\ Received(b)["raw_rows_received"] = Called["raw_rows_received"] + Cardinality(b)
         /\ Received(b)["overlapping_rows_removed"] =
               Called["overlapping_rows_removed"] + Cardinality({r \in b : r.time < cursor})
         /\ Received(b)["out_of_range_rows_removed"] =
               Called["out_of_range_rows_removed"] + Cardinality({r \in b : r.time >= Until})
         /\ \A k \in {"fetch_ohlcv_call_count", "retry_count", "normalized_rows",
                       "duplicate_rows_removed"} : Received(b)[k] = Called[k]
<1> DEFINE n == Cardinality(b)
           o == Cardinality({r \in b : r.time < cursor})
           x == Cardinality({r \in b : r.time >= Until})
<1>1. n \in Nat /\ o \in Nat /\ x \in Nat
  BY PageSplits DEF TypeOK
<1>2. Called \in [Counters -> Nat]
  BY CalledCounts
<1>4. Received(b) =
        [Called EXCEPT !["page_count"] = Called["page_count"] + 1,
                       !["raw_rows_received"] = Called["raw_rows_received"] + n,
                       !["overlapping_rows_removed"] = Called["overlapping_rows_removed"] + o,
                       !["out_of_range_rows_removed"] = Called["out_of_range_rows_removed"] + x]
  BY <1>2 DEF Received, Counters
<1> HIDE DEF n, o, x
<1>5. /\ Received(b) \in [Counters -> Nat]
      /\ Received(b)["page_count"] = Called["page_count"] + 1
      /\ Received(b)["raw_rows_received"] = Called["raw_rows_received"] + n
      /\ Received(b)["overlapping_rows_removed"] = Called["overlapping_rows_removed"] + o
      /\ Received(b)["out_of_range_rows_removed"] = Called["out_of_range_rows_removed"] + x
      /\ \A k \in {"fetch_ohlcv_call_count", "retry_count", "normalized_rows",
                    "duplicate_rows_removed"} : Received(b)[k] = Called[k]
  BY <1>1, <1>2, <1>4 DEF Counters
<1> QED
  BY <1>5 DEF n, o, x

(* An answer with rows preserves all but what it says of the market, if the  *)
(* cursor ends up past its rows.                                            *)
LEMMA ReceiveStep ==
  ASSUME IInv, NEW b \in Batches, Receive(b),
         cursor' \in Int, cursor <= cursor', \A r \in b : r.time < cursor',
         pc' \in {"paging", "normalizing", "raised"},
         pc' = "paging" => cursor' < Until /\ page' < MaxPages
  PROVE  TypeOK' /\ CandlesOnce' /\ RowsBehind' /\ CallsCounted' /\ RowsCounted'
<1>0. /\ pc = "paging" /\ cursor \in Int /\ cursor < Until /\ page < MaxPages
      /\ page \in Nat /\ page' = page + 1 /\ page' \in 0 .. MaxPages
      /\ page \in 0 .. MaxPages - 1
  BY BoundAssumption DEF IInv, TypeOK, RowsBehind, Receive
<1>u. /\ \A r \in Usable(b) : /\ r \in Row /\ r.page = page
                              /\ cursor <= r.time /\ r.time < Until
                              /\ r.time < cursor' /\ r.time \in Int
      /\ rows' = rows \cup Usable(b)
  BY <1>0, BatchType, TimesAssumption DEF Usable, Row, Receive
<1>r. \A r \in rows : /\ Since <= r.time /\ r.time < cursor /\ r.time < Until
                       /\ r.page < page /\ r.time \in Int /\ r.page \in Int
  BY TimesAssumption DEF IInv, TypeOK, RowsBehind, Row
<1>1. TypeOK'
  <2>1. count' \in [Counters -> Nat]
    BY <1>0, ReceivedCounts DEF IInv, Receive
  <2>2. cursors' \in Seq(Int)
    BY LogSorted DEF IInv, Receive
  <2>3. attempt' \in 0 .. Retries /\ honest' \in BOOLEAN
    BY BoundAssumption DEF Receive
  <2>4. rows' \subseteq Row /\ frame' \subseteq rows'
    BY <1>u DEF IInv, TypeOK, Receive
  <2>5. market' \in Market
    BY DEF IInv, TypeOK, Receive
  <2> QED
    BY <1>0, <2>1, <2>2, <2>3, <2>4, <2>5 DEF TypeOK
<1>2. CandlesOnce'
  BY <1>0, <1>u, <1>r, RangeAssumption DEF IInv, RowsBehind, CandlesOnce
<1>3. RowsBehind'
  <2>1. IsFiniteSet(rows')
    BY <1>0, <1>u, PageSplits, FS_Union DEF IInv, RowsBehind
  <2>2. Since <= cursor'
    BY <1>0, RangeAssumption DEF IInv, RowsBehind
  <2>3. \A r \in rows' : /\ Since <= r.time /\ r.time < cursor' /\ r.time < Until
                         /\ r.page < page'
    BY <1>0, <1>u, <1>r, RangeAssumption DEF IInv, RowsBehind
  <2> QED
    BY <2>1, <2>2, <2>3 DEF RowsBehind
<1>4. CallsCounted'
  <2>1. \A k \in Counters : count[k] \in Nat
    BY DEF IInv, TypeOK
  <2>2. /\ count'["fetch_ohlcv_call_count"] = count["fetch_ohlcv_call_count"] + 1
        /\ count'["page_count"] = count["page_count"] + 1
        /\ count'["retry_count"] = count["retry_count"] + IF attempt = 0 THEN 0 ELSE 1
    BY <1>0, ReceivedCounts, CalledCounts DEF IInv, Receive, Counters
  <2>3. /\ Len(cursors') = Len(cursors) + 1
        /\ \A i, j \in DOMAIN cursors' : i <= j => cursors'[i] <= cursors'[j]
        /\ \A i \in DOMAIN cursors' : cursors'[i] <= cursor
        /\ cursors' \in Seq(Int)
    BY LogSorted DEF IInv, Receive
  <2>4. \A i \in DOMAIN cursors' : cursors'[i] <= cursor'
    <3>1. \A i \in DOMAIN cursors' : cursors'[i] \in Int
      BY <2>3
    <3> QED
      BY <3>1, <2>3, <1>0
  <2>5. /\ Len(cursors) = count["fetch_ohlcv_call_count"]
        /\ count["fetch_ohlcv_call_count"] =
              count["page_count"] + count["retry_count"] + IF attempt = 0 THEN 0 ELSE 1
    BY <1>0 DEF IInv, CallsCounted
  <2>6. /\ Len(cursors') = count'["fetch_ohlcv_call_count"]
        /\ count'["fetch_ohlcv_call_count"] = count'["page_count"] + count'["retry_count"]
    <3>1. count["page_count"] \in Nat /\ count["retry_count"] \in Nat
      BY <2>1 DEF Counters
    <3> QED
      BY <3>1, <2>2, <2>3, <2>5
  <2>7. attempt' = 0
    BY DEF Receive
  <2> QED
    BY <2>3, <2>4, <2>6, <2>7 DEF CallsCounted
<1>5. RowsCounted'
  <2>1. \A k \in Counters : count[k] \in Nat
    BY DEF IInv, TypeOK
  <2>2. /\ IsFiniteSet(rows) /\ IsFiniteSet(Usable(b))
        /\ rows \cap Usable(b) = {}
    <3>1. IsFiniteSet(rows) /\ IsFiniteSet(Usable(b))
      BY <1>0, PageSplits DEF IInv, RowsBehind
    <3>2. \A r \in rows : r \notin Usable(b)
      BY <1>0, <1>u, <1>r
    <3> QED
      BY <3>1, <3>2
  <2>3. Cardinality(rows') = Cardinality(rows) + Cardinality(Usable(b))
    <3>1. Cardinality(rows') =
            Cardinality(rows) + Cardinality(Usable(b)) - Cardinality(rows \cap Usable(b))
      BY <1>u, <2>2, FS_Union
    <3>2. Cardinality(rows) \in Nat /\ Cardinality(Usable(b)) \in Nat
      BY <2>2, FS_CardinalityType
    <3>3. Cardinality(rows \cap Usable(b)) = 0
      BY <2>2, FS_EmptySet
    <3> QED
      BY <3>1, <3>2, <3>3
  <2>4. Cardinality(rows) \in Nat
    BY <2>2, FS_CardinalityType
  <2>5. /\ count["raw_rows_received"] =
              Cardinality(rows) + count["overlapping_rows_removed"]
                + count["out_of_range_rows_removed"]
        /\ count["normalized_rows"] = 0 /\ count["duplicate_rows_removed"] = 0
    BY <1>0 DEF IInv, RowsCounted
  <2>6. /\ count'["raw_rows_received"] = count["raw_rows_received"] + Cardinality(b)
        /\ count'["overlapping_rows_removed"] =
              count["overlapping_rows_removed"] + Cardinality({r \in b : r.time < cursor})
        /\ count'["out_of_range_rows_removed"] =
              count["out_of_range_rows_removed"] + Cardinality({r \in b : r.time >= Until})
        /\ count'["normalized_rows"] = 0 /\ count'["duplicate_rows_removed"] = 0
    BY <1>0, <2>5, ReceivedCounts, CalledCounts DEF IInv, Receive, Counters
  <2>7. count'["raw_rows_received"] =
          Cardinality(rows') + count'["overlapping_rows_removed"]
            + count'["out_of_range_rows_removed"]
    BY <1>0, <2>1, <2>3, <2>4, <2>5, <2>6, PageSplits DEF Counters
  <2> QED
    BY <2>6, <2>7 DEF RowsCounted
<1> QED
  BY <1>1, <1>2, <1>3, <1>4, <1>5

LEMMA StalledPageStep ==
  ASSUME IInv, NEW b \in Batches, NEW latest \in Latest(b), StalledPage(b, latest)
  PROVE  IInv'
<1>1. /\ cursor \in Int /\ cursor' = cursor /\ pc' = "raised" /\ Receive(b)
      /\ latest \in Int /\ latest + Step <= cursor
  BY BatchType, TimesAssumption DEF IInv, TypeOK, StalledPage, NextCursor, Latest, TimesOf
<1>2. \A r \in b : r.time \in Int /\ r.time < cursor
  <2>1. \A r \in b : r.time \in Int /\ r.time <= latest
    BY BatchType, TimesAssumption DEF Latest, TimesOf
  <2> QED
    BY <1>1, <2>1, BoundAssumption
<1>3. TypeOK' /\ CandlesOnce' /\ RowsBehind' /\ CallsCounted' /\ RowsCounted'
  BY <1>1, <1>2, ReceiveStep
<1>4. MarketCovered'
  <2>1. rows' = rows /\ market' = market /\ pc = "paging" /\ (honest' => honest)
    <3>1. Usable(b) = {}
      BY <1>1, <1>2 DEF Usable
    <3>2. honest' = (honest /\ Shown(b))
      BY <1>1 DEF Receive
    <3> QED
      BY <1>1, <3>1, <3>2 DEF Receive, IInv, TypeOK
  <2> QED
    BY <1>1, <2>1 DEF IInv, MarketCovered, TimesOf
<1> QED
  BY <1>3, <1>4 DEF IInv

LEMMA FullPageStep ==
  ASSUME IInv, NEW b \in Batches, NEW latest \in Latest(b), FullPage(b, latest)
  PROVE  IInv'
<1>1. /\ cursor \in Int /\ cursor' = latest + Step /\ cursor < cursor' /\ Receive(b)
      /\ latest \in Int /\ cursor' \in Int
  <2>1. latest \in Int
    BY BatchType, TimesAssumption DEF Latest, TimesOf
  <2>2. cursor \in Int /\ cursor' = latest + Step /\ latest + Step > cursor /\ Receive(b)
    BY DEF IInv, TypeOK, FullPage, NextCursor
  <2> QED
    BY <2>1, <2>2, BoundAssumption
<1>2. \A r \in b : r.time \in Int /\ r.time <= latest /\ r.time < cursor'
  <2>1. \A r \in b : r.time \in Int /\ r.time <= latest
    BY BatchType, TimesAssumption DEF Latest, TimesOf
  <2> QED
    BY <1>1, <2>1, BoundAssumption
<1>3. /\ pc' \in {"paging", "normalizing", "raised"}
      /\ pc' = "paging" => cursor' < Until /\ page' < MaxPages
      /\ pc' = "normalizing" => cursor' >= Until
  <2>1. page + 1 # MaxPages => page + 1 < MaxPages
    BY BoundAssumption DEF IInv, TypeOK, RowsBehind, Receive, FullPage
  <2> QED
    BY <1>1, <2>1, RangeAssumption DEF FullPage, Receive
<1>4. TypeOK' /\ CandlesOnce' /\ RowsBehind' /\ CallsCounted' /\ RowsCounted'
  BY <1>1, <1>2, <1>3, ReceiveStep
<1>5. MarketCovered'
  <2> SUFFICES ASSUME honest'
               PROVE  /\ TimesOf(rows') \subseteq market
                      /\ \A t \in market : Since <= t /\ t < Until /\ t < cursor'
                                             => t \in TimesOf(rows')
    <3>1. market' = market /\ \A t \in market : t \in Int
      BY <1>1, TimesAssumption DEF Receive, IInv, TypeOK, Market
    <3> QED
      BY <3>1, <1>1, <1>3, RangeAssumption DEF MarketCovered
  <2>1. honest /\ Shown(b) /\ pc = "paging" /\ rows' = rows \cup Usable(b)
    BY <1>1 DEF Receive
  <2>2. /\ TimesOf(rows) \subseteq market
        /\ \A t \in market : Since <= t /\ t < Until /\ t < cursor => t \in TimesOf(rows)
    BY <2>1 DEF IInv, MarketCovered
  <2>3. TimesOf(rows') \subseteq market
    BY <2>1, <2>2 DEF TimesOf, Shown, Usable
  <2>4. ASSUME NEW t \in market, Since <= t, t < Until, t < cursor'
        PROVE  t \in TimesOf(rows')
    <3>1. t \in Int /\ latest \in market
      BY <2>1, TimesAssumption DEF IInv, TypeOK, Market, Shown, Latest
    <3>2. CASE t < cursor
      BY <3>2, <2>1, <2>2, <2>4 DEF TimesOf
    <3>3. CASE cursor <= t
      <4>1. t <= latest
        <5>1. latest < t => latest + Step <= t
          BY <3>1 DEF IInv, TypeOK, Market
        <5> QED
          BY <5>1, <3>1, <2>4, <1>1, BoundAssumption
      <4>2. t \in TimesOf(b)
        BY <4>1, <3>3, <2>1 DEF Shown, Latest
      <4>3. PICK r \in b : r.time = t
        BY <4>2 DEF TimesOf
      <4>4. r \in Usable(b)
        BY <4>3, <3>3, <2>4 DEF Usable
      <4> QED
        BY <4>3, <4>4, <2>1 DEF TimesOf
    <3> QED
      BY <3>1, <3>2, <3>3, <1>1
  <2> QED
    BY <2>3, <2>4
<1> QED
  BY <1>4, <1>5 DEF IInv

LEMMA NormalizeStep ==
  ASSUME IInv, Normalize
  PROVE  IInv'
<1>0. /\ pc = "normalizing" /\ pc' = "returned" /\ frame' \in Deduplicated
      /\ UNCHANGED <<market, cursor, page, attempt, rows, cursors, honest>>
      /\ IsFiniteSet(rows)
      /\ count \in [Counters -> Nat]
  BY DEF IInv, TypeOK, RowsBehind, Normalize
<1>f. /\ frame' \subseteq rows /\ TimesOf(frame') = TimesOf(rows)
      /\ \A r, s \in frame' : r.time = s.time => r = s
      /\ IsFiniteSet(frame')
  BY <1>0, FS_Subset DEF Deduplicated
<1>c. /\ Cardinality(frame') = Cardinality(TimesOf(rows))
      /\ Cardinality(frame') \in Nat /\ Cardinality(rows) \in Nat
      /\ Cardinality(frame') <= Cardinality(rows)
  <2>1. Cardinality(frame') = Cardinality(TimesOf(frame'))
    BY <1>f, FrameSize
  <2>2. Cardinality(frame') <= Cardinality(rows)
    BY <1>0, <1>f, FS_Subset
  <2> QED
    BY <1>0, <1>f, <2>1, <2>2, FS_CardinalityType
<1>n. /\ count' \in [Counters -> Nat]
      /\ count'["normalized_rows"] = Cardinality(TimesOf(rows))
      /\ count'["duplicate_rows_removed"] = Cardinality(rows) - Cardinality(TimesOf(rows))
      /\ \A k \in Counters \ {"normalized_rows", "duplicate_rows_removed"} :
            count'[k] = count[k]
  <2> DEFINE d == Cardinality(rows) - Cardinality(TimesOf(rows))
             n == Cardinality(frame')
  <2>1. d \in Nat /\ n \in Nat /\ n = Cardinality(TimesOf(rows))
    BY <1>c
  <2>2. count' = [count EXCEPT !["duplicate_rows_removed"] = d, !["normalized_rows"] = n]
    BY DEF Normalize
  <2> HIDE DEF d, n
  <2>3. /\ count' \in [Counters -> Nat]
        /\ count'["normalized_rows"] = n
        /\ count'["duplicate_rows_removed"] = d
        /\ \A k \in Counters \ {"normalized_rows", "duplicate_rows_removed"} :
              count'[k] = count[k]
    BY <1>0, <2>1, <2>2 DEF Counters
  <2> QED
    BY <2>1, <2>3 DEF d
<1>1. TypeOK'
  BY <1>0, <1>f, <1>n DEF IInv, TypeOK
<1>2. CandlesOnce'
  BY <1>0 DEF IInv, CandlesOnce
<1>3. RowsBehind'
  BY <1>0 DEF IInv, RowsBehind
<1>4. CallsCounted'
  <2>1. \A k \in {"fetch_ohlcv_call_count", "page_count", "retry_count"} : count'[k] = count[k]
    BY <1>n DEF Counters
  <2> QED
    BY <1>0, <2>1 DEF IInv, CallsCounted
<1>5. RowsCounted'
  <2>1. \A k \in {"raw_rows_received", "overlapping_rows_removed",
                  "out_of_range_rows_removed"} : count'[k] = count[k]
    BY <1>n DEF Counters
  <2>2. TimesOf(rows') = TimesOf(rows) /\ Cardinality(rows') = Cardinality(rows)
    BY <1>0
  <2>3. frame' \in Deduplicated'
    BY <1>0 DEF Deduplicated
  <2> QED
    BY <1>0, <1>n, <2>1, <2>2, <2>3 DEF IInv, RowsCounted
<1>6. MarketCovered'
  BY <1>0 DEF IInv, MarketCovered, TimesOf
<1> QED
  BY <1>1, <1>2, <1>3, <1>4, <1>5, <1>6 DEF IInv

LEMMA StutterStep ==
  ASSUME IInv, UNCHANGED vars
  PROVE  IInv'
BY DEF vars, IInv, TypeOK, CandlesOnce, RowsBehind, CallsCounted, RowsCounted, MarketCovered,
       Deduplicated, TimesOf

THEOREM Inductive == IInv /\ [Next]_vars => IInv'
<1> SUFFICES ASSUME IInv, [Next]_vars PROVE IInv'
  OBVIOUS
<1>1. CASE Fail
  BY <1>1, FailStep
<1>2. CASE GiveUp
  BY <1>2, GiveUpStep
<1>3. CASE EmptyPage
  BY <1>3, EmptyPageStep
<1>4. CASE Normalize
  BY <1>4, NormalizeStep
<1>5. ASSUME NEW b \in Batches, NEW latest \in Latest(b), StalledPage(b, latest) PROVE IInv'
  BY <1>5, StalledPageStep
<1>6. ASSUME NEW b \in Batches, NEW latest \in Latest(b), FullPage(b, latest) PROVE IInv'
  BY <1>6, FullPageStep
<1>7. CASE Done \/ UNCHANGED vars
  BY <1>7, StutterStep DEF Done
<1> QED
  BY <1>1, <1>2, <1>3, <1>4, <1>5, <1>6, <1>7 DEF Next

(* The inductive invariant holds for any exchange, range, page limit and     *)
(* number of retries.                                                       *)
THEOREM Invariance == Spec => []IInv
<1>1. Init => IInv
  BY InitIInv
<1>2. IInv /\ [Next]_vars => IInv'
  BY Inductive
<1> QED
  BY <1>1, <1>2, PTL DEF Spec

(* Every variable keeps its type. *)
THEOREM TypeCorrect == Spec => []TypeOK
<1>1. IInv => TypeOK
  BY DEF IInv
<1> QED
  BY <1>1, Invariance, PTL

(* No two pages contribute the same candle, and none is out of range. *)
THEOREM KeptOnce == Spec => []CandlesOnce
<1>1. IInv => CandlesOnce
  BY DEF IInv
<1> QED
  BY <1>1, Invariance, PTL

(* A call to an exchange that shows its market returns the whole range. *)
THEOREM ComesComplete == Spec => []NothingSkipped
<1>1. IInv => NothingSkipped
  <2> SUFFICES ASSUME IInv, pc = "returned", honest
               PROVE  /\ TimesOf(frame) = {t \in market : Since <= t /\ t < Until}
                      /\ \A r, s \in frame : r.time = s.time => r = s
    BY DEF NothingSkipped
  <2>1. /\ TimesOf(frame) = TimesOf(rows)
        /\ \A r, s \in frame : r.time = s.time => r = s
    BY DEF IInv, RowsCounted, Deduplicated
  <2>2. TimesOf(rows) = {t \in market : Since <= t /\ t < Until}
    BY DEF IInv, MarketCovered, RowsBehind, TimesOf
  <2> QED
    BY <2>1, <2>2
<1> QED
  BY <1>1, Invariance, PTL

(* The telemetry of a call that returned passes the audit's accounting, and  *)
(* that of a call that raised does exactly if it was answered and kept none. *)
THEOREM TelemetryAdds == Spec => []EvidenceAddsUp
<1>1. ASSUME IInv
      PROVE  /\ \A k \in Counters : count[k] \in Nat
             /\ IsFiniteSet(rows) /\ Cardinality(rows) \in Nat
             /\ Len(cursors) = count["fetch_ohlcv_call_count"]
             /\ \A i, j \in DOMAIN cursors : i <= j => cursors[i] <= cursors[j]
  BY <1>1, FS_CardinalityType DEF IInv, TypeOK, RowsBehind, CallsCounted
<1>2. ASSUME IInv, pc = "returned" PROVE Accounted
  <2>1. count["fetch_ohlcv_call_count"] = count["page_count"] + count["retry_count"]
    BY <1>1, <1>2 DEF IInv, CallsCounted, Counters
  <2>2. IsFiniteSet(frame) /\ TimesOf(frame) = TimesOf(rows)
    BY <1>1, <1>2, FS_Subset DEF IInv, TypeOK, RowsCounted, Deduplicated
  <2>3. Cardinality(TimesOf(rows)) \in Nat
    BY <1>2, <2>2, FrameSize, FS_CardinalityType DEF IInv, RowsCounted, Deduplicated
  <2>4. count["normalized_rows"] =
          count["raw_rows_received"] - count["duplicate_rows_removed"]
            - count["overlapping_rows_removed"] - count["out_of_range_rows_removed"]
    <3>1. (\A k \in Counters : count[k] \in Nat) /\ Cardinality(rows) \in Nat
      BY <1>1, <1>2
    <3> QED
      BY <1>2, <2>3, <3>1 DEF IInv, RowsCounted, Counters
  <2> QED
    BY <1>1, <1>2, <2>1, <2>4 DEF Accounted
<1>3. ASSUME IInv, pc = "raised" PROVE Accounted <=> Answered /\ rows = {}
  <2>1. count["raw_rows_received"] - count["duplicate_rows_removed"]
            - count["overlapping_rows_removed"] - count["out_of_range_rows_removed"]
          = Cardinality(rows) + count["normalized_rows"]
    BY <1>1, <1>3 DEF IInv, RowsCounted, Counters
  <2>2. count["normalized_rows"] = 0
    BY <1>3 DEF IInv, RowsCounted
  <2>3. Cardinality(rows) = 0 <=> rows = {}
    BY <1>1, <1>3, FS_EmptySet
  <2> QED
    BY <1>1, <1>3, <2>1, <2>2, <2>3 DEF Accounted, Answered
<1>4. IInv => EvidenceAddsUp
  BY <1>2, <1>3 DEF EvidenceAddsUp
<1> QED
  BY <1>4, Invariance, PTL
=============================================================================
