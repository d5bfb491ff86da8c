----------------------------- MODULE AuditEvidence -----------------------------
(***************************************************************************)
(* The public ingestion audit of public_audit.py: a request is ingested    *)
(* twice in isolated storage, a verdict is reached, and the evidence is    *)
(* written file by file into an output directory that later audits reuse;  *)
(* a validator reopens the directory and recomputes what it can.           *)
(*                                                                         *)
(* A file is who wrote it, whether it is whole, and its body; a hash of a  *)
(* file is the file.  A history is the range of closed candles a venue     *)
(* served for the window and a price level.  The pages of a fetch and the  *)
(* rows it removes stand for any number of them: Pagination has them one   *)
(* by one.  Left out are the checks nothing an audit writes can fail: the  *)
(* text of a field (schema names, hosts, URLs, malformed hashes), and the  *)
(* four pages of a live pass, which the length demanded of the window      *)
(* implies for a venue that keeps to the page limit.                       *)
(***************************************************************************)
EXTENDS Integers, Sequences, FiniteSets

CONSTANTS Audits,                \* runs of the audit on this directory
          Primary, Validation,   \* the two venues; also their Parquet files
          Served,                \* what the venues may answer to a request
          Kinds,                 \* "live", "wire" or "plain" providers
          Start, End,            \* the window, in bars
          MinOverlap,            \* min_cross_venue_overlap
          MaxDivergence,         \* max_cross_venue_p95_bps
          Retries,               \* retries of a call
          UnlinkOrder,           \* the order the set of artifacts is walked in
          Overlapping,           \* whether audits may run at the same time
          MaxFaults,             \* bound on exceptions, kills and damage
          Absent

Venues == {Primary, Validation}
History == [from : Int, to : Int, price : Int]

(* BASE_ARTIFACTS; a killed writer also leaves its temporary file, which is *)
(* named here after the audit.                                              *)
Json == {"report", "trace", "summary", "quality", "manifest"}
Base == Json \cup {"markdown", "checksums"}
Artifacts == Base \cup Venues
Entries == Artifacts \cup Audits

ASSUME VenueAssumption ==
    /\ Primary # Validation /\ Audits \cap Artifacts = {} /\ Venues \cap Base = {}
    /\ Overlapping \in BOOLEAN
    /\ Kinds \subseteq {"live", "wire", "plain"} /\ Absent \notin History \cup Audits
ASSUME WindowAssumption ==
    /\ Start \in Int /\ End \in Int /\ Start < End
    /\ Served \subseteq [Venues -> History \cup {Absent}]
    /\ \A s \in Served, v \in Venues :
          s[v] # Absent => Start <= s[v].from /\ s[v].from < s[v].to /\ s[v].to <= End
ASSUME UnlinkAssumption ==
    UnlinkOrder \in Seq(Artifacts) /\ Artifacts \subseteq {UnlinkOrder[i] : i \in DOMAIN UnlinkOrder}
ASSUME LimitAssumption ==
    MinOverlap \in Nat \ {0} /\ MaxDivergence \in Nat /\ Retries \in Nat /\ MaxFaults \in Nat

VARIABLES
    dir,    \* the output directory: each entry's file, or NoFile
    pc,     \* "idle", "clearing", "running", "writing", "done" or "dead"
    kind,   \* the providers of each audit
    left,   \* names of artifacts still to unlink
    runs,   \* the runs of each audit so far
    todo,   \* artifacts still to write, in order
    half,   \* whether the first of them is being written
    latest, \* the audit that began last
    faults

vars == <<dir, pc, kind, left, runs, todo, half, latest, faults>>

NoFile == [by |-> Absent, whole |-> FALSE, body |-> Absent]
Present(d) == {n \in Entries : d[n] # NoFile}
-----------------------------------------------------------------------------
(* Frames and their gates. *)

Rows(h) == IF h = Absent THEN 0 ELSE h.to - h.from

(* validate_ohlcv with the window's end, and with its start if demanded. *)
Valid(h, withStart) == h # Absent /\ h.to >= End /\ (withStart => h.from <= Start)

(* Mutation of Covered: the start of the window is not demanded. *)
CoveredToEnd(h) == Valid(h, FALSE)

Covered(h) == Valid(h, TRUE) /\ Rows(h) = End - Start

Common(f) ==
    IF Absent \in {f[Primary], f[Validation]} THEN {}
    ELSE (f[Primary].from .. f[Primary].to - 1) \cap (f[Validation].from .. f[Validation].to - 1)

(* validate_cross_venue: its alignment codes, and its divergence codes. *)
Aligned(f) ==
    /\ Cardinality(Common(f)) >= MinOverlap
    /\ Common(f) # {} => f[Primary].to = f[Validation].to
Close(f) ==
    Common(f) # {} => /\ f[Primary].price - f[Validation].price <= MaxDivergence
                      /\ f[Validation].price - f[Primary].price <= MaxDivergence

(* The verdict of the ingestion: a validation venue may start late. *)
Ingested(f) == Valid(f[Primary], TRUE) /\ Valid(f[Validation], FALSE) /\ Aligned(f) /\ Close(f)
-----------------------------------------------------------------------------
(* A run: what was served, how each fetch ended, and how the ingestion     *)
(* ended: "late" is an exception after its pointer was replaced.  A fetch  *)
(* raises before a call ("early"), after its retries ("spent"), on a       *)
(* cursor that does not advance before any row was kept ("stuck"), or,     *)
(* with rows kept of earlier pages, there or at max_pages ("cut").         *)

Fetched(v, how) ==
    [w \in Venues |-> IF w = v THEN how ELSE IF v = Primary THEN "uncalled" ELSE "returned"]
AllReturned == [v \in Venues |-> "returned"]

Outcomes(s) ==
    LET ended(e) == [served |-> s, fetched |-> AllReturned, ended |-> e]
    IN  IF Ingested(s) THEN {ended("committed"), ended("late"), ended("raised")}
        ELSE {ended("rejected"), ended("raised")}

Interrupted(s) ==
    {[served |-> s, fetched |-> Fetched(v, how), ended |-> "raised"]
        : v \in Venues, how \in {"early", "spent", "stuck", "cut"}}

Returned(r) == r.ended \in {"committed", "rejected"}

(* What the storage of a run holds afterwards. *)
Frames(r) == [v \in Venues |-> IF r.ended \in {"committed", "late"} THEN r.served[v] ELSE Absent]

(* InstrumentedProvider.trace_dict over the telemetry of fetch_range.  The  *)
(* rows of a page that does not advance the cursor all lie before it, and   *)
(* are counted as overlapping before the fetch raises; rows kept count as   *)
(* normalized only when it returns.                                         *)
Measured(how, h) ==
    LET t(calls, pages, retries, raw, removed, kept) ==
            [calls |-> calls, cursors |-> calls, pages |-> pages, retries |-> retries,
             raw |-> raw, removed |-> removed, kept |-> kept,
             failed |-> how \notin {"uncalled", "returned"}]
    IN  CASE how = "returned" -> t(1, 1, 0, Rows(h), 0, Rows(h))
          [] how = "spent"    -> t(Retries + 1, 0, Retries, 0, 0, 0)
          [] how = "stuck"    -> t(1, 1, 0, 1, 1, 0)
          [] how = "cut"      -> t(2, 2, 0, 2, 1, 0)
          [] OTHER            -> t(0, 0, 0, 0, 0, 0)

(* Providers without telemetry: one page, if the fetch returned. *)
Trace(k, how, h) ==
    IF k # "plain" THEN Measured(how, h)
    ELSE IF how = "returned"
         THEN [Measured(how, h) EXCEPT !.cursors = 0]
         ELSE [Measured("uncalled", h) EXCEPT !.failed = how # "uncalled"]

Traces(a) ==
    [i \in 1 .. 2 |-> [v \in Venues |-> Trace(kind[a], runs[a][i].fetched[v], runs[a][i].served[v])]]
-----------------------------------------------------------------------------
(* The report and the other artifacts. *)

SameRows(f, g) == f = g /\ \A v \in Venues : f[v] # Absent

Report(a) ==
    LET first == runs[a][1]
        second == runs[a][2]
        frames == Frames(first)
        fixture == kind[a] # "live"
        failure == {first.ended, second.ended} \cap {"raised", "late"} # {}
        coverage == \A v \in Venues : Covered(frames[v])
        quality == first.ended = "committed"
        alignment == Returned(first) /\ Aligned(first.served)
        divergence == Returned(first) /\ Close(first.served)
        idempotency == /\ {first.ended, second.ended} = {"committed"}
                       /\ SameRows(frames, Frames(second))
        live == /\ ~fixture /\ ~failure
                /\ \A i \in 1 .. 2, v \in Venues : Traces(a)[i][v].raw > 0
    IN [fixture |-> fixture, live |-> live, failure |-> failure,
        coverage |-> coverage, quality |-> quality, alignment |-> alignment,
        divergence |-> divergence, idempotency |-> idempotency,
        counts |-> Traces(a)[1], rows |-> [v \in Venues |-> Rows(frames[v])],
        hashes |-> <<frames, Frames(second)>>,
        passed |-> /\ ~failure /\ quality /\ coverage /\ alignment /\ divergence
                   /\ idempotency /\ (fixture \/ live)]

(* _write_manifest_and_checksums lists what is there. *)
Listing(names) == [n \in Present(dir) \cap names |-> dir[n]]

Body(a, n) ==
    CASE n = "report" -> Report(a)
      [] n \in {"trace", "summary"} -> Traces(a)
      [] n = "quality" -> Report(a).quality
      [] n = "markdown" -> Absent
      [] n = "manifest" -> Listing(Entries \ {"manifest", "checksums"})
      [] n = "checksums" -> Listing(Entries \ {"checksums"})
      [] OTHER -> Frames(runs[a][1])[n]

(* Mutation of Order: the summary for readers is written after the manifest. *)
OrderMarkdownLast(a) ==
    IF Report(a).passed
    THEN <<"report", "trace", "summary", "quality", Primary, Validation,
           "manifest", "markdown", "checksums">>
    ELSE <<"report", "trace", "summary", "quality", "manifest", "markdown", "checksums">>

Order(a) ==
    IF Report(a).passed
    THEN <<"report", "trace", "summary", "quality", Primary, Validation,
           "markdown", "manifest", "checksums">>
    ELSE <<"report", "trace", "summary", "quality", "markdown", "manifest", "checksums">>
-----------------------------------------------------------------------------
(* The validator, over the files of a directory. *)

(* _validate_trace: the telemetry of one fetch adds up. *)
Accounted(t) ==
    /\ t.cursors = t.calls
    /\ t.calls = t.pages + t.retries
    /\ t.kept = t.raw - t.removed

TraceAgrees(d) ==
    LET report == d["report"].body
        traces == d["trace"].body
    IN  /\ d["summary"].body = traces
        /\ traces[1] = report.counts
        /\ \A i \in 1 .. 2, v \in Venues :
              /\ Accounted(traces[i][v])
              /\ report.passed => ~traces[i][v].failed
              /\ report.passed /\ ~report.fixture => traces[i][v].raw > 0
        /\ report.passed => \A v \in Venues : traces[1][v].kept = report.rows[v]

(* _validate_parquet: a file holds the rows, the hash and the coverage the  *)
(* report claims for the first run.                                         *)
FileAgrees(d, v) ==
    LET report == d["report"].body
    IN  /\ d[v].whole
        /\ Rows(d[v].body) = report.rows[v]
        /\ Covered(d[v].body)
        /\ d[v].body = report.hashes[1][v]

(* The gates, recomputed from both files.                                   *)
FramesAgree(d) ==
    LET report == d["report"].body
        frames == [v \in Venues |-> d[v].body]
    IN  /\ \A v \in Venues : FileAgrees(d, v)
        /\ Aligned(frames) /\ Close(frames)
        /\ report.coverage /\ report.quality /\ report.alignment /\ report.divergence

(* Idempotency is recomputed from the hashes, the other gates are claimed   *)
(* where there are no frames to recompute them from.                        *)
Idempotent(report) == SameRows(report.hashes[1], report.hashes[2])

VerdictAgrees(d) ==
    LET report == d["report"].body
        idempotency == Idempotent(report)
        gates == /\ report.coverage /\ report.quality
                 /\ report.alignment /\ report.divergence
                 /\ idempotency /\ ~report.failure
                 /\ \A v \in Venues : report.rows[v] > 0
                 /\ report.fixture \/ report.live
    IN  /\ report.idempotency = idempotency
        /\ ~(report.fixture /\ report.live)
        /\ report.passed => d["quality"].body
        /\ report.passed = gates

(* Mutation of Sealed: the listings are compared by name only. *)
SealedByName(d) ==
    /\ Present(d) = Base \cup (IF d["report"].body.passed THEN Venues ELSE {})
    /\ DOMAIN d["manifest"].body = Present(d) \ {"manifest", "checksums"}
    /\ DOMAIN d["checksums"].body = Present(d) \ {"checksums"}

(* _validate_file_integrity: the exact files, as the manifest and the       *)
(* checksums list them.                                                     *)
Sealed(d) ==
    /\ Present(d) = Base \cup (IF d["report"].body.passed THEN Venues ELSE {})
    /\ d["manifest"].body = [n \in Present(d) \ {"manifest", "checksums"} |-> d[n]]
    /\ d["checksums"].body = [n \in Present(d) \ {"checksums"} |-> d[n]]

(* validate_public_ingestion_report finds no problem. *)
Accepted(d) ==
    /\ \A n \in Json \cup {"checksums"} : d[n] # NoFile /\ d[n].whole
    /\ TraceAgrees(d)
    /\ VerdictAgrees(d)
    /\ d["report"].body.passed => Venues \subseteq Present(d) /\ FramesAgree(d)
    /\ Sealed(d)
-----------------------------------------------------------------------------
Init ==
    /\ dir = [n \in Entries |-> NoFile]
    /\ pc = [a \in Audits |-> "idle"]
    /\ kind \in [Audits -> Kinds]
    /\ left = [a \in Audits |-> <<>>]
    /\ runs = [a \in Audits |-> <<>>]
    /\ todo = [a \in Audits |-> <<>>]
    /\ half = [a \in Audits |-> FALSE]
    /\ latest = Absent
    /\ faults = 0

Active == {"clearing", "running", "writing"}
Ready(a) == pc[a] = "idle" /\ (Overlapping \/ \A b \in Audits : pc[b] \notin Active)

Begin(a) ==
    /\ Ready(a)
    /\ pc' = [pc EXCEPT ![a] = "clearing"]
    /\ left' = [left EXCEPT ![a] = UnlinkOrder]
    /\ latest' = a
    /\ UNCHANGED <<dir, kind, runs, todo, half, faults>>

(* The known names are unlinked one by one; nothing else is. *)
Unlink(a) ==
    /\ pc[a] = "clearing" /\ left[a] # <<>>
    /\ dir' = [dir EXCEPT ![Head(left[a])] = NoFile]
    /\ left' = [left EXCEPT ![a] = Tail(@)]
    /\ UNCHANGED <<pc, kind, runs, todo, half, latest, faults>>

Cleared(a) ==
    /\ pc[a] = "clearing" /\ left[a] = <<>>
    /\ pc' = [pc EXCEPT ![a] = "running"]
    /\ UNCHANGED <<dir, kind, left, runs, todo, half, latest, faults>>

(* _run_once. *)
Run(a) ==
    /\ pc[a] = "running" /\ Len(runs[a]) < 2
    /\ \E s \in Served : \E r \in Outcomes(s) \cup Interrupted(s) :
          /\ runs' = [runs EXCEPT ![a] = Append(@, r)]
          /\ faults' = IF Returned(r) THEN faults ELSE faults + 1
          /\ faults' <= MaxFaults
    /\ UNCHANGED <<dir, pc, kind, left, todo, half, latest>>

Judge(a) ==
    /\ pc[a] = "running" /\ Len(runs[a]) = 2
    /\ pc' = [pc EXCEPT ![a] = "writing"]
    /\ todo' = [todo EXCEPT ![a] = Order(a)]
    /\ UNCHANGED <<dir, kind, left, runs, half, latest, faults>>

(* atomic_write_json fills a temporary file first; a text or a copy is      *)
(* visible, and not whole, while it is written.                             *)
StartWrite(a) ==
    /\ pc[a] = "writing" /\ todo[a] # <<>> /\ ~half[a]
    /\ LET n == Head(todo[a])
       IN  dir' = [dir EXCEPT ![IF n \in Json THEN a ELSE n] =
                      [by |-> a, whole |-> FALSE, body |-> Body(a, n)]]
    /\ half' = [half EXCEPT ![a] = TRUE]
    /\ UNCHANGED <<pc, kind, left, runs, todo, latest, faults>>

FinishWrite(a) ==
    /\ pc[a] = "writing" /\ half[a]
    /\ LET n == Head(todo[a])
       IN  dir' = IF n \in Json
                  THEN [dir EXCEPT ![a] = NoFile, ![n] = [dir[a] EXCEPT !.whole = TRUE]]
                  ELSE IF dir[n] # NoFile /\ dir[n].by = a THEN [dir EXCEPT ![n].whole = TRUE]
                  ELSE dir
    /\ half' = [half EXCEPT ![a] = FALSE]
    /\ todo' = [todo EXCEPT ![a] = Tail(@)]
    /\ UNCHANGED <<pc, kind, left, runs, latest, faults>>

Return(a) ==
    /\ pc[a] = "writing" /\ todo[a] = <<>>
    /\ pc' = [pc EXCEPT ![a] = "done"]
    /\ UNCHANGED <<dir, kind, left, runs, todo, half, latest, faults>>

(* A kill at any point leaves everything as it is. *)
Kill(a) ==
    /\ pc[a] \in Active /\ faults < MaxFaults
    /\ pc' = [pc EXCEPT ![a] = "dead"]
    /\ faults' = faults + 1
    /\ UNCHANGED <<dir, kind, left, runs, todo, half, latest>>

(* An exception no one catches; atomic_write_json unlinks its file.         *)
Raise(a) ==
    /\ pc[a] \in Active /\ faults < MaxFaults
    /\ pc' = [pc EXCEPT ![a] = "dead"]
    /\ dir' = [dir EXCEPT ![a] = NoFile]
    /\ faults' = faults + 1
    /\ UNCHANGED <<kind, left, runs, todo, half, latest>>

(* Evidence at rest is damaged. *)
Damage(n) ==
    /\ \A a \in Audits : pc[a] \notin Active
    /\ dir[n] # NoFile /\ dir[n].whole /\ faults < MaxFaults
    /\ dir' = [dir EXCEPT ![n].whole = FALSE]
    /\ faults' = faults + 1
    /\ UNCHANGED <<pc, kind, left, runs, todo, half, latest>>

Next ==
    \/ \E a \in Audits : \/ Begin(a) \/ Unlink(a) \/ Cleared(a) \/ Run(a) \/ Judge(a)
                         \/ StartWrite(a) \/ FinishWrite(a) \/ Return(a)
                         \/ Kill(a) \/ Raise(a)
    \/ \E n \in Artifacts : Damage(n)

Spec == Init /\ [][Next]_vars
-----------------------------------------------------------------------------
(* Audits of a directory that follow one another never mix their evidence:  *)
(* what the validator accepts was written, undamaged and whole, by one      *)
(* audit, whatever earlier audits left and wherever they were killed.       *)
AcceptedIsOneAudit ==
    ~Overlapping /\ Accepted(dir) =>
        \E a \in Audits : \A n \in Present(dir) : dir[n].by = a /\ dir[n].whole

(* An accepted pass was earned: both ingestions of the audit committed the  *)
(* same complete window of both venues, and the Parquet files hold it,      *)
(* even if audits wrote into the directory at the same time.                *)
AcceptedPassIsEarned ==
    Accepted(dir) /\ dir["report"].body.passed =>
        LET a == dir["report"].by
        IN  /\ \A i \in 1 .. 2 : runs[a][i].ended = "committed"
            /\ \A v \in Venues :
                  /\ runs[a][1].served[v] = runs[a][2].served[v]
                  /\ runs[a][1].served[v].from = Start /\ runs[a][1].served[v].to = End
                  /\ dir[v].body = runs[a][1].served[v]
                  /\ dir["trace"].body[1][v].kept = End - Start

(* The accounting of the validator refuses a fetch whose last attempt       *)
(* failed, being neither page nor retry, one that raised with rows kept,    *)
(* which were never normalized, and a plain one that returned.              *)
Unaccounted(a) ==
    \E i \in 1 .. 2, v \in Venues :
        IF kind[a] = "plain" THEN runs[a][i].fetched[v] = "returned"
        ELSE runs[a][i].fetched[v] \in {"spent", "cut"}

(* Both runs left the same rows, but not both said so. *)
HalfCommitted(a) ==
    /\ SameRows(Frames(runs[a][1]), Frames(runs[a][2]))
    /\ "late" \in {runs[a][1].ended, runs[a][2].ended}

(* The evidence of an audit that finished validates, passed or not, however *)
(* many audits used the directory before, except in exactly three cases: a  *)
(* killed audit left a temporary file, telemetry does not add up (which     *)
(* that of a cursor stuck on its first page does), or a run failed after it *)
(* published.                                                               *)
HonestEvidenceValidates ==
    \A a \in Audits :
        /\ ~Overlapping /\ pc[a] = "done" /\ latest = a
        /\ \A n \in Artifacts \cap Present(dir) : dir[n].whole
        => (Accepted(dir) <=>
                /\ Present(dir) \cap Audits = {}
                /\ ~Unaccounted(a) /\ ~HalfCommitted(a))
-----------------------------------------------------------------------------
(* The inductive invariant. *)

AllRuns == UNION {Outcomes(s) \cup Interrupted(s) : s \in Served}
File(f) ==
    /\ f = [by |-> f.by, whole |-> f.whole, body |-> f.body]
    /\ f.by \in Audits /\ f.whole \in BOOLEAN

(* Every variable keeps its type. *)
TypeOK ==
    /\ dir = [n \in Entries |-> dir[n]]
    /\ \A n \in Entries : dir[n] = NoFile \/ File(dir[n])
    /\ pc \in [Audits -> {"idle", "clearing", "running", "writing", "done", "dead"}]
    /\ kind \in [Audits -> Kinds]
    /\ left \in [Audits -> Seq(Artifacts)] /\ todo \in [Audits -> Seq(Artifacts)]
    /\ runs \in [Audits -> Seq(AllRuns)]
    /\ half \in [Audits -> BOOLEAN]

(* An audit writes when both runs ended, into a temporary file of its own. *)
WritesOwn ==
    \A a \in Audits :
        /\ pc[a] = "writing" => Len(runs[a]) = 2
        /\ pc[a] \in {"idle", "clearing", "running"} => ~half[a]
        /\ half[a] => todo[a] # <<>>
        /\ half[a] /\ pc[a] = "writing" /\ Head(todo[a]) \in Json =>
              File(dir[a]) /\ dir[a].by = a
        /\ half[a] /\ pc[a] = "writing" /\ Head(todo[a]) = "report" => dir[a].body = Report(a)

(* The report in the directory is what its audit found. *)
ReportIsGenuine ==
    dir["report"] # NoFile =>
        LET a == dir["report"].by
        IN  Len(runs[a]) = 2 /\ dir["report"].body = Report(a)

(* Without overlap one audit is active, it has unlinked what was there, and *)
(* what it finds listed in its checksums is its own.                        *)
OneAtATime == \A a, b \in Audits : pc[a] \in Active /\ pc[b] \in Active => a = b
OldIsUnlinked ==
    \A a \in Audits, n \in Artifacts :
        dir[n] # NoFile =>
            /\ pc[a] = "clearing" => n \in {left[a][i] : i \in DOMAIN left[a]}
            /\ pc[a] # "running"
            /\ pc[a] = "writing" =>
                  dir[n].by = a /\ (dir[n].whole \/ (half[a] /\ n = Head(todo[a])))
ListedIsOwn ==
    dir["checksums"] # NoFile =>
        \A n \in Artifacts \cap DOMAIN dir["checksums"].body :
            /\ dir["checksums"].body[n].by = dir["checksums"].by
            /\ dir["checksums"].body[n].whole

(* The evidence of the audit that began last, once it is writing: how far   *)
(* it is in its order, and the file each name it began is in.               *)
Holds(a) == latest = a /\ pc[a] \in {"writing", "done"}
Evidence(a) == Base \cup (IF Report(a).passed THEN Venues ELSE {})
Finished(a) == Len(Order(a)) - Len(todo[a])
Written(a) == {Order(a)[i] : i \in 1 .. Finished(a)}
Begun(a) == Written(a) \cup {n \in Artifacts : half[a] /\ n = Head(todo[a])}
Filing(a, n) == IF n \in Json \ Written(a) THEN dir[a] ELSE dir[n]

(* A temporary file is that of a write under way or of a killed audit.      *)
TempsAreOwn ==
    \A a \in Audits : dir[a] # NoFile =>
        \/ pc[a] = "dead"
        \/ pc[a] = "writing" /\ half[a] /\ Head(todo[a]) \in Json
LatestIsActive == \A a \in Audits : pc[a] \in Active => latest = a

(* It writes in its order, and what is there is what it began.              *)
InOrder(a) ==
    /\ Len(runs[a]) = 2
    /\ Finished(a) >= 0
    /\ \A i \in 1 .. Len(todo[a]) : todo[a][i] = Order(a)[Finished(a) + i]
    /\ pc[a] = "done" => todo[a] = <<>>
    /\ \A n \in Artifacts :
          dir[n] # NoFile <=> n \in Begun(a) /\ (n \in Json => n \in Written(a))

(* What it wrote is what it found, and its two listings list the other      *)
(* files as they still are, unless they were damaged since or an earlier    *)
(* audit left a temporary file.                                             *)
Listings == {"manifest", "checksums"}
Scope(a, n) == Evidence(a) \ (IF n = "manifest" THEN Listings ELSE {"checksums"})
Foreign(a) == \E b \in Audits : b # a /\ dir[b] # NoFile
AsFound(a) ==
    /\ \A n \in Begun(a) \ Listings : Filing(a, n).body = Body(a, n)
    /\ \A n \in Begun(a) \cap Listings :
          (\A m \in Scope(a, n) : dir[m].whole) /\ ~Foreign(a) =>
              Filing(a, n).body = [m \in Scope(a, n) |-> dir[m]]

IInv ==
    /\ TypeOK /\ WritesOwn /\ ReportIsGenuine /\ TempsAreOwn
    /\ ~Overlapping => OneAtATime /\ OldIsUnlinked /\ ListedIsOwn /\ LatestIsActive
                       /\ \A a \in Audits : Holds(a) => InOrder(a) /\ AsFound(a)
=============================================================================
