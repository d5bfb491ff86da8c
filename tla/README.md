# ARES engine: TLA+ models, checks and proofs

ARES is a research engine for one market symbol: it ingests candles from
several venues, searches and trains candidate models, judges them, promotes a
champion and emits paper signals. It places no orders. Almost all of its
state is files, shared by processes that start on a timer or by hand, race,
fail and are killed. That is what these modules model: who may replace which
file, under which lock, after which checks, and what is left when a process
dies in between. Numerical work (features, models, metrics) appears as a
nondeterministic verdict, except for the ledger of the backtest, which is exact.

## Inventory

| component | state | operations | used by |
|---|---|---|---|
| market store, `data/storage.py` | `snapshots/<generation>/`, the `CURRENT` pointer | create, verify, publish, clean up, capture, read | ingestion, every reader |
| ingestion, `data/ingest.py` | `.ares-ingest.lock`, rejected reports | one locked job: recover, capture, fetch and merge each venue, judge, create, publish | scheduler, CLI |
| venue providers, `data/providers.py` | cursor, telemetry | paginated fetch with retries | ingestion |
| quality gates, `data/quality.py` | none | judge one frame, or two venues | ingestion, validation, replay, paper |
| search, `search.py` | Optuna study, `best_*.json` | run trials, select the best that passed | holdout, deep cycle, CLI |
| locked holdout, `holdout.py` | `commitment.json`, `final_report.json`, `.holdout.lock` | commit, search, consume, evaluate once, report | CLI |
| walk-forward, `validation.py`, `dataset.py`, `labels.py`, `features.py`, `models.py` | none | split, label, fit, score, gate | search, training, holdout, replay |
| backtest, `backtest.py` | a ledger, bar by bar | signals, delayed positions, costs, equity, drawdown, metrics | walk-forward, replay, holdout |
| training and bundles, `training.py`, `bundles.py` | `artifacts/<bundle>/` | train, export by one rename, verify, load | replay, promotion, paper |
| replay, `replay.py` | `artifacts/replays/<bundle>.json` | replay unseen bars, write and validate the report | deep cycle, promotion |
| promotion, `promotion.py` | `champion.json`, `last_promotion_decision.json`, `.ares-promotion.lock` | verify, judge, decide, publish, resolve | deep cycle, paper, CLI |
| scheduler, `scheduler.py` | `.ares-cycle.lock` | quick cycle: ingest, infer; deep cycle: ingest, search, validate, prepare, promote; both on intervals | APScheduler, CLI |
| paper inference, `live.py` | `paper/signals.jsonl` and its lock | load a bundle, capture a generation, gate the feeds, infer, append | quick cycle, CLI |
| public audit, `public_audit.py` | an evidence directory: report, traces, summary, quality, Parquet copies, manifest, checksums | ingest twice in isolated storage, judge, write the evidence file by file; reopen and validate it | scripts |

The components interact through files and fail-fast `FileLock`s: a lock that is
taken raises at once, and the operating system frees the lock of a dead
process. Documents are replaced atomically (`utils.atomic_write_json`,
`os.replace`). Nothing undoes a write after a crash, so each component relies
on the order of its writes and on verification by the next reader.

What makes each component correct, and what is hard about it:

- **Store and ingestion.** A reader sees one published generation whole. No
  candle of a committed ingestion is lost to a concurrent one. Crashes leave
  rubble that goes away, and cleanup never removes what someone needs. Hard:
  cleanup decides by verification, readers take no lock, jobs die anywhere.
- **Holdout and search.** The final bars are looked at once per destination,
  for the committed configuration, also across crashes and reruns. Hard:
  three writes that a kill can separate, and a study shared by destinations.
- **Bundles, replay, promotion.** The champion passed its gates, has its own
  passing replay and beats its predecessor. Hard: many reads of the same
  files at different times, and two writes (decision, pointer).
- **Scheduler, paper.** A cycle uses one generation and one champion, and logs what it
  used. Hard: both may be replaced, and bundles rewritten, by other processes meanwhile.
- **Backtest.** No position knows the future, costs never help, no decline is hidden,
  bankruptcy is final. Hard: shifts and slices by one, at the boundaries of a ledger.
- **Public audit.** The validator accepts what one audit honestly wrote and nothing
  else. Hard: the directory is reused, audits die anywhere, and the verdict is computed
  twice, from results and from files.
- **Providers, quality, validation.** No candle is skipped or repeated; no
  label crosses from validation into training. Hard: boundaries and
  adversarial pages, and units that differ: purges count samples, labels count bars.
  These are pure or sequential.

`PROJECT.json` lists the components with their status, and the hazards with
their lines and the properties that watch them.

## Modules

| module | role |
|---|---|
| `AtomicCanon` | abstract: one register replaced atomically by its successors, readers that capture it once |
| `GenerationStore` | the market store under ingestion jobs and readers |
| `GenerationStoreProofs` | its inductive invariant, its safety properties, and that it implements `AtomicCanon` |
| `OneShot` | abstract: per destination spend once, look once, conclude once |
| `LockedHoldout` | `run_locked_holdout` with `run_search` and the shared study inside |
| `LockedHoldoutProofs` | its inductive invariant, its safety properties, and that it implements `OneShot` |
| `Promotion` | training, replay and promotion up to the champion pointer |
| `PromotionProofs` | its inductive invariant and its safety properties |
| `Pagination` | `fetch_range`: one paged fetch from an exchange that may answer anything, with its telemetry |
| `PaginationProofs` | its inductive invariant and its safety properties |
| `Partitions` | samples, purged folds, replay and holdout windows of one frame |
| `PartitionsProofs` | its inductive invariant and its safety properties |
| `MarketHistory` | the candles each venue's history holds as ingestions follow one another in time |
| `MarketHistoryProofs` | its inductive invariant, its safety properties, and what can keep an ingestion from passing its gates |
| `Backtest` | `run_backtest` on several ledgers over the same bars, in exact integers |
| `AuditEvidence` | `run_public_ingestion_audit` and its validator on one directory |
| `AuditEvidenceProofs` | its inductive invariant and its safety properties |
| `PaperCycles` | quick and deep cycles, paper inference, training and their commands, composed |
| `SignalProofs` | the inductive invariants and the safety properties of `Backtest` and of `PaperCycles` |
| `MC*` | instances for TLC: symmetry sets and the maps from destinations to studies |

A definition called a *mutation* or a *plausible error* in its comment is not part of a specification.
It is a plausible bug that a property must notice; `PROJECT.json` pairs each
property with one.

### GenerationStore

`current` is `CURRENT`; `present`, `files`, `sealed`, `prev` and `merged` are
the generation directories, their artifacts, their read-only bits and what the
manifests say. `rotten` marks directories with a file that no longer has its
checksum. A job walks `locked`, `cleaning`, `fetching`, `writing`,
`publishing`, `swapping`, `published`:

| action | code |
|---|---|
| `Start` | `ingest_market_data` takes the lock |
| `Scan`, `Unlink`, `RemoveDirectory`, `RemoveRefused` | `cleanup_abandoned_generations`, with `rmtree` file by file |
| `Capture`, `PointerBroken` | `current_generation` for the whole job |
| `FetchVenue`, `Reject` | read, fetch, merge and judge one venue; a provider or gate that gives up |
| `CreateGeneration`, `Write`, `Seal`, `VerifyFailed` | `create_generation`, artifact by artifact in its order |
| `PreparePointer`, `SwapPointer`, `Return` | `publish_generation` |
| `Exception`, `Kill` | an error with its `finally` clauses, or a process that just stops |
| `ReadPointer`, `VerifyView`, `ReadVenue`, `Finish` | an operation that captures a generation and reads venues from it |
| `Rot` | the disk |

A frame is abstracted to the generation it was merged onto, which is what lost
updates and mixed views are about. The scan verifies all directories in one
step: under the lock nobody else creates or publishes any, and a directory that
rots later is scanned by the next job. Verification and `chmod` of a finished
generation are one step too; a kill between them leaves a complete, writable,
unpublished directory, as a kill before `Seal` does here.

### LockedHoldout

One action per program point of `run_locked_holdout`: `Begin` (lock),
`Refuse`/`Commit`, the search (`BeginTrial`, `EndTrial`, `Choose`, `NoWinner`,
`Select`), `RefuseSearch` (the checks after it), `StartEvaluation`
(consume on disk), `Evaluate`, `MarkFailed`, `WriteReport`, `Complete`, and
`Stop` for kills and I/O errors. A configuration is the trial it came from. The
study is a variable of its own because Optuna names it by the research data,
not by the destination: `StudyOf` says which destinations share one.
`looks` and `abandoned` are history variables the properties need.

### Promotion

`Train` (a candidate that passed, exported by one rename), `WriteReport`,
`EndPreparation`, then under the lock `VerifyChallenger`, `JudgeReplay`,
`HashReplay`, `ResolveIncumbent`, `Approve`/`Reject`, `Recheck`, `Publish`, with
`Refuse` for every check that raises. A run enters by `PromotePrepared` (deep
cycle) or `PromoteChosen` (an operator names any bundle and any report). Each
read of a file is a step of its own and `GoBad` can come between any two. A
pointer records the hash as `"intact"` or `"bad"`: whether the bytes hashed were
those that were validated. `changes` is an auxiliary variable the code does not have: it notes at which point a run
was that promotes an artifact when the artifact went bad, so that `ChampionQualified` can say in exactly which two windows a
change is not noticed: between the two reads of the report (`promotion.py:192-194`) and after the recheck
(203-210). A mutant without the recheck breaks it. `gates.require_recent_replay` is true, as in the shipped
configurations, so a report is always supplied.

### Pagination

`fetch_range` as a loop over attempts and pages: `Fail` and `GiveUp` (an attempt
that fails, with a retry left or not), `EmptyPage`, `FullPage` and `StalledPage` (an
answer with rows that moves the cursor or does not), `Normalize` (deduplicate and
return). `cursor`, `page` and `attempt` are the loop's; `rows` the usable rows so far;
`count` and `cursors` are `FetchTelemetry`. Rows carry their page and a copy number, so
that the same candle from two pages, or twice in one, is two rows, as it is in the
code's list; a page repeats a row at most once. The sort before `drop_duplicates` is not stable, so
which of the repeated rows survives is a choice. The exchange is external: `Batches` is
everything it may answer within `MaxRows`. `market` is what it really has, and
`honest` remembers whether its answers showed it: each page all candles from
the cursor up to its latest row, an empty page only when none are left. `Accounted` is what the public
audit demands of a trace (`public_audit.py:835-874`), also of a call that raised: `EvidenceAddsUp` says which of those meet it. The HTTP hook that counts requests is left out.

### Partitions

Candles are row numbers and a sample is the row its window of features ends in. `kind` says
what the frame is for: `research` (search, validate or train on all of it), `replay`
(`prepare_replayed_challenger`) or `holdout` (`run_locked_holdout`).

| action | code |
|---|---|
| `UseAll`, `SplitReplayWindow`, `PartitionHoldout`, `RefuseFrame` | what is reserved before any search or fit |
| `Sample`, `Skip`, `Built` | `build_supervised_dataset` row by row; `Skip` is a window that starts too early or is not finite |
| `Trial`, `Keep`, `GiveUp` | the configuration to validate: one of the search, or the base one |
| `TooFew`, `StartSplit`, `NextFold`, `FailFold`, `EndSplit`, `Fail` | `walk_forward_validate` |
| `Train`, `Replay` | `train_candidate` notes its latest sample, `replay_bundle` takes what lies after it |
| `Open`, `Evaluate`, `RefuseJudgement` | the frozen configuration on training, early stopping and holdout samples |

Which labels exist, which classes a fold has, what is fitted and which gates pass are
choices. The code builds the dataset several times over the same research rows and once over
the whole frame; since features look backwards only, the samples of the research rows are the
same each time, and the model builds them once and continues. `lookback_bars` is a
constant although a trial may choose it: it only shifts the first sample. The frame is
fixed: an operation captures one generation (`GenerationStore`), and within a
generation history is not revised.

### MarketHistory

One storage root over many ingestions. Candles are numbers on the timeframe's grid: candle `now` is
in progress, all earlier ones are closed, and every instant lies inside a candle. `candles` is the canonical history of each venue; `partial` are
those of its candles that were fetched in progress, so that their values are not final. `Tick` closes a
candle at any point of a job.

| action | code |
|---|---|
| `Start` | take the lock, capture the generation, note `generated_at` |
| `Answer` | resume point and `fetch_range` of one venue: what it serves of what is wanted |
| `Keep` | filter open candles, merge, `validate_ohlcv` |
| `Publish`, `Reject`, `RefuseValues` | `validate_cross_venue`, and the verdict of all reports |
| `Abandon` | an error or a kill: the histories stay as they are |

The request ends at the clock of its start (`providers.py:190`), a venue serves its `Depth` newest candles and
may leave out the one in progress, and a bounded number of closed ones get lost. The sort of
`merge_market` is not stable, so of a candle in both frames either survives. Gates that look at times
(`Whole`, `Fresh`, `Agrees`) are computed; those that look at values are a choice. That a job is serial and its publication
atomic is shown by `GenerationStore`, that a fetch returns what the venue served by `Pagination`. `data.until` is
not set, as in the running service. `drop_open_candle` is `TRUE` in the runs; the theorems hold for both values.

### Backtest

Several ledgers (`Ledgers`) run over the same returns, each with the probabilities of a
model and a cost multiplier of its own, so that properties can compare two models or two
cost levels. `Settle` is one row of every column and one turn of the equity loop of `run_backtest`: signal, shifted
position, turnover, cost, raw return, equity, bankruptcy, peak and drawdown. Amounts are exact
integers: a return or a cost counts units of `1/Unit`, an equity after `n` bars units of
`1/Unit^n`, and ratios are compared by cross-multiplication. The peak starts at the initial
capital, as the code's clip demands; with a delay of at least one (`config.py:149`) the first bar is flat, so that the
clip changes nothing. `EvaluatedToTheEnd`, `PositionEarly` and the like are mutations. Sharpe, the annualised
return and hit rates, which are statistics of the same columns, are left out, and so is floating-point rounding.

### AuditEvidence

| action | code |
|---|---|
| `Begin`, `Unlink`, `Cleared` | the known artifacts of an earlier audit are unlinked one by one |
| `Run` | `_run_once`, twice, in storage of its own: what the venues answer and how it ends |
| `Judge` | the verdict over both runs, gate by gate |
| `StartWrite`, `FinishWrite` | one artifact; a JSON document through a temporary file, the others in place |
| `Return`, `Raise`, `Kill` | the end of an audit; only an exception removes its temporary file |
| `Damage` | a file of evidence at rest changes |
| `Accepted` | `validate_public_ingestion_report` finds no problem |

A history is the range of candles a venue served and a price level, which is what coverage,
alignment and divergence tell apart; a hash of a file is the file. Providers are `live`,
`wire` (a transport of fixtures with telemetry) or `plain` (fixtures without). A fetch may raise before
a call (`early`), after its retries (`spent`), on a cursor that does not advance while no row was kept (`stuck`), or there or
at the page limit with rows kept of earlier pages (`cut`). `Measured` is what `fetch_range` then leaves in the trace: the
rows of a page that does not advance the cursor all lie before it and are counted as overlapping before the fetch
raises (`providers.py:246-253`), so `stuck` adds up; kept rows count as normalized only when the fetch returns, so `cut` does not.
The numbers stand for any number of pages and rows: `Pagination` has them one by one, and its `EvidenceAddsUp` is the same distinction there. The validator's operators follow its functions: `TraceAgrees`,
`FileAgrees`, `FramesAgree`, `VerdictAgrees`, `Sealed`. With `Overlapping` audits may use the directory at the same time.
Checks on the text of fields (schemas, hosts, malformed hashes) are left out: nothing that an audit writes fails them. So are the
four pages of a live pass (`public_audit.py:899`): the arguments of a live audit demand a window of at least four page
limits (397), and a venue that answers with more rows than the limit is not modelled here.

### PaperCycles

| action | code |
|---|---|
| `Start` | `quick_cycle` and `deep_cycle` under `.ares-cycle.lock`, or raise; `ares paper`, `ares train` |
| `Ingest` | `ingest_market_data` committed |
| `Resolve`, `Choose` | `resolve_champion`, or the bundle of `--bundle` |
| `Capture`, `PrimaryFrame` | `current_generation` once, and all frames from it |
| `OpenManifest`, `Verify`, `Copy` | `load_bundle`: read the manifest, hash in place, copy and hash again |
| `Infer`, `LockLog`, `AppendEntry` | the gates and the model, the manifest's hash, the lock and the line of the log |
| `Export`, `Rename` | `export_bundle`: the check of the name, and the rename |
| `Promote` | `prepare_replayed_challenger` and `promote` at the end of a deep cycle |
| `Raise` | any exception or kill: all locks become free |
| `OtherIngest`, `OtherPromote`, `Rewrite` | `ares ingest`, `ares promote` and a writer of bundle files, which take no cycle lock |

Bytes are versions: each export writes a fresh one, and a file is as the manifest says when both
have the same. What other modules show is one step here: an ingestion, a promotion, the
verification of a champion. Gates are a choice: one that fails is a `Raise`. Two exports within a second get
the same name, so `Names` is small. A process that does not get the lock of the log loses its signal. The
flat storage layout of before the first generation is not modelled: a capture without `CURRENT` ends the operation.

## Runs

| run | shows | bounds |
|---|---|---|
| `store_safety` | complete, linear, never torn publications; cleanup removes only rubble | 2 venues, 2 jobs, 1 reader, 3 generations, 2 interruptions, 1 fault |
| `store_live` | the store implements `AtomicCanon`; ingestion goes on, begun generations are published, rubble goes | 2 venues, 2 jobs, 1 reader, 3 generations, 1 interruption |
| `holdout` | one look, honest reports, passing winners; implements `OneShot`; runs end and record a verdict | 2 processes, 2 destinations with one study, 2 trials, 2 scores, 2 stops |
| `promotion` | qualified, improving champions, whose bytes are those judged but for two windows; decisions take effect; the lock is always freed | 2 processes, 2 bundles, 2 scores, 1 kill, 1 fault |
| `pagination` | no candle twice or lost; telemetry adds up for every call that returned, and for which that raised | 5 timestamps, 2 of them candles in range, 3 rows a page, 3 pages, 1 retry |
| `partitions` | folds are purged, the bar minimum is exact, replay and holdout windows were never fitted on | frames of up to 14 bars, 2 horizons, 2 folds, 3 embargoes |
| `history` | histories only grow, unfinished values enter only at a candle's boundary, ingestion catches up unless a venue is out of reach | 2 venues, 6 candles, a validator that serves 2, 1 forgiven gap, 1 fault |
| `backtest` | no lookahead, stress is stress, every decline shows, bankruptcy is final | 2 ledgers, 4 bars, 3 returns, 3 probabilities, 2 multipliers, delay 1 |
| `audit` | the validator accepts the undamaged evidence of one audit, earned if it passed, and nothing else, with three named exceptions | 2 audits one after another, 4 sets of answers, a window of 3 bars, 3 kinds of providers, 1 retry, 1 fault |
| `paper` | signals come from one bundle, advance, and name what they used; deep cycles promote their own; the cycle lock is freed | 2 processes, 2 names, 2 files and a manifest, 2 operations, 1 other ingestion, 1 rewritten file |
| `history_open` | **violated**: no unfinished values in a history | 2 venues, 5 candles, no fault |
| `history_outage` | **violated**: ingestion always catches up | 2 venues, 6 candles, no forgiven gap, no fault |

Why these bounds are enough to be interesting: two venues are the least that
can mix; three generations let an abandoned one, a published one and one under
construction exist together; two interruptions (`store_safety`) let the recovery of a crash crash;
two destinations on one study are the least that can overwrite each other's
selection; two bundles are a champion and its challenger, and two processes the
least that can race for the pointer. In `pagination` the timestamps lie before the range,
on its two candles, off the grid and at its end, and three pages let one overlap,
one stall and one hit the limit. In
`partitions` 14 bars leave room for two folds with gaps between their samples, for a reserved replay
window behind a full split, and for a holdout with its embargo; every shorter frame, down to
none, is an initial state too. In `history` six candles are
enough for a first publication, an outage longer than the validator's two candles, and a return. In `backtest` four bars are a flat one, an entry, a reversal and
one after a ruin, and the returns ruin a long position under stress and a short one at any costs. In `audit` the answers
pass, diverge in price, start late on one venue, and overlap too little while they diverge. In `paper` two operations can be two cycles that follow one another, a
cycle beside a training that wants the same name, or a cycle beside a command. The bounds `MaxInterrupts`, `MaxStops`, `MaxFaults`, `MaxNow`, `MaxBars`, `MaxStarts`, `MaxOthers`, `MaxRewrites` and
`NTrials`, and the finite name sets (generation identities and bundle names are never
reused), are in guards of the actions. The promotion runs switch off the
deadlock check because all bundle names are eventually used up, `partitions`, `audit` and `backtest` because
their programs end, and `paper` because the operations begun are bounded. Symmetry is used
only in runs without liveness.

### Fairness

`GenerationStore!Fairness`: the scheduler fires on an interval, so some job starts
whenever the lock stays free, and a started job is run until it ends. Crashes and
readers are never fair. `LockedHoldout` and `Promotion` assume only that a started
process is scheduled: nobody has to start a run, prepare a bundle or choose one.
`MarketHistory!Fairness` is that of the scheduler again: jobs start and are run on. Time, lost candles, errors
and kills are bounded and never fair. `PaperCycles` assumes that a process that runs an operation goes on with it; that an
operation begins, and that it fails, is never assumed.
A `FileLock` of a dead process is released by the operating system in each model
(`Kill`, `Stop`).

### Where code and documents disagree

1. `tests/test_ccxt_wire_ingestion.py:283`: a candle served in progress must never reach
   canonical storage. The filter reads the clock after the fetch (`ingest.py:72`, `:145`), so a candle that
   closes in between passes with values from before its close, and a resumed ingestion does not ask
   for it again. Run `history_open`. `PartialOnlyAtBoundary` (proved) says that this is the only way in.
2. `ingest.py:159-163`: a validator's capped history should not make ingestion
   permanently impossible. It does not prevent the first publication; but the merged frame of a validator keeps its old rows and
   is held to `max_gap_count`, so an outage longer than the validator's history leaves a gap that no
   later answer fills, and every ingestion is rejected from then on. Run `history_outage`. In every
   other case ingestion catches up (`StuckOnlyOutOfReach`).

Others were seen while modelling and have no run:

- `README.md:49` and `docs/architecture.md:59`: readers capture once and cannot observe mixed
  venue state. An operation that captured *nothing* (it started before the first publication) passes
  `generation=None` on, and `market_path` resolves `CURRENT` again for each venue
  (`storage.py:75`). For every other reader `CapturedViewIsWhole` holds and is proved.
- `docs/research_protocol.md:31-32`: the selected trial's configuration is frozen. The number in the
  commitment is read back from the study (`holdout.py:312`), which a holdout with the same research data in another
  destination may have changed since. The configuration evaluated is still the run's own and a passing one
  (`WinnersPassed`).
- `promotion.py:201-202`: the recheck anchors the decision to the bytes the pointer names. The report is parsed first
  and hashed by a second read (`promotion.py:192-194`), so a report that changes between the two is published, and its
  new hash with it, although other bytes were judged. `ChampionQualified` says that the hash of the pointer is that of other bytes only in this case
  (`WentBadAt("judged", ...)`); the state is reachable, and without the exception TLC finds the property violated.
- The docstring of cleanup (`storage.py:405`) speaks of unpublished generations, while it removes any inactive directory that
  fails verification; what it does guarantee is `RemovesOnlyRubble`.
- `README.md:100` promises evidence that can be reopened independently, and `tests/test_public_audit_harness.py:219` that the
  honest report of a blocked endpoint validates. It does for a provider without telemetry. `HonestEvidenceValidates` names the exact cases in
  which honest evidence is refused: the accounting (`public_audit.py:835-874`) is demanded of
  fetches that raised too, for which it often cannot hold, as a last failing attempt is neither a page nor a retry and rows that were
  kept when a later page stalls or the page limit is reached are never normalized (a stall on the first page adds up, and its evidence
  validates, as `tests/test_public_audit_harness.py:181-191` expects); it is also demanded of providers without
  telemetry that returned, which note a call and no cursor; a run that fails after its pointer was replaced is not idempotent for
  the audit and is for the validator; and a killed audit leaves the temporary file of `atomic_write_json`, which no later audit unlinks, so that the
  evidence of that directory never validates again.
- Nothing keeps two audits out of one directory. What an accepted pass means does not depend on it (`EarnedPass` is proved
  for overlapping audits); `AcceptedIsOneAudit` does.
- The manifest hash of a signal is read after the inference and not taken from the load (`live.py:247`). It is that of the loaded bundle
  unless someone rewrites a bundle in place (`LoggedHashIsLoaded`), which nothing in the repository does.

## Proofs

TLAPS proves for every value of the constants what TLC checks on small ones. The
assumptions are the named `ASSUME`s of the modules: the markers for "none" are
distinct from the real values, bounds are naturals, scores are integers. Each proof
module follows one pattern: an inductive invariant `IInv` (`LedgerInv` in `Backtest`), one lemma per action with
one step per conjunct, `Init => IInv`, and the properties as consequences.

- **GenerationStore.** `PublishedStayComplete` and the others are not inductive: one
  has to know that only the lock's holder is past the lock (`Serial`), that the
  job's capture is still `CURRENT` (`CaptureFresh`), that the directory it builds is
  its own, unpublished and, once sealed, complete (`TargetOwned`), that victims of
  a cleanup are inactive and unverifiable (`DoomedIsRubble`), that readers hold
  published identities (`ReaderSound`), and that unissued identities have no trace
  (`Traces`). `LinearHistory` and `RemovesOnlyRubble` are action properties
  proved from it. `ImplementsCanon` maps every step to a step or stutter of
  `AtomicCanon` while nothing rots.
- **LockedHoldout.** `Exclusive` (lock against program point), `Progress` (what the
  disk says at each point), `Trying`, `Winning` and `Selection` (whose trial is
  running, and that what is chosen passed), `Untouched` and `Ended`. From it
  `OneInspection`, `ReportIsCommitted`, `WinnersPassed`, `NeverRevived`, and the
  refinement of `OneShot`.
- **Promotion.** `Judged` and `Prepared` (what a run established at each point), `ReportKept` (the report
  a run hashed is the one it judged, unless it changed in between), `ReplaysOfBundles`, `DecisionKept`. From it `ChampionQualified`,
  `ApprovedAgainstCurrent`, `DecisionTakesEffect` and `ChampionImproves`.
- **Pagination.** `RowsBehind` (rows lie behind the cursor, page by page) gives
  `CandlesOnce`. `CallsCounted` and `RowsCounted` are the accounting while the loop runs, over
  cardinalities of row sets, and give `EvidenceAddsUp`, for a call that raised because normalized rows are then zero and rows
  kept are not unless there are none. `MarketCovered` (honest answers leave
  nothing out behind the cursor) gives `NothingSkipped`: candles are at least a timeframe apart, so
  the cursor cannot jump over one.
- **Partitions.** `Spaced` (samples are at least as many bars apart as they are samples apart) turns the
  purge, which counts samples, into bars, and gives `FoldsPurged`. `Split` and `Covered`
  (where the folds begin, what the dataset covers) give `MinimumIsExact`. `Trained` (a bundle saw
  the samples of the research rows and only those) gives `ReplayIsReserved`: the samples past the cutoff are
  at least as many as the reserved rows they lie in, so they are all of them. `LatestApart`, a lemma about
  cardinalities, gives the early-stopping purge of `HoldoutUnseen`.
- **MarketHistory.** `InFlight` (an answer holds nothing that is stored when resuming, and what was in
  progress in it still is or was seen to close), `Stored` and `Extending` (stored and merged histories lie in the past, the merged ones
  extend the stored ones) give `PartialOnlyAtBoundary` and `HistoryOnlyGrows`. `Usable` (every
  published generation passed its gates whole) is part of the invariant. `ReachDecides` is the safety half of
  `StuckOnlyOutOfReach`: a job during which no candle closed, and which got all it asked for from venues that serve more than the
  overlap, passes every gate on times unless a venue is out of reach. The argument is about gaps:
  if each gap of the merged frame lies between two stored candles, it is a gap of the stored history and was forgiven
  before; if one has no stored candle behind it, the venue serves neither it nor anything older, and `OutOfReach` counts them all.
- **Backtest.** `PeakIsHighest`, `WorstIsDeepest` and `Solvent` (of each ledger), `StressDrawsDown` (between two) and
  the positions as a function of the signals give `EveryDeclineShows`, `StressNeverBetter`, `NoLookahead` and
  `NothingAfterBankruptcy`, by nonlinear inequalities over the integers that are lemmas of their own. `PaperAgreesWithBacktest` says that paper
  inference, which applies the two thresholds in the opposite order, makes the same signals.
- **AuditEvidence.** `WritesOwn` and `ReportIsGenuine` (the report in the directory is what its audit found) give
  `AcceptedPassIsEarned` for any overlap. `OneAtATime`, `OldIsUnlinked` and `ListedIsOwn` (without overlap, what a checksum
  list lists is of its writer) give `AcceptedIsOneAudit`. `HonestEvidenceValidates` is a converse and needs what every artifact
  holds at each point of the order they are written in: which names are begun and in what (`InOrder`), that the latest audit is the one
  running (`LatestIsActive`), that its files hold what it found and its two listings list the others as they are (`AsFound`), and that a temporary
  file belongs to a write under way or to a killed audit (`TempsAreOwn`). From these the validator's checks follow one by one, the accounting
  of the telemetry only in the cases the property names.
- **PaperCycles.** `Staged` (an operation is at a point of its kind and holds its locks exactly there), `Named` (the bundle it chose or
  exported exists and stays), `Copied` (what was copied so far is of the version that was verified) and `Undisturbed` (while nobody rewrites a
  bundle, the manifest still says what was read of it) give `SignalIsOfOnePiece`, `LoggedHashIsLoaded` and `CyclePromotesItsOwn`: none is
  inductive, as each relates an entry or a promotion to what was read several steps and other processes' actions earlier. `Advancing` (a cycle works on
  its own ingestion or a newer one, and the signals of earlier cycles are older) and `LogIsPast` give `SignalsAdvance`. `CyclesExclude` is
  the safety half of `CycleLockIsFreed`: cycles exclude each other, and the lock's holder is always a cycle under way, so no end
  leaves the lock behind.

Only model-checked: the liveness properties (`CreatedIsPublished`, `RubbleGoes`,
`IngestionKeepsRunning`, `RunsEnd`, `VerdictRecorded`, `LockIsFreed`, `StuckOnlyOutOfReach`, `CycleLockIsFreed`), which rest on
fairness and `ENABLED` and are out of the prover's reach, and the violations. Every other property of the runs is a theorem.
The type invariants are a conjunct of the inductive invariants, which are proved; the runs spend their properties on what follows from them.

## Plan

In order of weight. What exists is the core; the rest is for later.

1. `GenerationStore`, `LockedHoldout`, `Promotion` with their proofs (done).
2. `Pagination`, `Partitions` and `MarketHistory` with their proofs (done).
3. `Backtest` and `AuditEvidence` with their proofs, and `PaperCycles`, which composes bundles, cycles and paper
   inference (done).
4. The safety properties of `PaperCycles` and `HonestEvidenceValidates` as theorems, and the safety halves of `StuckOnlyOutOfReach`
   and `CycleLockIsFreed` (done).
5. `MarketHistory` as a refinement of one history per venue that only grows, and its composition with
   `GenerationStore` in place of the argument that publications are atomic.
6. Promotion with its replay inside `PaperCycles`, in place of one step.
7. `Labels` on small integer prices against a reference definition.

New runs should take the place of shallower ones: two properties of a component often fit one run, and each
of the violated ones above can give way once its code or its comment is corrected.

## Not modelled

Feature and model numerics, statistics of a backtest's columns, rendering, packaging, schemas and path hygiene (symbolic
links, hard links, traversal) are left out: nothing in them is a matter of states
and steps. Durability below `fsync`, and clocks, are outside the repository.
