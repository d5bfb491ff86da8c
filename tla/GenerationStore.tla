--------------------------- MODULE GenerationStore ---------------------------
(***************************************************************************)
(* The market store of data/storage.py under the ingestion of              *)
(* data/ingest.py: ingestion jobs serialised by a fail-fast file lock      *)
(* clean, fetch, write, verify, seal and publish immutable generations;    *)
(* readers capture CURRENT and read the venues of what they captured.      *)
(* A job can raise or be killed between any two of its steps.              *)
(***************************************************************************)
EXTENDS Naturals, FiniteSets

CONSTANTS
    Venues,         \* data.primary_exchange and data.validation_exchanges
    Jobs,           \* processes that call ingest_market_data
    Readers,        \* operations that call current_generation, then read_market
    Generations,    \* generation identities; a uuid is never issued twice
    NoGen,          \* "there is no CURRENT": None in the code
    NoJob,          \* the ingestion lock is free
    Unread,         \* a venue not read yet
    Missing,        \* the file is gone: read_market returns an empty frame
    MaxInterrupts,  \* bound: exceptions and kills in one behaviour
    MaxFaults       \* bound: generations whose bytes rot on disk

Documents == {"quality", "duckdb", "manifest"}
Artifacts == Venues \cup Documents
Source    == Generations \cup {NoGen}

ASSUME DistinctNames ==
    /\ NoGen \notin Generations
    /\ Unread \notin Source /\ Missing \notin Source /\ Unread # Missing
    /\ NoJob \notin Jobs
    /\ Venues \cap Documents = {}

ASSUME BoundsOK ==
    /\ MaxInterrupts \in Nat
    /\ MaxFaults \in Nat

VARIABLES
    current,     \* what the CURRENT pointer names
    lock,        \* who holds .ares-ingest.lock
    present,     \* generation directories that exist
    files,       \* the artifacts in each generation directory
    rotten,      \* generations with a file that no longer has its checksum
    sealed,      \* generations whose directories and files are read-only
    prev,        \* manifest metadata.previous_generation
    merged,      \* the generation each venue's frame was merged onto
    temps,       \* generations named by a .CURRENT.* temporary on disk
    pc, captured, doomed, target, fetched,  \* the jobs: program point, locals
    rpc, view, seen,                \* the readers: program point and locals
    interrupts, \* auxiliary: interruptions so far
    issued,     \* auxiliary: generation identities drawn so far
    published   \* auxiliary: generations CURRENT has named

disk    == <<present, files, rotten, sealed, prev, merged>>
jobs    == <<pc, captured, doomed, target, fetched>>
readers == <<rpc, view, seen>>
aux     == <<interrupts, issued, published>>
vars    == <<current, lock, disk, temps, jobs, readers, aux>>

Building     == {"writing", "publishing", "swapping", "published"}
JobPoints    == {"idle", "locked", "cleaning", "fetching"} \cup Building
ReaderPoints == {"idle", "verifying", "reading"}

Nothing == [v \in Venues |-> Unread]

(* Every variable has its type, and a job has a target generation exactly   *)
(* from the creation of its directory to its end.                           *)
TypeOK ==
    /\ current \in Source
    /\ lock \in Jobs \cup {NoJob}
    /\ present \subseteq Generations
    /\ files \in [Generations -> SUBSET Artifacts]
    /\ rotten \subseteq Generations
    /\ sealed \subseteq Generations
    /\ prev \in [Generations -> Source]
    /\ merged \in [Generations -> [Venues -> Source \cup {Unread}]]
    /\ temps \subseteq Generations
    /\ pc \in [Jobs -> JobPoints]
    /\ captured \in [Jobs -> Source]
    /\ doomed \in [Jobs -> SUBSET Generations]
    /\ target \in [Jobs -> Source]
    /\ fetched \in [Jobs -> [Venues -> Source \cup {Unread}]]
    /\ rpc \in [Readers -> ReaderPoints]
    /\ view \in [Readers -> Source]
    /\ seen \in [Readers -> [Venues -> Source \cup {Unread, Missing}]]
    /\ \A j \in Jobs : target[j] # NoGen <=> pc[j] \in Building
    /\ interrupts \in Nat
    /\ issued \subseteq Generations
    /\ published \subseteq Generations

Init ==
    /\ current = NoGen
    /\ lock = NoJob
    /\ present = {}
    /\ files = [g \in Generations |-> {}]
    /\ rotten = {}
    /\ sealed = {}
    /\ prev = [g \in Generations |-> NoGen]
    /\ merged = [g \in Generations |-> Nothing]
    /\ temps = {}
    /\ pc = [j \in Jobs |-> "idle"]
    /\ captured = [j \in Jobs |-> NoGen]
    /\ doomed = [j \in Jobs |-> {}]
    /\ target = [j \in Jobs |-> NoGen]
    /\ fetched = [j \in Jobs |-> Nothing]
    /\ rpc = [r \in Readers |-> "idle"]
    /\ view = [r \in Readers |-> NoGen]
    /\ seen = [r \in Readers |-> Nothing]
    /\ interrupts = 0
    /\ issued = {}
    /\ published = {}

-----------------------------------------------------------------------------
(* storage.verify_generation: the manifest exists, the files on disk are   *)
(* exactly the declared ones with the declared checksums, and the required *)
(* artifacts are among them.                                               *)
Verified(g) == files[g] = Artifacts /\ g \notin rotten

(* current_generation(verify=True) on what the pointer now names. *)
PointerUsable == current # NoGen => Verified(current)

(* The job is over, whatever its outcome: the lock is released. *)
Leave(j) ==
    /\ lock' = NoJob
    /\ pc' = [pc EXCEPT ![j] = "idle"]
    /\ captured' = [captured EXCEPT ![j] = NoGen]
    /\ doomed' = [doomed EXCEPT ![j] = {}]
    /\ target' = [target EXCEPT ![j] = NoGen]
    /\ fetched' = [fetched EXCEPT ![j] = Nothing]

Release(j) ==
    /\ Leave(j)
    /\ UNCHANGED <<current, disk, temps, readers, aux>>

-----------------------------------------------------------------------------
(* Mutation of Start: the lock is not awaited. *)
StartUnlocked(j) ==
    /\ pc[j] = "idle"
    /\ lock' = j
    /\ pc' = [pc EXCEPT ![j] = "locked"]
    /\ UNCHANGED <<current, disk, temps, captured, doomed, target,
                   fetched, readers, aux>>

(* ingest_market_data: FileLock(timeout=0); a job that finds the lock taken *)
(* raises "already running" and changes nothing.                           *)
Start(j) ==
    /\ pc[j] = "idle"
    /\ lock = NoJob
    /\ lock' = j
    /\ pc' = [pc EXCEPT ![j] = "locked"]
    /\ UNCHANGED <<current, disk, temps, captured, doomed, target,
                   fetched, readers, aux>>

(* Mutation of Abandoned: superseded generations are garbage too. *)
AbandonedSuperseded(active) == {g \in present : g # active}

(* Mutation of Abandoned: only a directory left empty is abandoned. *)
AbandonedEmpty(active) == {g \in present : g # active /\ files[g] = {}}

(* The directories that the cleanup loop removes: not the active one, and  *)
(* not verifiable.                                                         *)
Abandoned(active) == {g \in present : g # active /\ ~Verified(g)}

(* cleanup_abandoned_generations: verify the active generation, then every *)
(* other directory.                                                        *)
Scan(j) ==
    /\ pc[j] = "locked"
    /\ PointerUsable
    /\ doomed' = [doomed EXCEPT ![j] = Abandoned(current)]
    /\ pc' = [pc EXCEPT ![j] = "cleaning"]
    /\ UNCHANGED <<current, lock, disk, temps, captured, target, fetched,
                   readers, aux>>

(* shutil.rmtree unlinks the files of one of them in some order, *)
Unlink(j, g, a) ==
    /\ pc[j] = "cleaning"
    /\ g \in doomed[j]
    /\ a \in files[g]
    /\ files' = [files EXCEPT ![g] = @ \ {a}]
    /\ UNCHANGED <<current, lock, present, rotten, sealed, prev, merged, temps,
                   jobs, readers, aux>>

(* then removes the emptied directory. *)
RemoveDirectory(j, g) ==
    /\ pc[j] = "cleaning"
    /\ g \in doomed[j]
    /\ files[g] = {}
    /\ present' = present \ {g}
    /\ sealed' = sealed \ {g}
    /\ doomed' = [doomed EXCEPT ![j] = @ \ {g}]
    /\ UNCHANGED <<current, lock, files, rotten, prev, merged, temps, pc,
                   captured, target, fetched, readers, aux>>

(* A directory of mode 0555 refuses the unlink unless the process is        *)
(* privileged: rmtree raises PermissionError, which is not an AresError.    *)
RemoveRefused(j) ==
    /\ pc[j] = "cleaning"
    /\ doomed[j] \cap sealed # {}
    /\ Release(j)

(* The loop is done; ingestion captures CURRENT for the whole operation. *)
Capture(j) ==
    /\ pc[j] = "cleaning"
    /\ doomed[j] = {}
    /\ PointerUsable
    /\ captured' = [captured EXCEPT ![j] = current]
    /\ pc' = [pc EXCEPT ![j] = "fetching"]
    /\ UNCHANGED <<current, lock, disk, temps, doomed, target, fetched,
                   readers, aux>>

(* current_generation raises: the active generation fails verification. *)
PointerBroken(j) ==
    /\ pc[j] = "locked" \/ (pc[j] = "cleaning" /\ doomed[j] = {})
    /\ ~PointerUsable
    /\ Release(j)

(* Mutation of MarketPath: the captured identity is ignored. *)
MarketPathLatest(capture) == current

(* market_path(generation=None) resolves CURRENT again; otherwise the      *)
(* captured identity is used as it is.                                     *)
MarketPath(capture) == IF capture = NoGen THEN current ELSE capture

(* Read one venue's existing frame, fetch the rest, merge in memory. *)
FetchVenue(j, v) ==
    /\ pc[j] = "fetching"
    /\ fetched[j][v] = Unread
    /\ fetched' = [fetched EXCEPT ![j][v] = MarketPath(captured[j])]
    /\ UNCHANGED <<current, lock, disk, temps, pc, captured, doomed,
                   target, readers, aux>>

(* A provider gives up, or a quality gate fails: the job raises or returns *)
(* a rejected result, and the canonical data is untouched.                 *)
Reject(j) ==
    /\ pc[j] = "fetching"
    /\ Release(j)

(* Every gate passed: draw an identity and create its directory. *)
CreateGeneration(j) ==
    /\ pc[j] = "fetching"
    /\ \A v \in Venues : fetched[j][v] # Unread
    /\ \E g \in Generations \ issued :
          /\ issued' = issued \cup {g}
          /\ present' = present \cup {g}
          /\ target' = [target EXCEPT ![j] = g]
          /\ prev' = [prev EXCEPT ![g] = captured[j]]
          /\ merged' = [merged EXCEPT ![g] = fetched[j]]
    /\ pc' = [pc EXCEPT ![j] = "writing"]
    /\ UNCHANGED <<current, lock, files, rotten, sealed, temps, captured,
                   doomed, fetched, readers, interrupts, published>>

(* What create_generation has written before it writes an artifact. *)
Before(a) ==
    CASE a = "quality"  -> Venues
      [] a = "duckdb"   -> Venues \cup {"quality"}
      [] a = "manifest" -> Venues \cup {"quality", "duckdb"}
      [] OTHER          -> {}

Write(j, a) ==
    /\ pc[j] = "writing"
    /\ LET g == target[j] IN
          /\ a \notin files[g]
          /\ Before(a) \subseteq files[g]
          /\ files' = [files EXCEPT ![g] = @ \cup {a}]
    /\ UNCHANGED <<current, lock, present, rotten, sealed, prev, merged, temps,
                   jobs, readers, aux>>

(* Mutation of Seal: the job stops once the generation is verified. *)
SealAndStop(j) ==
    /\ pc[j] = "writing"
    /\ "manifest" \in files[target[j]]
    /\ Verified(target[j])
    /\ sealed' = sealed \cup {target[j]}
    /\ Leave(j)
    /\ UNCHANGED <<current, present, files, rotten, prev, merged, temps,
                   readers, aux>>

(* Verify the finished directory and make it read-only. *)
Seal(j) ==
    /\ pc[j] = "writing"
    /\ "manifest" \in files[target[j]]
    /\ Verified(target[j])
    /\ sealed' = sealed \cup {target[j]}
    /\ pc' = [pc EXCEPT ![j] = "publishing"]
    /\ UNCHANGED <<current, lock, present, files, rotten, prev, merged, temps,
                   captured, doomed, target,
                   fetched, readers, aux>>

(* publish_generation verifies once more and writes the temporary pointer. *)
PreparePointer(j) ==
    /\ pc[j] = "publishing"
    /\ Verified(target[j])
    /\ temps' = temps \cup {target[j]}
    /\ pc' = [pc EXCEPT ![j] = "swapping"]
    /\ UNCHANGED <<current, lock, disk, captured, doomed, target,
                   fetched, readers, aux>>

VerifyFailed(j) ==
    /\ \/ pc[j] = "writing" /\ "manifest" \in files[target[j]]
       \/ pc[j] = "publishing"
    /\ ~Verified(target[j])
    /\ Release(j)

(* os.replace of CURRENT: the only canonical state transition. *)
SwapPointer(j) ==
    /\ pc[j] = "swapping"
    /\ current' = target[j]
    /\ published' = published \cup {target[j]}
    /\ temps' = temps \ {target[j]}
    /\ pc' = [pc EXCEPT ![j] = "published"]
    /\ UNCHANGED <<lock, disk, captured, doomed, target, fetched, readers,
                   interrupts, issued>>

Return(j) ==
    /\ pc[j] = "published"
    /\ Release(j)

(* An exception (disk full, I/O): the finally clause of publish_generation *)
(* unlinks the temporary pointer, create_generation keeps the directory.   *)
Exception(j) ==
    /\ pc[j] # "idle"
    /\ interrupts < MaxInterrupts
    /\ interrupts' = interrupts + 1
    /\ Leave(j)
    /\ temps' = IF pc[j] = "swapping" THEN temps \ {target[j]} ELSE temps
    /\ UNCHANGED <<current, disk, readers, issued, published>>

(* Mutation of Kill: the lock is a file that outlives its owner. *)
KillKeepsLock(j) ==
    /\ pc[j] # "idle"
    /\ interrupts < MaxInterrupts
    /\ interrupts' = interrupts + 1
    /\ pc' = [pc EXCEPT ![j] = "idle"]
    /\ captured' = [captured EXCEPT ![j] = NoGen]
    /\ doomed' = [doomed EXCEPT ![j] = {}]
    /\ target' = [target EXCEPT ![j] = NoGen]
    /\ fetched' = [fetched EXCEPT ![j] = Nothing]
    /\ UNCHANGED <<current, lock, disk, temps, readers, issued, published>>

(* A kill: nothing is undone, and the operating system drops the lock. *)
Kill(j) ==
    /\ pc[j] # "idle"
    /\ interrupts < MaxInterrupts
    /\ interrupts' = interrupts + 1
    /\ Leave(j)
    /\ UNCHANGED <<current, disk, temps, readers, issued, published>>

-----------------------------------------------------------------------------
(* A reader reads the pointer, *)
ReadPointer(r) ==
    /\ rpc[r] = "idle"
    /\ view' = [view EXCEPT ![r] = current]
    /\ rpc' = [rpc EXCEPT ![r] = IF current = NoGen THEN "reading"
                                                    ELSE "verifying"]
    /\ UNCHANGED <<current, lock, disk, temps, jobs, seen, aux>>

(* verifies what it names, *)
VerifyView(r) ==
    /\ rpc[r] = "verifying"
    /\ Verified(view[r])
    /\ rpc' = [rpc EXCEPT ![r] = "reading"]
    /\ UNCHANGED <<current, lock, disk, temps, jobs, view, seen, aux>>

(* then reads the venues. Without a captured identity market_path resolves *)
(* and verifies CURRENT for each of them; a path with no file gives an     *)
(* empty frame.                                                            *)
ReadVenue(r, v) ==
    /\ rpc[r] = "reading"
    /\ seen[r][v] = Unread
    /\ view[r] = NoGen => PointerUsable
    /\ LET g == MarketPath(view[r]) IN
          seen' = [seen EXCEPT ![r][v] =
                      IF g = NoGen \/ v \in files[g] THEN g ELSE Missing]
    /\ UNCHANGED <<current, lock, disk, temps, jobs, rpc, view, aux>>

(* The operation returns, or raises at any point. *)
Finish(r) ==
    /\ rpc[r] # "idle"
    /\ rpc' = [rpc EXCEPT ![r] = "idle"]
    /\ view' = [view EXCEPT ![r] = NoGen]
    /\ seen' = [seen EXCEPT ![r] = Nothing]
    /\ UNCHANGED <<current, lock, disk, temps, jobs, aux>>

(* The environment: stored bytes rot after the manifest recorded them. *)
Rot(g) ==
    /\ Cardinality(rotten) < MaxFaults
    /\ "manifest" \in files[g]
    /\ rotten' = rotten \cup {g}
    /\ UNCHANGED <<current, lock, present, files, sealed, prev, merged, temps,
                   jobs, readers, aux>>

-----------------------------------------------------------------------------
Clean(j) ==
    \/ Scan(j)
    \/ \E g \in Generations :
          RemoveDirectory(j, g) \/ \E a \in Artifacts : Unlink(j, g, a)
    \/ RemoveRefused(j)
    \/ Capture(j)
    \/ PointerBroken(j)

Ingest(j) ==
    \/ \E v \in Venues : FetchVenue(j, v)
    \/ Reject(j)
    \/ CreateGeneration(j)
    \/ \E a \in Artifacts : Write(j, a)
    \/ Seal(j)
    \/ PreparePointer(j)
    \/ VerifyFailed(j)
    \/ SwapPointer(j)
    \/ Return(j)

Interrupt(j) == Exception(j) \/ Kill(j)

Read(r) ==
    \/ ReadPointer(r)
    \/ VerifyView(r)
    \/ \E v \in Venues : ReadVenue(r, v)
    \/ Finish(r)

Next ==
    \/ \E j \in Jobs : Start(j) \/ Clean(j) \/ Ingest(j) \/ Interrupt(j)
    \/ \E r \in Readers : Read(r)
    \/ \E g \in Generations : Rot(g)

Spec == Init /\ [][Next]_vars

(* The scheduler fires the cycles on an interval (scheduler.run_scheduler), *)
(* so a job starts whenever the lock stays free; a started process is       *)
(* scheduled by the operating system until it ends.                         *)
Fairness ==
    /\ WF_vars(\E j \in Jobs : Start(j))
    /\ \A j \in Jobs : WF_vars(Clean(j) \/ Ingest(j))

FairSpec == Spec /\ Fairness

-----------------------------------------------------------------------------
(* CURRENT and every generation it has named keep all their artifacts and   *)
(* stay read-only, through crashes, retries and cleanups: a reader holding  *)
(* an old identity never loses its files (storage.publish_generation and    *)
(* storage.cleanup_abandoned_generations). Rotten ones are not promised,    *)
(* except the active one, which no cleanup may touch.                       *)
PublishedStayComplete ==
    \A g \in published :
        g \notin rotten \/ g = current => files[g] = Artifacts /\ g \in sealed

(* A reader that captured an identity sees every venue in that generation,  *)
(* however many publications and cleanups happen in between                 *)
(* (storage.market_path with the captured generation).                      *)
CapturedViewIsWhole ==
    \A r \in Readers, v \in Venues :
        view[r] # NoGen /\ view[r] \notin rotten /\ seen[r][v] # Unread
            => seen[r][v] = view[r]

(* All the venues of a published generation were merged onto one and the    *)
(* same generation, the one its manifest names as previous_generation       *)
(* (ingest._ingest_market_data_unlocked reads them one after the other).    *)
MergedOntoOneBase ==
    \A g \in published, v \in Venues : merged[g][v] = prev[g]

(* A publication succeeds the generation it was merged onto: no concurrent  *)
(* ingestion's candles are overwritten (ingest.ingest_market_data's lock).  *)
LinearHistory == [][current' # current => prev[current'] = current]_current

(* What a cleanup deletes from is unverifiable, is not the active           *)
(* generation and is not the directory another job is filling               *)
(* (storage.cleanup_abandoned_generations).                                 *)
RemovesOnlyRubble ==
    [][\A g \in Generations : ~(files[g] \subseteq files'[g]) =>
          g # current /\ ~Verified(g) /\ \A j \in Jobs : target[j] # g]_files

(* Once interruptions stop, every generation a job has begun to write       *)
(* becomes canonical (create_generation followed by publish_generation).    *)
CreatedIsPublished ==
    \A j \in Jobs, g \in Generations :
        target[j] = g /\ interrupts = MaxInterrupts ~> g \in published

(* The directory an interrupted job leaves behind is removed by a later     *)
(* ingestion (ingest.recover_pending_commit).                               *)
Rubble(g) == g \in present /\ ~Verified(g) /\ \A j \in Jobs : target[j] # g
RubbleGoes == \A g \in Generations : Rubble(g) ~> g \notin present

(* Ingestion is never locked out for good: the lock is free again and again *)
(* and taken again and again, also after its holder was killed.             *)
IngestionKeepsRunning == []<>(lock = NoJob) /\ []<>(lock # NoJob)

-----------------------------------------------------------------------------
(* The inductive strengthening of the invariants above.                     *)

(* At most one job is past the lock. *)
Serial == \A j \in Jobs : pc[j] # "idle" <=> lock = j

(* An identity not issued yet has left no trace; CURRENT names a published  *)
(* generation and a published one was issued.                               *)
Traces ==
    /\ present \subseteq issued
    /\ published \subseteq issued
    /\ current # NoGen => current \in published
    /\ \A g \in Generations : files[g] # {} => g \in present

(* Until its CURRENT swap a job's capture is still CURRENT, and what it     *)
(* merged onto is what it captured.                                         *)
CaptureFresh(j) ==
    /\ pc[j] \in {"idle", "locked", "cleaning"} => fetched[j] = Nothing
    /\ pc[j] \in {"fetching", "writing", "publishing", "swapping"}
          => captured[j] = current
    /\ pc[j] = "fetching"
          => \A v \in Venues : fetched[j][v] \in {Unread, captured[j]}

(* The directory a job builds is its own, unpublished, and from its         *)
(* verification on complete and read-only.                                  *)
TargetOwned(j) ==
    LET g == target[j] IN
    /\ pc[j] \in {"writing", "publishing", "swapping"} =>
          /\ g \in issued /\ g \notin published
          /\ prev[g] = captured[j]
          /\ \A v \in Venues : merged[g][v] = captured[j]
          /\ g \in present
    /\ pc[j] \in {"publishing", "swapping"} =>
          files[g] = Artifacts /\ g \in sealed
    /\ pc[j] = "published" => g \in published

(* A cleanup only holds unverifiable, inactive directories. *)
DoomedIsRubble(j) ==
    /\ pc[j] # "cleaning" => doomed[j] = {}
    /\ \A g \in doomed[j] : g # current /\ ~Verified(g)

(* A reader captured something published and has read nothing before that.  *)
ReaderSound(r) ==
    /\ view[r] # NoGen => view[r] \in published
    /\ rpc[r] # "reading" => seen[r] = Nothing
    /\ rpc[r] = "idle" => view[r] = NoGen

(* What holds in every reachable state and is preserved by every step: the  *)
(* lock, the captures under it, the directory being built, the cleanup's    *)
(* victims and the readers' captures (ingest.py, storage.py).               *)
IInv ==
    /\ TypeOK
    /\ Serial
    /\ Traces
    /\ \A j \in Jobs : CaptureFresh(j) /\ TargetOwned(j) /\ DoomedIsRubble(j)
    /\ \A r \in Readers : ReaderSound(r)
    /\ PublishedStayComplete
    /\ CapturedViewIsWhole
    /\ MergedOntoOneBase

-----------------------------------------------------------------------------
(* The refinement of AtomicCanon: CURRENT is the register.                  *)
ParentOf == [g \in Generations |-> IF g \in published THEN prev[g] ELSE NoGen]

Canon == INSTANCE AtomicCanon WITH
            canonical <- current, history <- published, parent <- ParentOf,
            reading <- {r \in Readers : rpc[r] # "idle"}

(* While no stored byte rots, the store is an atomic register of            *)
(* generations to its readers (storage.py as a whole).                      *)
AtomicStore == Canon!Spec
=============================================================================
