------------------------------ MODULE PaperCycles ------------------------------
(*****************************************************************************)
(* The scheduled cycles and paper inference, composed: a store that commits  *)
(* generations, a directory of bundles, the champion pointer and the signal  *)
(* log, worked on by quick cycles, deep cycles, `ares paper` and `ares train`*)
(* (scheduler.py, live.py, bundles.py, cli.py).                              *)
(*                                                                           *)
(* The components modelled on their own are single steps here: an ingestion  *)
(* is one commit (GenerationStore), a promotion one replacement of the       *)
(* pointer (Promotion), and a search with its validation and fit one export  *)
(* (LockedHoldout, Partitions).  What is kept step by step is what lies      *)
(* between them: the cycle lock, what is read when, the name check and the   *)
(* rename of an export, and the loading of a bundle file by file against a   *)
(* concurrent writer.                                                        *)
(*                                                                           *)
(* Bytes are versions: every export writes a fresh one, its manifest holds   *)
(* the hashes of that version, and a file is as the manifest says exactly    *)
(* when both have the same version.                                          *)
(*****************************************************************************)
EXTENDS Integers, Sequences

CONSTANTS Procs,        \* processes: schedulers and command lines
          Names,        \* bundle names; two exports in one second get the same
          Payload,      \* the files of a bundle apart from its manifest
          None,
          MaxStarts,    \* bound: operations begun
          MaxOthers,    \* bound: generations committed by `ares ingest`
          MaxRewrites   \* bound: bundle files changed by a concurrent writer

ASSUME BoundsAssumption == {MaxStarts, MaxOthers, MaxRewrites} \subseteq Nat

VARIABLES current,      \* the number of the active generation, 0 for none
          bundle,       \* per name: the version of every file, or None
          pointer,      \* the champion pointer, or None
          log,          \* the signal log, oldest entry first
          cycleLock,    \* the process that holds .ares-cycle.lock, or None
          logLock,      \* the process that holds the lock of the log, or None
          job,          \* per process: the operation it runs
          made,         \* versions exported so far
          starts, others, rewrites   \* counters of the bounds

vars == <<current, bundle, pointer, log, cycleLock, logLock, job, made,
          starts, others, rewrites>>
counters == <<starts, others, rewrites>>

Cycles  == {"quick", "deep"}
Kinds   == Cycles \cup {"paper", "train"}
Files   == Payload \cup {"manifest"}
Contents == [Files -> Nat]

ASSUME NamesAssumption == None \notin Procs \cup Names /\ None \notin Contents

(* own: the generation its ingestion committed; gen: the one it captured;    *)
(* champion: the version the pointer named when it was resolved; verified:   *)
(* the manifest the load verified; todo: files still to verify or copy;      *)
(* loaded: the private snapshot; hash: the version whose manifest is logged. *)
Idle == [pc |-> "idle", kind |-> None, own |-> 0, gen |-> 0, name |-> None,
         champion |-> None, verified |-> 0, todo |-> {},
         loaded |-> [f \in Payload |-> 0], hash |-> 0]

Whole(v) == [f \in Files |-> v]
Verifies(n) == bundle[n] # None /\ bundle[n] = Whole(bundle[n]["manifest"])

(* Either an empty storage root or the result of one deep cycle. *)
Init == /\ \/ current = 0 /\ made = 0 /\ pointer = None
              /\ bundle = [n \in Names |-> None]
           \/ current = 1 /\ made = 1
              /\ \E n \in Names :
                   /\ bundle = [m \in Names |-> IF m = n THEN Whole(1) ELSE None]
                   /\ pointer = [name |-> n, manifest |-> 1, exported |-> 1,
                                 gen |-> 1, own |-> 1]
        /\ log = <<>> /\ cycleLock = None /\ logLock = None
        /\ job = [p \in Procs |-> Idle]
        /\ starts = 0 /\ others = 0 /\ rewrites = 0

-----------------------------------------------------------------------------
\* A plausible error: the lock outlives its holder.
ReleaseNever(p) == UNCHANGED cycleLock

(* Every end of an operation - a return, an exception, a kill - leaves the   *)
(* `with` blocks of its file locks.                                          *)
Release(p) == cycleLock' = IF cycleLock = p THEN None ELSE cycleLock
Leave(p) == /\ job' = [job EXCEPT ![p] = Idle]
            /\ Release(p)
            /\ logLock' = IF logLock = p THEN None ELSE logLock

\* A plausible error: cycles do not exclude each other.
EnterUnlocked(p, kind) == cycleLock' = cycleLock

(* quick_cycle and deep_cycle enter under the lock of all cycles or raise    *)
(* without having done anything; paper and train take no such lock.          *)
Enter(p, kind) == /\ kind \in Cycles => cycleLock = None
                  /\ cycleLock' = IF kind \in Cycles THEN p ELSE cycleLock

First(kind) == CASE kind \in Cycles -> "ingest"
                 [] kind = "paper"  -> "resolve"
                 [] kind = "train"  -> "primary"

Start(p, kind) == /\ job[p].pc = "idle" /\ starts < MaxStarts
                  /\ Enter(p, kind)
                  /\ starts' = starts + 1
                  /\ job' = [job EXCEPT ![p].pc = First(kind), ![p].kind = kind]
                  /\ UNCHANGED <<current, bundle, pointer, log, logLock, made,
                                 others, rewrites>>

(* ingest_market_data committed and _require_committed_ingestion agreed; an  *)
(* ingestion that fails ends the cycle, which is a Raise.                    *)
AfterIngest(kind) == IF kind = "quick" THEN "resolve" ELSE "capture"
Ingest(p) == /\ job[p].pc = "ingest"
             /\ current' = current + 1
             /\ job' = [job EXCEPT ![p].pc = AfterIngest(job[p].kind),
                                     ![p].own = current + 1]
             /\ UNCHANGED <<bundle, pointer, log, cycleLock, logLock, made, counters>>

(* resolve_champion: no pointer ends the operation; a champion that does not *)
(* verify, or no longer has the manifest the pointer names, raises.          *)
Resolve(p) ==
  /\ job[p].pc = "resolve"
  /\ IF pointer # None /\ Verifies(pointer.name)
           /\ bundle[pointer.name]["manifest"] = pointer.manifest
       THEN /\ job' = [job EXCEPT ![p].pc = "capture", ![p].name = pointer.name,
                               ![p].champion = pointer.manifest]
            /\ UNCHANGED <<cycleLock, logLock>>
       ELSE Leave(p)
  /\ UNCHANGED <<current, bundle, pointer, log, made, counters>>

(* `ares paper --bundle`: any bundle, whatever the pointer says. *)
Choose(p) == /\ job[p].pc = "resolve" /\ job[p].kind = "paper"
             /\ \E n \in Names : /\ bundle[n] # None
                                 /\ job' = [job EXCEPT ![p].pc = "capture", ![p].name = n]
             /\ UNCHANGED <<current, bundle, pointer, log, cycleLock, logLock, made,
                            counters>>

(* current_generation once, and every frame read under that identity; there  *)
(* is none before the first ingestion.                                       *)
Captured(p) == current
AfterCapture(kind) == IF kind \in {"quick", "paper"} THEN "open" ELSE "export"
Capture(p) == /\ job[p].pc = "capture"
              /\ IF current = 0
                   THEN Leave(p)
                   ELSE /\ job' = [job EXCEPT ![p].pc = AfterCapture(job[p].kind),
                                            ![p].gen = Captured(p)]
                        /\ UNCHANGED <<cycleLock, logLock>>
              /\ UNCHANGED <<current, bundle, pointer, log, made, counters>>

(* _primary_frame of `ares train`: the same, and the stored frames have to   *)
(* pass their gates again; one that fails is a Raise.                        *)
PrimaryFrame(p) == /\ job[p].pc = "primary" /\ current > 0
                   /\ job' = [job EXCEPT ![p].pc = "export", ![p].gen = current]
                   /\ UNCHANGED <<current, bundle, pointer, log, cycleLock, logLock,
                                  made, counters>>

-----------------------------------------------------------------------------
(* load_bundle: verify_bundle reads the manifest once and hashes every file  *)
(* in place; then every file is read again into a private snapshot and       *)
(* hashed against that manifest before anything is deserialised.             *)
OpenManifest(p) == /\ job[p].pc = "open"
                   /\ job' = [job EXCEPT ![p].pc = "verify", ![p].todo = Payload,
                               ![p].verified = bundle[job[p].name]["manifest"]]
                   /\ UNCHANGED <<current, bundle, pointer, log, cycleLock, logLock,
                                  made, counters>>

Matches(p, f) == bundle[job[p].name][f] = job[p].verified

Verify(p, f) == /\ job[p].pc = "verify" /\ f \in job[p].todo
                /\ IF Matches(p, f)
                     THEN /\ IF job[p].todo = {f}
                               THEN job' = [job EXCEPT ![p].pc = "copy", ![p].todo = Payload]
                               ELSE job' = [job EXCEPT ![p].todo = @ \ {f}]
                          /\ UNCHANGED <<cycleLock, logLock>>
                     ELSE Leave(p)
                /\ UNCHANGED <<current, bundle, pointer, log, made, counters>>

\* A plausible error: the files are copied without hashing them again.
CopyUnchecked(p, f) == TRUE

CopyAccepted(p, f) == Matches(p, f)

Copy(p, f) ==
  /\ job[p].pc = "copy" /\ f \in job[p].todo
  /\ IF CopyAccepted(p, f)
       THEN /\ job' = [job EXCEPT ![p].pc = IF job[p].todo = {f} THEN "infer" ELSE "copy",
                                ![p].todo = @ \ {f},
                                ![p].loaded[f] = bundle[job[p].name][f]]
            /\ UNCHANGED <<cycleLock, logLock>>
       ELSE Leave(p)
  /\ UNCHANGED <<current, bundle, pointer, log, made, counters>>

\* A plausible error: the hash is taken from the champion of the moment.
HashedChampion(p) ==
  bundle[IF pointer = None THEN job[p].name ELSE pointer.name]["manifest"]

(* generate_paper_signal after the load: the gates of the loaded             *)
(* configuration pass - a gate that fails is a Raise - the model answers,    *)
(* and the manifest is read again, from the bundle's own directory, for the  *)
(* entry of the log.                                                         *)
Hashed(p) == bundle[job[p].name]["manifest"]
Infer(p) == /\ job[p].pc = "infer"
            /\ job' = [job EXCEPT ![p].pc = "lock", ![p].hash = Hashed(p)]
            /\ UNCHANGED <<current, bundle, pointer, log, cycleLock, logLock, made, counters>>

(* The lock of the log fails fast: the signal of the loser is lost. *)
LockLog(p) == /\ job[p].pc = "lock"
              /\ IF logLock = None
                   THEN /\ logLock' = p
                        /\ job' = [job EXCEPT ![p].pc = "append"]
                        /\ UNCHANGED cycleLock
                   ELSE Leave(p)
              /\ UNCHANGED <<current, bundle, pointer, log, made, counters>>

Entry(p) == [kind |-> job[p].kind, own |-> job[p].own, gen |-> job[p].gen,
             champion |-> job[p].champion, verified |-> job[p].verified,
             loaded |-> job[p].loaded, hash |-> job[p].hash]

AppendEntry(p) == /\ job[p].pc = "append"
              /\ log' = Append(log, Entry(p))
              /\ Leave(p)
              /\ UNCHANGED <<current, bundle, pointer, made, counters>>

-----------------------------------------------------------------------------
(* export_bundle of a deep cycle or of `ares train`: the name is checked,    *)
(* the files are written into a private directory ...                        *)
Export(p) == /\ job[p].pc = "export"
             /\ \E n \in Names :
                  IF bundle[n] = None
                    THEN /\ made' = made + 1
                         /\ job' = [job EXCEPT ![p].pc = "rename", ![p].name = n,
                                               ![p].verified = made + 1]
                         /\ UNCHANGED <<cycleLock, logLock>>
                    ELSE Leave(p) /\ UNCHANGED made
             /\ UNCHANGED <<current, bundle, pointer, log, counters>>

\* A plausible error: a rename that fails is ignored.
RenameIgnored(p) ==
  /\ job[p].pc = "rename"
  /\ bundle' = IF bundle[job[p].name] = None
                 THEN [bundle EXCEPT ![job[p].name] = Whole(job[p].verified)] ELSE bundle
  /\ IF job[p].kind = "deep"
       THEN job' = [job EXCEPT ![p].pc = "promote"] /\ UNCHANGED <<cycleLock, logLock>>
       ELSE Leave(p)
  /\ UNCHANGED <<current, pointer, log, made, counters>>

(* ... and renamed to it.  os.replace does not replace a directory that is   *)
(* not empty: the private one is removed and the error raised.               *)
Rename(p) ==
  /\ job[p].pc = "rename"
  /\ IF bundle[job[p].name] = None
       THEN /\ bundle' = [bundle EXCEPT ![job[p].name] = Whole(job[p].verified)]
            /\ IF job[p].kind = "deep"
                 THEN job' = [job EXCEPT ![p].pc = "promote"] /\ UNCHANGED <<cycleLock, logLock>>
                 ELSE Leave(p)
       ELSE Leave(p) /\ UNCHANGED bundle
  /\ UNCHANGED <<current, pointer, log, made, counters>>

(* promote at the end of a deep cycle: the bundle is verified, its replay    *)
(* and the incumbent decide.  exported, gen and own say which export and     *)
(* ingestion the decision was about; the file names the first two fields.    *)
Promote(p) ==
  /\ job[p].pc = "promote"
  /\ \/ /\ Verifies(job[p].name)
        /\ pointer' = [name |-> job[p].name,
                       manifest |-> bundle[job[p].name]["manifest"],
                       exported |-> job[p].verified,
                       gen |-> job[p].gen, own |-> job[p].own]
     \/ UNCHANGED pointer
  /\ Leave(p)
  /\ UNCHANGED <<current, bundle, log, made, counters>>

-----------------------------------------------------------------------------
(* A failed ingestion, search, validation or gate, any other exception, or   *)
(* the end of the process.                                                   *)
Raise(p) == /\ job[p].pc # "idle"
            /\ Leave(p)
            /\ UNCHANGED <<current, bundle, pointer, log, made, counters>>

(* `ares ingest` in another process; it does not take the cycle lock. *)
OtherIngest == /\ others < MaxOthers
               /\ others' = others + 1
               /\ current' = current + 1
               /\ UNCHANGED <<bundle, pointer, log, cycleLock, logLock, job, made,
                              starts, rewrites>>

(* `ares promote` in another process, of any bundle that verifies; it does   *)
(* not take the cycle lock either.                                           *)
OtherPromote == /\ \E n \in Names :
                     /\ Verifies(n)
                     /\ pointer' = [name |-> n, manifest |-> bundle[n]["manifest"],
                                    exported |-> None, gen |-> 0, own |-> 0]
                /\ UNCHANGED <<current, bundle, log, cycleLock, logLock, job, made, counters>>

(* The writer load_bundle guards against: it replaces one file by another    *)
(* version's.                                                                *)
Rewrite == /\ rewrites < MaxRewrites
           /\ rewrites' = rewrites + 1
           /\ \E n \in Names, f \in Files, v \in 1..made :
                /\ bundle[n] # None
                /\ bundle[n][f] # v
                /\ bundle' = [bundle EXCEPT ![n][f] = v]
           /\ UNCHANGED <<current, pointer, log, cycleLock, logLock, job, made,
                          starts, others>>

Step(p) == \/ Ingest(p) \/ Resolve(p) \/ Choose(p) \/ Capture(p)
           \/ PrimaryFrame(p) \/ OpenManifest(p)
           \/ \E f \in Payload : Verify(p, f) \/ Copy(p, f)
           \/ Infer(p) \/ LockLog(p) \/ AppendEntry(p)
           \/ Export(p) \/ Rename(p) \/ Promote(p)

Next == \/ \E p \in Procs : \/ \E kind \in Kinds : Start(p, kind)
                            \/ Step(p) \/ Raise(p)
        \/ OtherIngest \/ OtherPromote \/ Rewrite

(* A process that runs goes on; nothing makes a job start or fail. *)
Spec == Init /\ [][Next]_vars /\ \A p \in Procs : WF_vars(Step(p))

-----------------------------------------------------------------------------
Entries == {log[i] : i \in 1..Len(log)}

(* What is deserialised is one version: the model, the scaler, the features  *)
(* and the configuration behind a logged signal are the bytes of the one     *)
(* manifest that was verified, whatever a writer changes during the load     *)
(* (the claim of load_bundle's docstring).                                   *)
SignalIsOfOnePiece == \A e \in Entries : \A f \in Payload : e.loaded[f] = e.verified

(* The signals that cycles log never go back in time: each is computed on a  *)
(* generation at least as new as the one its own ingestion committed and as  *)
(* the one behind every earlier signal of a cycle, whatever other ingestions *)
(* commit meanwhile (quick_cycle).                                           *)
SignalsAdvance ==
  \A i, j \in 1..Len(log) :
    (i < j /\ log[i].kind = "quick" /\ log[j].kind = "quick")
      => log[i].gen < log[j].gen /\ log[i].gen < log[j].own /\ log[j].own <= log[j].gen

(* The manifest hash of a log entry is read after the inference, from the    *)
(* bundle's directory.  Unless a writer changed a bundle in place, it is the *)
(* hash of what was loaded, which is also the version that the champion      *)
(* pointer named when it was resolved: no export and no promotion that       *)
(* happens during the inference can come between (live.py, resolve_champion).*)
LoggedHashIsLoaded ==
  rewrites = 0 => \A e \in Entries : /\ e.hash = e.verified
                                     /\ e.champion \in {None, e.verified}

(* A deep cycle that promotes makes its own export the champion, trained on  *)
(* its own ingestion or a newer one; another export that got the same name   *)
(* in the same second can make it fail, never promote the other's bundle     *)
(* (deep_cycle, export_bundle).                                              *)
CyclePromotesItsOwn ==
  (pointer # None /\ pointer.exported # None)
    => /\ pointer.own <= pointer.gen
       /\ rewrites = 0 => pointer.manifest = pointer.exported

(* The lock of the cycles, never awaited, is freed after every end of its    *)
(* holder, so the scheduler's next run can enter (_cycle_lock).              *)
CycleLockIsFreed == \A p \in Procs : cycleLock = p ~> cycleLock # p

-----------------------------------------------------------------------------
(* The inductive invariant. *)
PointerType == [name : Names, manifest : Nat, exported : Nat \cup {None},
                gen : Nat, own : Nat]
EntryType == [kind : Kinds, own : Nat, gen : Nat, champion : Nat \cup {None},
              verified : Nat, loaded : [Payload -> Nat], hash : Nat]

(* The program points of a load and of what follows it, of an inference      *)
(* after its bundle was chosen, and of each kind of operation.               *)
Loaded  == {"infer", "lock", "append"}
Loading == {"open", "verify", "copy"} \cup Loaded
Judging == {"capture"} \cup Loading
Points(kind) == CASE kind = "quick" -> {"ingest", "resolve"} \cup Judging
                  [] kind = "paper" -> {"resolve"} \cup Judging
                  [] kind = "deep"  -> {"ingest", "capture", "export", "rename", "promote"}
                  [] kind = "train" -> {"primary", "export", "rename"}

JobType == [pc : {"idle"} \cup UNION {Points(kind) : kind \in Kinds},
            kind : Kinds \cup {None}, own : Nat, gen : Nat, name : Names \cup {None},
            champion : Nat \cup {None}, verified : Nat, todo : SUBSET Payload,
            loaded : [Payload -> Nat], hash : Nat]

(* The type invariant. *)
TypeOK == /\ {current, made, starts, others, rewrites} \subseteq Nat
          /\ bundle \in [Names -> Contents \cup {None}]
          /\ pointer \in PointerType \cup {None}
          /\ log \in Seq(EntryType)
          /\ {cycleLock, logLock} \subseteq Procs \cup {None}
          /\ job \in [Procs -> JobType]

Infers(p) == job[p].kind \in {"quick", "paper"}
Quick(i)  == log[i].kind = "quick"

(* An operation is at a point of its kind, and holds its locks exactly there.*)
Staged(p) ==
  /\ job[p].pc # "idle" => job[p].kind \in Kinds /\ job[p].pc \in Points(job[p].kind)
  /\ (cycleLock = p) <=> job[p].pc # "idle" /\ job[p].kind \in Cycles
  /\ (logLock = p) <=> job[p].pc = "append"

(* The bundle it chose or exported exists, and stays. *)
Named(p) ==
  /\ job[p].pc = "rename" => job[p].name \in Names
  /\ (job[p].pc = "promote" \/ (Infers(p) /\ job[p].pc \in Judging))
       => job[p].name \in Names /\ bundle[job[p].name] # None

(* A cycle works on its own ingestion or a newer one, and all signals of     *)
(* earlier cycles are older.                                                 *)
Advancing(p) ==
  (job[p].kind \in Cycles /\ job[p].pc \notin {"idle", "ingest"})
    => /\ job[p].own <= current
       /\ job[p].pc \notin {"resolve", "capture"}
            => job[p].own <= job[p].gen /\ job[p].gen <= current
       /\ job[p].kind = "quick" => \A i \in 1..Len(log) : Quick(i) => log[i].gen < job[p].own

(* What was copied so far is of the version that was verified. *)
Copied(p) ==
  /\ job[p].pc = "copy" => \A f \in Payload \ job[p].todo : job[p].loaded[f] = job[p].verified
  /\ job[p].pc \in Loaded => \A f \in Payload : job[p].loaded[f] = job[p].verified

(* While no writer changed a bundle in place, what was read of the manifest  *)
(* is what it still says.                                                    *)
Undisturbed(p) ==
  /\ rewrites = 0 =>
       /\ job[p].pc \in (Loading \ {"open"}) \cup {"promote"}
            => bundle[job[p].name]["manifest"] = job[p].verified
       /\ job[p].pc \in {"lock", "append"} => job[p].hash = job[p].verified
  /\ job[p].champion # None =>
       /\ Infers(p) /\ job[p].pc \in Judging
       /\ rewrites = 0 => bundle[job[p].name]["manifest"] = job[p].champion

LogIsPast == \A i \in 1..Len(log) : Quick(i) => log[i].gen <= current

IInv == /\ TypeOK
        /\ \A p \in Procs : /\ Staged(p) /\ Named(p) /\ Advancing(p)
                             /\ Copied(p) /\ Undisturbed(p)
        /\ LogIsPast
        /\ SignalIsOfOnePiece /\ SignalsAdvance /\ LoggedHashIsLoaded /\ CyclePromotesItsOwn
================================================================================
