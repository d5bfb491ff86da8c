------------------------ MODULE GenerationStoreProofs ------------------------
(***************************************************************************)
(* The inductive invariant of GenerationStore, and what follows from it.   *)
(***************************************************************************)
EXTENDS GenerationStore, TLAPS

(* A step of a reader disturbs nothing the jobs and the disk rely on. *)
LEMMA JobsUntouched ==
  ASSUME IInv, UNCHANGED <<current, lock, disk, jobs, aux>>
  PROVE  /\ Serial' /\ Traces'
         /\ \A i \in Jobs : (CaptureFresh(i) /\ TargetOwned(i) /\ DoomedIsRubble(i))'
         /\ PublishedStayComplete' /\ MergedOntoOneBase'
BY DistinctNames DEF IInv, TypeOK, Serial, Traces, CaptureFresh, TargetOwned,
   DoomedIsRubble, ReaderSound, PublishedStayComplete, CapturedViewIsWhole,
   MergedOntoOneBase, Verified, Nothing, disk, jobs, aux

(* A step that leaves the readers alone keeps their invariants, as long as  *)
(* published and rotten only grow.                                          *)
LEMMA ReadersUntouched ==
  ASSUME IInv, UNCHANGED readers,
         published \subseteq published', rotten \subseteq rotten'
  PROVE  (\A r \in Readers : ReaderSound(r)') /\ CapturedViewIsWhole'
BY DistinctNames DEF IInv, TypeOK, Serial, Traces, CaptureFresh, TargetOwned,
   DoomedIsRubble, ReaderSound, PublishedStayComplete, CapturedViewIsWhole,
   MergedOntoOneBase, Verified, Nothing, readers

(* A step that leaves the disk and CURRENT alone keeps what was published.  *)
LEMMA PublishedUntouched ==
  ASSUME IInv, UNCHANGED <<current, disk, published>>
  PROVE  PublishedStayComplete' /\ MergedOntoOneBase'
BY DistinctNames DEF IInv, TypeOK, Serial, Traces, CaptureFresh, TargetOwned,
   DoomedIsRubble, ReaderSound, PublishedStayComplete, CapturedViewIsWhole,
   MergedOntoOneBase, Verified, Nothing, disk

LEMMA StartStep ==
  ASSUME IInv, NEW j \in Jobs, Start(j)
  PROVE  IInv'
<1>1. TypeOK'
  BY DistinctNames DEF IInv, TypeOK, Start, disk, readers, aux, Building,
     JobPoints
<1>2. Serial'
  BY DistinctNames DEF IInv, TypeOK, Serial, Start
<1>3. Traces'
  BY DistinctNames DEF IInv, Traces, Start, disk, aux
<1>4. \A i \in Jobs : CaptureFresh(i)'
  BY DistinctNames DEF IInv, CaptureFresh, Start
<1>5. \A i \in Jobs : TargetOwned(i)'
  BY DistinctNames DEF IInv, TargetOwned, Start, disk, aux
<1>6. \A i \in Jobs : DoomedIsRubble(i)'
  BY DistinctNames DEF IInv, DoomedIsRubble, Verified, Start, disk
<1>7. /\ UNCHANGED readers
     /\ published \subseteq published' /\ rotten \subseteq rotten'
  BY DEF Start, aux, disk
<1>8. UNCHANGED <<current, disk, published>>
  BY DEF Start, aux
<1> QED
  BY <1>1, <1>2, <1>3, <1>4, <1>5, <1>6, <1>7, <1>8, PublishedUntouched,
     ReadersUntouched DEF IInv

LEMMA ScanStep ==
  ASSUME IInv, NEW j \in Jobs, Scan(j)
  PROVE  IInv'
<1>1. TypeOK'
  BY DistinctNames DEF IInv, TypeOK, Scan, Abandoned, disk, readers, aux,
     Building, JobPoints
<1>2. Serial'
  BY DistinctNames DEF IInv, Serial, Scan
<1>3. Traces'
  BY DistinctNames DEF IInv, Traces, Scan, disk, aux
<1>4. \A i \in Jobs : CaptureFresh(i)'
  BY DistinctNames DEF IInv, CaptureFresh, Scan
<1>5. \A i \in Jobs : TargetOwned(i)'
  BY DistinctNames DEF IInv, TargetOwned, Scan, disk, aux
<1>6. \A i \in Jobs : DoomedIsRubble(i)'
  BY DistinctNames DEF IInv, TypeOK, DoomedIsRubble, Verified, Scan,
     Abandoned, disk
<1>7. /\ UNCHANGED readers
     /\ published \subseteq published' /\ rotten \subseteq rotten'
  BY DEF Scan, Abandoned, aux, disk
<1>8. UNCHANGED <<current, disk, published>>
  BY DEF Scan, Abandoned, aux
<1> QED
  BY <1>1, <1>2, <1>3, <1>4, <1>5, <1>6, <1>7, <1>8, PublishedUntouched,
     ReadersUntouched DEF IInv

LEMMA UnlinkStep ==
  ASSUME IInv, NEW j \in Jobs, NEW h \in Generations, NEW a \in Artifacts, Unlink(j, h, a)
  PROVE  IInv'
<1>a. /\ files' \in [Generations -> SUBSET Artifacts]
     /\ \A g \in Generations : files'[g] \subseteq files[g]
     /\ \A k \in Generations : k # h => files'[k] = files[k]
  BY DEF IInv, TypeOK, Unlink
<1>b. h # current /\ ~Verified(h)
  BY DEF IInv, DoomedIsRubble, Unlink
<1>c. \A i \in Jobs : pc[i] \notin Building /\ pc'[i] = pc[i]
  BY DEF IInv, Serial, Building, jobs, Unlink
<1>1. TypeOK'
  BY DistinctNames DEF IInv, TypeOK, Unlink, jobs, readers, aux
<1>2. Serial'
  BY DistinctNames DEF IInv, Serial, Unlink, jobs
<1>3. Traces'
  BY DistinctNames, <1>a DEF IInv, Traces, Unlink, aux
<1>4. \A i \in Jobs : CaptureFresh(i)'
  BY DistinctNames DEF IInv, CaptureFresh, Unlink, jobs
<1>5. \A i \in Jobs : TargetOwned(i)'
  BY DistinctNames, <1>c DEF IInv, TypeOK, TargetOwned
<1>6. \A i \in Jobs : DoomedIsRubble(i)'
  BY DistinctNames, <1>a, <1>b DEF IInv, DoomedIsRubble, Verified, Unlink,
     jobs
<1>7. PublishedStayComplete'
  BY DistinctNames, <1>a, <1>b DEF IInv, TypeOK, PublishedStayComplete,
     Unlink, disk, jobs, aux, Verified
<1>8. MergedOntoOneBase'
  BY DistinctNames DEF IInv, MergedOntoOneBase, Unlink, aux
<1>9. /\ UNCHANGED readers
     /\ published \subseteq published' /\ rotten \subseteq rotten'
  BY DEF Unlink, aux, disk
<1> QED
  BY <1>1, <1>2, <1>3, <1>4, <1>5, <1>6, <1>7, <1>8, <1>9, ReadersUntouched
     DEF IInv

LEMMA RemoveDirectoryStep ==
  ASSUME IInv, NEW j \in Jobs, NEW h \in Generations, RemoveDirectory(j, h)
  PROVE  IInv'
<1>b. h # current /\ ~Verified(h)
  BY DEF IInv, DoomedIsRubble, RemoveDirectory
<1>c. \A i \in Jobs : pc[i] \notin Building /\ pc'[i] = pc[i]
  BY DEF IInv, Serial, Building, RemoveDirectory
<1>1. TypeOK'
  BY DEF IInv, TypeOK, RemoveDirectory, readers, aux
<1>2. Serial'
  BY DistinctNames DEF IInv, Serial, RemoveDirectory
<1>3. Traces'
  BY DistinctNames DEF IInv, Traces, RemoveDirectory, aux
<1>4. \A i \in Jobs : CaptureFresh(i)'
  BY DistinctNames DEF IInv, CaptureFresh, RemoveDirectory
<1>5. \A i \in Jobs : TargetOwned(i)'
  BY DistinctNames, <1>c DEF IInv, TypeOK, TargetOwned
<1>6. \A i \in Jobs : DoomedIsRubble(i)'
  BY DistinctNames DEF IInv, DoomedIsRubble, Verified, RemoveDirectory
<1>7. PublishedStayComplete'
  BY DistinctNames, <1>b DEF IInv, TypeOK, PublishedStayComplete,
     RemoveDirectory, disk, jobs, aux, Verified
<1>8. MergedOntoOneBase'
  BY DistinctNames DEF IInv, MergedOntoOneBase, RemoveDirectory, aux
<1>9. /\ UNCHANGED readers
     /\ published \subseteq published' /\ rotten \subseteq rotten'
  BY DEF RemoveDirectory, aux, disk
<1> QED
  BY <1>1, <1>2, <1>3, <1>4, <1>5, <1>6, <1>7, <1>8, <1>9, ReadersUntouched
     DEF IInv

LEMMA LeaveStep ==
  ASSUME IInv, NEW j \in Jobs, pc[j] # "idle", Leave(j),
         UNCHANGED <<current, disk, readers, issued, published>>,
         temps' \subseteq Generations, interrupts' \in Nat
  PROVE  IInv'
<1>1. TypeOK'
  BY DistinctNames DEF IInv, TypeOK, Leave, disk, readers, Source, Building,
     Nothing, JobPoints
<1>2. Serial'
  BY DistinctNames DEF IInv, TypeOK, Serial, Leave
<1>3. Traces'
  BY DistinctNames DEF IInv, Traces, disk
<1>4. \A i \in Jobs : CaptureFresh(i)'
  BY DistinctNames DEF IInv, TypeOK, CaptureFresh, Leave
<1>5. \A i \in Jobs : TargetOwned(i)'
  BY DistinctNames DEF IInv, TypeOK, TargetOwned, Leave, disk
<1>6. \A i \in Jobs : DoomedIsRubble(i)'
  BY DistinctNames DEF IInv, TypeOK, DoomedIsRubble, Verified, Leave, disk
<1>7. /\ UNCHANGED readers
     /\ published \subseteq published' /\ rotten \subseteq rotten'
  BY DEF Leave, aux, disk
<1>8. UNCHANGED <<current, disk, published>>
  BY DEF Leave, aux
<1> QED
  BY <1>1, <1>2, <1>3, <1>4, <1>5, <1>6, <1>7, <1>8, PublishedUntouched,
     ReadersUntouched DEF IInv

LEMMA CaptureStep ==
  ASSUME IInv, NEW j \in Jobs, Capture(j)
  PROVE  IInv'
<1>1. TypeOK'
  BY DistinctNames DEF IInv, TypeOK, Capture, disk, readers, aux, Building,
     JobPoints
<1>2. Serial'
  BY DistinctNames DEF IInv, Serial, Capture
<1>3. Traces'
  BY DistinctNames DEF IInv, Traces, Capture, disk, aux
<1>4. \A i \in Jobs : CaptureFresh(i)'
  BY DistinctNames DEF IInv, TypeOK, CaptureFresh, Capture, disk, Nothing
<1>5. \A i \in Jobs : TargetOwned(i)'
  BY DistinctNames DEF IInv, TargetOwned, Capture, disk, aux
<1>6. \A i \in Jobs : DoomedIsRubble(i)'
  BY DistinctNames DEF IInv, DoomedIsRubble, Verified, Capture, disk
<1>7. /\ UNCHANGED readers
     /\ published \subseteq published' /\ rotten \subseteq rotten'
  BY DEF Capture, aux, disk
<1>8. UNCHANGED <<current, disk, published>>
  BY DEF Capture, aux
<1> QED
  BY <1>1, <1>2, <1>3, <1>4, <1>5, <1>6, <1>7, <1>8, PublishedUntouched,
     ReadersUntouched DEF IInv

LEMMA FetchVenueStep ==
  ASSUME IInv, NEW j \in Jobs, NEW w \in Venues, FetchVenue(j, w)
  PROVE  IInv'
<1>1. TypeOK'
  BY DistinctNames DEF IInv, TypeOK, FetchVenue, MarketPath, disk, readers,
     aux
<1>2. Serial'
  BY DistinctNames DEF IInv, Serial, FetchVenue
<1>3. Traces'
  BY DistinctNames DEF IInv, Traces, FetchVenue, disk, aux
<1>4. \A i \in Jobs : CaptureFresh(i)'
  BY DistinctNames DEF IInv, CaptureFresh, FetchVenue, MarketPath
<1>5. \A i \in Jobs : TargetOwned(i)'
  BY DistinctNames DEF IInv, TargetOwned, FetchVenue, disk, aux
<1>6. \A i \in Jobs : DoomedIsRubble(i)'
  BY DistinctNames DEF IInv, TypeOK, DoomedIsRubble, Verified, FetchVenue,
     disk
<1>7. /\ UNCHANGED readers
     /\ published \subseteq published' /\ rotten \subseteq rotten'
  BY DEF FetchVenue, MarketPath, aux, disk
<1>8. UNCHANGED <<current, disk, published>>
  BY DEF FetchVenue, MarketPath, aux
<1> QED
  BY <1>1, <1>2, <1>3, <1>4, <1>5, <1>6, <1>7, <1>8, PublishedUntouched,
     ReadersUntouched DEF IInv

LEMMA CreateGenerationStep ==
  ASSUME IInv, NEW j \in Jobs, CreateGeneration(j)
  PROVE  IInv'
<1>1. TypeOK'
  BY DistinctNames DEF IInv, TypeOK, CreateGeneration, disk, readers, Source,
     Building, JobPoints
<1>2. Serial'
  BY DistinctNames DEF IInv, Serial, CreateGeneration
<1>3. Traces'
  BY DistinctNames DEF IInv, Traces, CreateGeneration
<1>4. \A i \in Jobs : CaptureFresh(i)'
  BY DistinctNames DEF IInv, CaptureFresh, CreateGeneration
<1>5. \A i \in Jobs : TargetOwned(i)'
  BY DistinctNames DEF IInv, TypeOK, TargetOwned, CreateGeneration, disk,
     jobs, readers, aux, Traces, CaptureFresh
<1>6. \A i \in Jobs : DoomedIsRubble(i)'
  BY DistinctNames DEF IInv, DoomedIsRubble, Verified, CreateGeneration
<1>7. PublishedStayComplete'
  BY DistinctNames DEF IInv, PublishedStayComplete, CreateGeneration
<1>8. MergedOntoOneBase'
  BY DistinctNames DEF IInv, TypeOK, MergedOntoOneBase, CreateGeneration,
     disk, jobs, Traces
<1>9. /\ UNCHANGED readers
     /\ published \subseteq published' /\ rotten \subseteq rotten'
  BY DEF CreateGeneration, aux, disk
<1> QED
  BY <1>1, <1>2, <1>3, <1>4, <1>5, <1>6, <1>7, <1>8, <1>9, ReadersUntouched
     DEF IInv

LEMMA WriteStep ==
  ASSUME IInv, NEW j \in Jobs, NEW a \in Artifacts, Write(j, a)
  PROVE  IInv'
<1>a. /\ files' \in [Generations -> SUBSET Artifacts]
     /\ \A g \in Generations : files[g] \subseteq files'[g]
     /\ \A k \in Generations : k # target[j] => files'[k] = files[k]
     /\ pc[j] = "writing" /\ target[j] \in Generations
  BY DEF IInv, TypeOK, Building, Source, Write
<1>b. \A i \in Jobs : doomed[i] = {}
  BY DEF IInv, Serial, DoomedIsRubble, Write
<1>1. TypeOK'
  BY DistinctNames DEF IInv, TypeOK, Write, jobs, readers, aux
<1>2. Serial'
  BY DistinctNames DEF IInv, Serial, Write, jobs
<1>3. Traces'
  BY DistinctNames DEF IInv, TypeOK, Traces, Write, disk, jobs, readers, aux,
     TargetOwned
<1>4. \A i \in Jobs : CaptureFresh(i)'
  BY DistinctNames DEF IInv, CaptureFresh, Write, jobs
<1>5. \A i \in Jobs : TargetOwned(i)'
  BY DistinctNames, <1>a DEF IInv, TargetOwned, Write, jobs, aux
<1>6. \A i \in Jobs : DoomedIsRubble(i)'
  BY DistinctNames, <1>a, <1>b DEF IInv, DoomedIsRubble, Write, jobs
<1>7. PublishedStayComplete'
  BY DistinctNames, <1>a DEF IInv, PublishedStayComplete, Write, aux
<1>8. MergedOntoOneBase'
  BY DistinctNames DEF IInv, MergedOntoOneBase, Write, aux
<1>9. /\ UNCHANGED readers
     /\ published \subseteq published' /\ rotten \subseteq rotten'
  BY DEF Write, aux, disk
<1> QED
  BY <1>1, <1>2, <1>3, <1>4, <1>5, <1>6, <1>7, <1>8, <1>9, ReadersUntouched
     DEF IInv

LEMMA SealStep ==
  ASSUME IInv, NEW j \in Jobs, Seal(j)
  PROVE  IInv'
<1>1. TypeOK'
  BY DistinctNames DEF IInv, TypeOK, Seal, disk, readers, aux, Source,
     Building, JobPoints
<1>2. Serial'
  BY DistinctNames DEF IInv, Serial, Seal
<1>3. Traces'
  BY DistinctNames DEF IInv, Traces, Seal, aux
<1>4. \A i \in Jobs : CaptureFresh(i)'
  BY DistinctNames DEF IInv, CaptureFresh, Seal
<1>5. \A i \in Jobs : TargetOwned(i)'
  BY DistinctNames DEF IInv, TypeOK, TargetOwned, Seal, disk, jobs, aux,
     Verified
<1>6. \A i \in Jobs : DoomedIsRubble(i)'
  BY DistinctNames DEF IInv, DoomedIsRubble, Verified, Seal
<1>7. PublishedStayComplete'
  BY DistinctNames DEF IInv, PublishedStayComplete, Seal, aux
<1>8. MergedOntoOneBase'
  BY DistinctNames DEF IInv, MergedOntoOneBase, Seal, aux
<1>9. /\ UNCHANGED readers
     /\ published \subseteq published' /\ rotten \subseteq rotten'
  BY DEF Seal, aux, disk
<1> QED
  BY <1>1, <1>2, <1>3, <1>4, <1>5, <1>6, <1>7, <1>8, <1>9, ReadersUntouched
     DEF IInv

LEMMA PreparePointerStep ==
  ASSUME IInv, NEW j \in Jobs, PreparePointer(j)
  PROVE  IInv'
<1>1. TypeOK'
  BY DistinctNames DEF IInv, TypeOK, PreparePointer, disk, readers, aux,
     Source, Building, JobPoints
<1>2. Serial'
  BY DistinctNames DEF IInv, Serial, PreparePointer
<1>3. Traces'
  BY DistinctNames DEF IInv, Traces, PreparePointer, disk, aux
<1>4. \A i \in Jobs : CaptureFresh(i)'
  BY DistinctNames DEF IInv, CaptureFresh, PreparePointer
<1>5. \A i \in Jobs : TargetOwned(i)'
  BY DistinctNames DEF IInv, TargetOwned, PreparePointer, disk, aux
<1>6. \A i \in Jobs : DoomedIsRubble(i)'
  BY DistinctNames DEF IInv, DoomedIsRubble, Verified, PreparePointer, disk
<1>7. /\ UNCHANGED readers
     /\ published \subseteq published' /\ rotten \subseteq rotten'
  BY DEF PreparePointer, aux, disk
<1>8. UNCHANGED <<current, disk, published>>
  BY DEF PreparePointer, aux
<1> QED
  BY <1>1, <1>2, <1>3, <1>4, <1>5, <1>6, <1>7, <1>8, PublishedUntouched,
     ReadersUntouched DEF IInv

LEMMA SwapPointerStep ==
  ASSUME IInv, NEW j \in Jobs, SwapPointer(j)
  PROVE  IInv'
<1>a. \A i \in Jobs : doomed'[i] = {}
  BY DEF IInv, Serial, DoomedIsRubble, SwapPointer
<1>1. TypeOK'
  BY DistinctNames DEF IInv, TypeOK, SwapPointer, disk, readers, Source,
     Building, JobPoints
<1>2. Serial'
  BY DistinctNames DEF IInv, Serial, SwapPointer
<1>3. Traces'
  BY DistinctNames DEF IInv, TypeOK, Traces, SwapPointer, disk, jobs, readers,
     aux, TargetOwned
<1>4. \A i \in Jobs : CaptureFresh(i)'
  BY DistinctNames DEF IInv, TypeOK, CaptureFresh, SwapPointer, Serial
<1>5. \A i \in Jobs : TargetOwned(i)'
  BY DistinctNames DEF IInv, TypeOK, TargetOwned, SwapPointer, Building,
     Serial
<1>6. \A i \in Jobs : DoomedIsRubble(i)'
  BY DistinctNames, <1>a DEF IInv, DoomedIsRubble
<1>7. PublishedStayComplete'
  BY DistinctNames DEF IInv, TypeOK, PublishedStayComplete, SwapPointer, disk,
     jobs, readers, aux, Source, TargetOwned
<1>8. MergedOntoOneBase'
  BY DistinctNames DEF IInv, TypeOK, MergedOntoOneBase, SwapPointer, disk,
     jobs, readers, aux, Source, TargetOwned
<1>9. /\ UNCHANGED readers
     /\ published \subseteq published' /\ rotten \subseteq rotten'
  BY DEF SwapPointer, aux, disk
<1> QED
  BY <1>1, <1>2, <1>3, <1>4, <1>5, <1>6, <1>7, <1>8, <1>9, ReadersUntouched
     DEF IInv

LEMMA ReadPointerStep ==
  ASSUME IInv, NEW q \in Readers, ReadPointer(q)
  PROVE  IInv'
<1>1. TypeOK'
  BY DistinctNames DEF IInv, TypeOK, ReadPointer, disk, jobs, aux,
     ReaderPoints
<1>2. \A r \in Readers : ReaderSound(r)'
  BY DistinctNames DEF IInv, TypeOK, ReaderSound, ReadPointer, disk, jobs,
     aux, Traces
<1>4. UNCHANGED <<current, lock, disk, jobs, aux>>
  BY DEF ReadPointer, aux
<1>3. CapturedViewIsWhole'
  <2>1. rotten' = rotten /\ seen' = seen
    BY DEF ReadPointer, disk
  <2>2. ASSUME NEW r \in Readers, r # q
        PROVE  view'[r] = view[r]
    BY <2>2 DEF IInv, TypeOK, ReadPointer
  <2>3. \A v \in Venues : seen[q][v] = Unread
    BY DistinctNames DEF IInv, ReaderSound, ReadPointer, Nothing
  <2> QED BY <2>1, <2>2, <2>3 DEF IInv, CapturedViewIsWhole
<1> QED
  BY <1>1, <1>2, <1>3, <1>4, JobsUntouched DEF IInv

LEMMA VerifyViewStep ==
  ASSUME IInv, NEW q \in Readers, VerifyView(q)
  PROVE  IInv'
<1>1. TypeOK'
  BY DistinctNames DEF IInv, TypeOK, VerifyView, disk, jobs, aux, ReaderPoints
<1>2. \A r \in Readers : ReaderSound(r)'
  BY DistinctNames DEF IInv, ReaderSound, VerifyView, aux
<1>3. CapturedViewIsWhole'
  BY DistinctNames DEF IInv, CapturedViewIsWhole, VerifyView, disk
<1>4. UNCHANGED <<current, lock, disk, jobs, aux>>
  BY DEF VerifyView, aux
<1> QED
  BY <1>1, <1>2, <1>3, <1>4, JobsUntouched DEF IInv

LEMMA ReadVenueStep ==
  ASSUME IInv, NEW q \in Readers, NEW w \in Venues, ReadVenue(q, w)
  PROVE  IInv'
<1>a. /\ seen' \in [Readers -> [Venues -> Source \cup {Unread, Missing}]]
     /\ \A r \in Readers, v \in Venues :
           ~(r = q /\ v = w) => seen'[r][v] = seen[r][v]
  BY DEF IInv, TypeOK, ReadVenue, MarketPath
<1>b. view[q] # NoGen /\ view[q] \notin rotten => seen'[q][w] = view[q]
  BY DistinctNames DEF IInv, TypeOK, ReadVenue, MarketPath, ReaderSound,
     PublishedStayComplete, Artifacts
<1>1. TypeOK'
  BY DistinctNames, <1>a DEF IInv, TypeOK, ReadVenue, disk, jobs, aux
<1>2. \A r \in Readers : ReaderSound(r)'
  BY DistinctNames DEF IInv, ReaderSound, ReadVenue, aux
<1>3. CapturedViewIsWhole'
  BY DistinctNames, <1>a, <1>b DEF IInv, CapturedViewIsWhole, ReadVenue, disk
<1>4. UNCHANGED <<current, lock, disk, jobs, aux>>
  BY DEF ReadVenue, MarketPath, aux
<1> QED
  BY <1>1, <1>2, <1>3, <1>4, JobsUntouched DEF IInv

LEMMA FinishStep ==
  ASSUME IInv, NEW q \in Readers, Finish(q)
  PROVE  IInv'
<1>1. TypeOK'
  BY DistinctNames DEF IInv, TypeOK, Finish, disk, jobs, aux, Source, Nothing,
     ReaderPoints
<1>2. \A r \in Readers : ReaderSound(r)'
  BY DistinctNames DEF IInv, TypeOK, ReaderSound, Finish, aux
<1>3. CapturedViewIsWhole'
  BY DistinctNames DEF IInv, TypeOK, CapturedViewIsWhole, Finish, disk
<1>4. UNCHANGED <<current, lock, disk, jobs, aux>>
  BY DEF Finish, aux
<1> QED
  BY <1>1, <1>2, <1>3, <1>4, JobsUntouched DEF IInv

LEMMA RotStep ==
  ASSUME IInv, NEW h \in Generations, Rot(h)
  PROVE  IInv'
<1>1. TypeOK'
  BY DEF IInv, TypeOK, Rot, jobs, readers, aux
<1>2. Serial'
  BY DistinctNames DEF IInv, Serial, Rot, jobs
<1>3. Traces'
  BY DistinctNames DEF IInv, Traces, Rot, aux
<1>4. \A i \in Jobs : CaptureFresh(i)'
  BY DistinctNames DEF IInv, CaptureFresh, Rot, jobs
<1>5. \A i \in Jobs : TargetOwned(i)'
  BY DistinctNames DEF IInv, TargetOwned, Rot, jobs, aux
<1>6. \A i \in Jobs : DoomedIsRubble(i)'
  BY DistinctNames DEF IInv, DoomedIsRubble, Verified, Rot, jobs
<1>7. PublishedStayComplete'
  BY DistinctNames DEF IInv, PublishedStayComplete, Rot, aux
<1>8. MergedOntoOneBase'
  BY DistinctNames DEF IInv, MergedOntoOneBase, Rot, aux
<1>9. /\ UNCHANGED readers
     /\ published \subseteq published' /\ rotten \subseteq rotten'
  BY DEF Rot, aux, disk
<1> QED
  BY <1>1, <1>2, <1>3, <1>4, <1>5, <1>6, <1>7, <1>8, <1>9, ReadersUntouched
     DEF IInv

LEMMA Initially == Init => IInv
<1> SUFFICES ASSUME Init PROVE IInv
  OBVIOUS
<1>1. TypeOK
  BY DistinctNames, BoundsOK DEF Init, TypeOK, Source, JobPoints, ReaderPoints,
     Building, Nothing
<1>2. Serial /\ Traces /\ PublishedStayComplete /\ MergedOntoOneBase
  BY DistinctNames DEF Init, Serial, Traces, PublishedStayComplete,
     MergedOntoOneBase
<1>3. \A j \in Jobs : CaptureFresh(j) /\ TargetOwned(j) /\ DoomedIsRubble(j)
  BY DEF Init, CaptureFresh, TargetOwned, DoomedIsRubble, Building
<1>4. (\A r \in Readers : ReaderSound(r)) /\ CapturedViewIsWhole
  BY DEF Init, ReaderSound, CapturedViewIsWhole
<1> QED
  BY <1>1, <1>2, <1>3, <1>4 DEF IInv

LEMMA StutterStep ==
  ASSUME IInv, UNCHANGED vars
  PROVE  IInv'
<1>1. TypeOK'
  BY DEF IInv, TypeOK, vars, disk, jobs, readers, aux
<1>2. UNCHANGED <<current, lock, disk, jobs, readers, aux>>
  BY DEF vars
<1>3. published \subseteq published' /\ rotten \subseteq rotten'
  BY <1>2 DEF aux, disk
<1> QED
  BY <1>1, <1>2, <1>3, JobsUntouched, ReadersUntouched DEF IInv

(* A job that ends without another effect. *)
LEMMA ReleaseStep ==
  ASSUME IInv, NEW j \in Jobs, pc[j] # "idle", Release(j)
  PROVE  IInv'
<1>1. /\ UNCHANGED <<current, disk, readers, issued, published>>
      /\ temps' \subseteq Generations /\ interrupts' \in Nat
  BY DEF IInv, TypeOK, Release, aux
<1> QED
  BY <1>1, LeaveStep DEF Release

LEMMA CleanStep ==
  ASSUME IInv, NEW j \in Jobs, Clean(j)
  PROVE  IInv'
<1>1. CASE Scan(j)
  BY <1>1, ScanStep
<1>2. CASE \E g \in Generations :
              RemoveDirectory(j, g) \/ \E a \in Artifacts : Unlink(j, g, a)
  BY <1>2, RemoveDirectoryStep, UnlinkStep
<1>3. CASE RemoveRefused(j) \/ PointerBroken(j)
  BY <1>3, ReleaseStep DEF RemoveRefused, PointerBroken
<1>4. CASE Capture(j)
  BY <1>4, CaptureStep
<1> QED
  BY <1>1, <1>2, <1>3, <1>4 DEF Clean

LEMMA IngestStep ==
  ASSUME IInv, NEW j \in Jobs, Ingest(j)
  PROVE  IInv'
<1>1. CASE \E v \in Venues : FetchVenue(j, v)
  BY <1>1, FetchVenueStep
<1>2. CASE Reject(j) \/ VerifyFailed(j) \/ Return(j)
  BY <1>2, ReleaseStep DEF Reject, VerifyFailed, Return
<1>3. CASE CreateGeneration(j)
  BY <1>3, CreateGenerationStep
<1>4. CASE \E a \in Artifacts : Write(j, a)
  BY <1>4, WriteStep
<1>5. CASE Seal(j) \/ PreparePointer(j) \/ SwapPointer(j)
  BY <1>5, SealStep, PreparePointerStep, SwapPointerStep
<1> QED
  BY <1>1, <1>2, <1>3, <1>4, <1>5 DEF Ingest

LEMMA InterruptStep ==
  ASSUME IInv, NEW j \in Jobs, Interrupt(j)
  PROVE  IInv'
<1>1. /\ pc[j] # "idle" /\ Leave(j)
      /\ UNCHANGED <<current, disk, readers, issued, published>>
      /\ interrupts' \in Nat
  BY DEF Interrupt, Exception, Kill, IInv, TypeOK
<1>2. temps' \subseteq Generations
  BY DEF Interrupt, Exception, Kill, IInv, TypeOK
<1> QED
  BY <1>1, <1>2, LeaveStep

(* The invariant is inductive: every step of every job, reader and fault,   *)
(* for any number of them, preserves it.                                   *)
THEOREM Inductive == IInv /\ [Next]_vars => IInv'
<1> SUFFICES ASSUME IInv, [Next]_vars PROVE IInv'
  OBVIOUS
<1>1. CASE UNCHANGED vars
  BY <1>1, StutterStep
<1>2. ASSUME NEW j \in Jobs, Start(j) \/ Clean(j) \/ Ingest(j) \/ Interrupt(j)
      PROVE  IInv'
  BY <1>2, StartStep, CleanStep, IngestStep, InterruptStep
<1>3. ASSUME NEW r \in Readers, Read(r)
      PROVE  IInv'
  BY <1>3, ReadPointerStep, VerifyViewStep, ReadVenueStep, FinishStep DEF Read
<1>4. ASSUME NEW g \in Generations, Rot(g)
      PROVE  IInv'
  BY <1>4, RotStep
<1> QED
  BY <1>1, <1>2, <1>3, <1>4 DEF Next

(* It holds in every reachable state of the store.                          *)
THEOREM Invariance == Spec => []IInv
<1>1. Init => IInv
  BY Initially
<1>2. IInv /\ [Next]_vars => IInv'
  BY Inductive
<1> QED
  BY <1>1, <1>2, PTL DEF Spec

(* Every variable keeps its type, and a job has a target generation exactly *)
(* from its creation to the end of the job.                                *)
THEOREM TypeCorrect == Spec => []TypeOK
<1>1. IInv => TypeOK
  BY DEF IInv
<1> QED
  BY <1>1, Invariance, PTL

(* CURRENT and every generation it ever named keep all their artifacts,     *)
(* unless their bytes rot (storage.publish_generation,                      *)
(* storage.cleanup_abandoned_generations).                                  *)
THEOREM PublishedAreComplete == Spec => []PublishedStayComplete
<1>1. IInv => PublishedStayComplete
  BY DEF IInv
<1> QED
  BY <1>1, Invariance, PTL

(* A reader with a captured generation never sees a venue of another one    *)
(* (storage.market_path).                                                  *)
THEOREM CapturesAreWhole == Spec => []CapturedViewIsWhole
<1>1. IInv => CapturedViewIsWhole
  BY DEF IInv
<1> QED
  BY <1>1, Invariance, PTL

(* Every published generation is merged onto its manifest's predecessor,    *)
(* for all of its venues (ingest._ingest_market_data_unlocked).             *)
THEOREM MergesAreWhole == Spec => []MergedOntoOneBase
<1>1. IInv => MergedOntoOneBase
  BY DEF IInv
<1> QED
  BY <1>1, Invariance, PTL

-----------------------------------------------------------------------------
(* Only the swap of the pointer writes CURRENT. *)
LEMMA OnlySwapWritesCurrent ==
  ASSUME [Next]_vars, current' # current
  PROVE  \E j \in Jobs : SwapPointer(j)
<1>1. ASSUME NEW j \in Jobs, Start(j) \/ Clean(j) \/ Interrupt(j)
      PROVE  FALSE
  BY <1>1 DEF Start, Clean, Scan, RemoveDirectory, Unlink, RemoveRefused,
     Capture, PointerBroken, Release, Interrupt, Exception, Kill
<1>2. ASSUME NEW j \in Jobs, Ingest(j)
      PROVE  SwapPointer(j)
  BY <1>2 DEF Ingest, FetchVenue, Reject, CreateGeneration, Write, Seal,
     PreparePointer, VerifyFailed, Return, Release
<1>3. ASSUME NEW r \in Readers, Read(r)
      PROVE  FALSE
  BY <1>3 DEF Read, ReadPointer, VerifyView, ReadVenue, Finish
<1> QED
  BY <1>1, <1>2, <1>3 DEF Next, Rot, vars

(* Every publication succeeds the generation its candles were merged onto,  *)
(* so no concurrent ingestion is overwritten (ingest.ingest_market_data).   *)
THEOREM HistoryIsLinear == Spec => LinearHistory
<1>1. ASSUME IInv, [Next]_vars
      PROVE  [current' # current => prev[current'] = current]_current
  <2> SUFFICES ASSUME current' # current PROVE prev[current'] = current
    OBVIOUS
  <2>1. PICK j \in Jobs : SwapPointer(j)
    BY <1>1, OnlySwapWritesCurrent
  <2> QED
    BY <1>1, <2>1 DEF IInv, SwapPointer, CaptureFresh, TargetOwned
<1> QED
  BY <1>1, Invariance, PTL DEF Spec, LinearHistory

(* Only Unlink removes a file. *)
LEMMA OnlyUnlinkRemoves ==
  ASSUME IInv, [Next]_vars, NEW g \in Generations, ~(files[g] \subseteq files'[g])
  PROVE  \E j \in Jobs, a \in Artifacts : Unlink(j, g, a)
<1>1. ASSUME NEW j \in Jobs, Start(j) \/ Interrupt(j)
      PROVE  FALSE
  BY <1>1 DEF Start, Interrupt, Exception, Kill, disk
<1>2. ASSUME NEW j \in Jobs, Clean(j)
      PROVE  \E a \in Artifacts : Unlink(j, g, a)
  BY <1>2 DEF Clean, Scan, RemoveDirectory, Unlink, RemoveRefused, Capture,
     PointerBroken, Release, disk, IInv, TypeOK
<1>3. ASSUME NEW j \in Jobs, Ingest(j)
      PROVE  FALSE
  BY <1>3 DEF Ingest, FetchVenue, Reject, CreateGeneration, Write, Seal,
     PreparePointer, VerifyFailed, SwapPointer, Return, Release, disk, IInv,
     TypeOK
<1>4. ASSUME NEW r \in Readers, Read(r)
      PROVE  FALSE
  BY <1>4 DEF Read, ReadPointer, VerifyView, ReadVenue, Finish, disk
<1> QED
  BY <1>1, <1>2, <1>3, <1>4 DEF Next, Rot, vars, disk

(* What the cleanup deletes from is neither canonical nor valid nor being   *)
(* written (storage.cleanup_abandoned_generations under the lock).          *)
THEOREM OnlyRubbleGoes == Spec => RemovesOnlyRubble
<1> DEFINE Rule == \A g \in Generations : ~(files[g] \subseteq files'[g]) =>
                      g # current /\ ~Verified(g) /\ \A j \in Jobs : target[j] # g
<1>1. ASSUME IInv, [Next]_vars
      PROVE  Rule
  <2> SUFFICES ASSUME NEW g \in Generations, ~(files[g] \subseteq files'[g])
               PROVE  g # current /\ ~Verified(g) /\ \A j \in Jobs : target[j] # g
    OBVIOUS
  <2>1. PICK i \in Jobs, a \in Artifacts : Unlink(i, g, a)
    BY <1>1, OnlyUnlinkRemoves
  <2>2. g # current /\ ~Verified(g)
    BY <1>1, <2>1 DEF IInv, Unlink, DoomedIsRubble
  <2>3. \A j \in Jobs : pc[j] \notin Building
    BY <1>1, <2>1 DEF IInv, Unlink, Serial, TypeOK, Building
  <2>4. \A j \in Jobs : target[j] = NoGen
    BY <1>1, <2>3 DEF IInv, TypeOK
  <2> QED
    BY <2>2, <2>4, DistinctNames
<1> QED
  BY <1>1, Invariance, PTL DEF Spec, RemovesOnlyRubble

-----------------------------------------------------------------------------
(* A job's step writes the register or nothing of it. *)
LEMMA CanonJob ==
  ASSUME IInv, NEW j \in Jobs,
         Start(j) \/ Clean(j) \/ Ingest(j) \/ Interrupt(j)
  PROVE  Canon!Next \/ UNCHANGED Canon!vars
<1>1. UNCHANGED readers
  BY DEF Start, Clean, Scan, RemoveDirectory, Unlink, RemoveRefused, Capture,
     PointerBroken, Ingest, FetchVenue, Reject, CreateGeneration, Write, Seal,
     PreparePointer, VerifyFailed, SwapPointer, Return, Release, Interrupt,
     Exception, Kill
<1>2. CASE UNCHANGED <<current, prev, published>>
  BY <1>1, <1>2 DEF Canon!vars, readers, ParentOf
<1>3. CASE CreateGeneration(j)
  <2>1. UNCHANGED <<current, published>>
    BY <1>3 DEF CreateGeneration
  <2>2. \A g \in published : prev'[g] = prev[g]
    BY <1>3 DEF CreateGeneration, IInv, Traces, TypeOK
  <2>3. ParentOf' = ParentOf
    BY <2>1, <2>2 DEF ParentOf
  <2> QED
    BY <1>1, <2>1, <2>3 DEF Canon!vars, readers
<1>4. CASE SwapPointer(j)
  <2>1. /\ target[j] \in Generations \ published
        /\ prev[target[j]] = current
    BY <1>4 DEF IInv, TypeOK, SwapPointer, Building, Source, TargetOwned,
       CaptureFresh
  <2>2. /\ current' = target[j]
        /\ published' = published \cup {target[j]}
        /\ UNCHANGED prev
    BY <1>4 DEF SwapPointer, disk
  <2>3. ParentOf' = [ParentOf EXCEPT ![target[j]] = current]
    BY <2>1, <2>2 DEF ParentOf
  <2>4. Canon!Publish(target[j])
    BY <1>1, <2>1, <2>2, <2>3 DEF Canon!Publish, readers
  <2> QED
    BY <2>1, <2>4 DEF Canon!Next
<1> QED
  BY <1>2, <1>3, <1>4 DEF Start, Clean, Scan, RemoveDirectory, Unlink,
     RemoveRefused, Capture, PointerBroken, Ingest, FetchVenue, Reject, Write,
     Seal, PreparePointer, VerifyFailed, Return, Release, Interrupt, Exception,
     Kill, disk, aux

(* A reader's step is a step of the abstract reader, and a venue it reads   *)
(* is there.                                                               *)
LEMMA CanonReader ==
  ASSUME IInv, rotten = {}, NEW r \in Readers, Read(r)
  PROVE  Canon!Next \/ UNCHANGED Canon!vars
<1> DEFINE Reading == {q \in Readers : rpc[q] # "idle"}
<1>1. UNCHANGED <<current, prev, published>>
  BY DEF Read, ReadPointer, VerifyView, ReadVenue, Finish, disk, aux
<1>2. ParentOf' = ParentOf
  BY <1>1 DEF ParentOf
<1>3. CASE ReadPointer(r)
  <2>1. Reading' = Reading \cup {r}
    BY <1>3 DEF ReadPointer, IInv, TypeOK
  <2>2. Canon!Begin(r)
    BY <1>1, <1>2, <1>3, <2>1 DEF ReadPointer, Canon!Begin
  <2> QED
    BY <2>2 DEF Canon!Next
<1>4. CASE VerifyView(r)
  <2>1. Reading' = Reading
    BY <1>4 DEF VerifyView, IInv, TypeOK
  <2> QED
    BY <1>1, <1>2, <1>4, <2>1 DEF VerifyView, Canon!vars
<1>5. ASSUME NEW v \in Venues, ReadVenue(r, v)
      PROVE  Canon!Next
  <2>1. \A g \in published : v \in files[g]
    BY <1>5 DEF IInv, PublishedStayComplete, Artifacts
  <2>2. seen' = [seen EXCEPT ![r][v] = IF view[r] = NoGen THEN current
                                                            ELSE view[r]]
    <3>1. CASE view[r] = NoGen
      BY <1>5, <2>1, <3>1 DEF ReadVenue, MarketPath, IInv, Traces
    <3>2. CASE view[r] # NoGen
      BY <1>5, <2>1, <3>2 DEF ReadVenue, MarketPath, IInv, ReaderSound
    <3> QED
      BY <3>1, <3>2
  <2>3. Canon!Read(r, v)
    BY <1>1, <1>2, <1>5, <2>2 DEF ReadVenue, Canon!Read
  <2> QED
    BY <2>3 DEF Canon!Next
<1>6. CASE Finish(r)
  <2>1. Reading' = Reading \ {r}
    BY <1>6 DEF Finish, IInv, TypeOK
  <2>2. Canon!End(r)
    BY <1>1, <1>2, <1>6, <2>1 DEF Finish, Canon!End, Nothing, Canon!Nothing
  <2> QED
    BY <2>2 DEF Canon!Next
<1> QED
  BY <1>3, <1>4, <1>5, <1>6 DEF Read

(* While no stored byte rots, the store is an atomic register of            *)
(* generations: each behaviour is one of AtomicCanon with CURRENT as the    *)
(* register (storage.py and ingest.py as a whole).                          *)
THEOREM ImplementsCanon == Spec /\ [](rotten = {}) => AtomicStore
<1>1. Init => Canon!Init
  BY DEF Init, Canon!Init, ParentOf, Nothing, Canon!Nothing
<1>2. ASSUME IInv, rotten = {}, [Next]_vars
      PROVE  [Canon!Next]_(Canon!vars)
  <2>1. CASE UNCHANGED vars
    BY <2>1 DEF vars, disk, readers, aux, Canon!vars, ParentOf
  <2>2. CASE \E g \in Generations : Rot(g)
    BY <2>2 DEF Rot, readers, aux, Canon!vars, ParentOf
  <2> QED
    BY <1>2, <2>1, <2>2, CanonJob, CanonReader DEF Next
<1> QED
  BY <1>1, <1>2, Invariance, PTL DEF Spec, AtomicStore, Canon!Spec
=============================================================================
