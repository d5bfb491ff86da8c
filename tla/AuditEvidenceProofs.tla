-------------------------- MODULE AuditEvidenceProofs --------------------------
(* Proofs about AuditEvidence for any audits, venues, answers and faults.   *)
EXTENDS AuditEvidence, TLAPS

LEMMA NamesDiffer ==
    /\ "report" \in Artifacts /\ "checksums" \in Artifacts /\ Artifacts \subseteq Entries
    /\ Json \subseteq Artifacts /\ Audits \subseteq Entries
    /\ \A a \in Audits : a \notin Artifacts
BY VenueAssumption DEF Json, Base, Artifacts, Venues, Entries

(* What a report says only depends on the runs and the providers. *)
LEMMA ReportStays ==
    ASSUME NEW a, runs'[a] = runs[a], kind'[a] = kind[a]
    PROVE  Report(a)' = Report(a)
BY DEF Report, Traces

LEMMA OrderIsOfArtifacts ==
    ASSUME NEW a PROVE Order(a) \in Seq(Artifacts)
<1>1. \A n \in {"report", "trace", "summary", "quality", "markdown", "manifest", "checksums",
               Primary, Validation} : n \in Artifacts
  BY DEF Artifacts, Base, Json, Venues
<1>2. CASE Report(a).passed
  <2>1. Order(a) = <<"report", "trace", "summary", "quality", Primary, Validation,
                     "markdown", "manifest", "checksums">>
    BY <1>2 DEF Order
  <2> QED BY <2>1, <1>1
<1>3. CASE ~Report(a).passed
  <2>1. Order(a) = <<"report", "trace", "summary", "quality",
                     "markdown", "manifest", "checksums">>
    BY <1>3 DEF Order
  <2> QED BY <2>1, <1>1
<1> QED BY <1>2, <1>3

LEMMA OutcomesAreRuns ==
    ASSUME NEW s \in Served, NEW r \in Outcomes(s) \cup Interrupted(s)
    PROVE  r \in AllRuns
BY DEF AllRuns

LEMMA WrittenIsFile ==
    ASSUME NEW a \in Audits, NEW w \in BOOLEAN, NEW b
    PROVE  File([by |-> a, whole |-> w, body |-> b])
BY DEF File

(* Completing or damaging a file keeps its writer and its body. *)
LEMMA MarkedIsFile ==
    ASSUME NEW f, File(f), NEW w \in BOOLEAN
    PROVE  LET g == [f EXCEPT !.whole = w]
           IN  File(g) /\ g.by = f.by /\ g.body = f.body /\ g.whole = w
BY DEF File

LEMMA Initial == Init => IInv
BY VenueAssumption, NamesDiffer DEF Init, IInv, TypeOK, WritesOwn, ReportIsGenuine, OneAtATime,
   OldIsUnlinked, ListedIsOwn, Active, TempsAreOwn, LatestIsActive, Holds
(* Types. *)
LEMMA TypeStep ==
    ASSUME TypeOK, WritesOwn, [Next]_vars
    PROVE  TypeOK'
<1> USE NamesDiffer DEF TypeOK
<1>1. ASSUME NEW a \in Audits, Begin(a) PROVE TypeOK'
  BY <1>1, UnlinkAssumption DEF Begin
<1>2. ASSUME NEW a \in Audits, Unlink(a) PROVE TypeOK'
  BY <1>2 DEF Unlink
<1>3. ASSUME NEW a \in Audits, Cleared(a) PROVE TypeOK'
  BY <1>3 DEF Cleared
<1>4. ASSUME NEW a \in Audits, Run(a) PROVE TypeOK'
  BY <1>4, OutcomesAreRuns DEF Run
<1>5. ASSUME NEW a \in Audits, Judge(a) PROVE TypeOK'
  BY <1>5, OrderIsOfArtifacts DEF Judge
<1>6. ASSUME NEW a \in Audits, StartWrite(a) PROVE TypeOK'
  <2> DEFINE n == Head(todo[a])
             f == [by |-> a, whole |-> FALSE, body |-> Body(a, n)]
             m == IF n \in Json THEN a ELSE n
  <2>1. n \in Artifacts /\ m \in Entries
    BY <1>6 DEF StartWrite
  <2>2. File(f)
    BY WrittenIsFile
  <2>3. dir' = [dir EXCEPT ![m] = f]
    BY <1>6 DEF StartWrite
  <2>4. UNCHANGED <<pc, kind, left, runs, todo>> /\ half' = [half EXCEPT ![a] = TRUE]
    BY <1>6 DEF StartWrite
  <2> HIDE DEF f, m
  <2> QED BY <2>1, <2>2, <2>3, <2>4 DEF File
<1>7. ASSUME NEW a \in Audits, FinishWrite(a) PROVE TypeOK'
  <2> DEFINE n == Head(todo[a])
  <2>1. n \in Artifacts /\ todo[a] # <<>>
    <3>1. todo[a] # <<>>
      BY <1>7 DEF FinishWrite, WritesOwn
    <3>2. todo[a] \in Seq(Artifacts)
      OBVIOUS
    <3> QED BY <3>1, <3>2
  <2>2. /\ UNCHANGED <<pc, kind, left, runs>> /\ half' = [half EXCEPT ![a] = FALSE]
        /\ todo' = [todo EXCEPT ![a] = Tail(@)]
    BY <1>7 DEF FinishWrite
  <2>3. todo' \in [Audits -> Seq(Artifacts)]
    BY <2>1, <2>2
  <2>4. CASE n \in Json
    <3> DEFINE f == [dir[a] EXCEPT !.whole = TRUE]
    <3>1. File(f)
      BY <1>7, <2>4, MarkedIsFile DEF FinishWrite, WritesOwn
    <3>2. dir' = [dir EXCEPT ![a] = NoFile, ![n] = f]
      BY <1>7, <2>4 DEF FinishWrite
    <3> HIDE DEF f, n
    <3> QED BY <2>1, <2>2, <2>3, <3>1, <3>2 DEF File
  <2>5. CASE n \notin Json /\ dir[n] # NoFile /\ dir[n].by = a
    <3> DEFINE f == [dir[n] EXCEPT !.whole = TRUE]
    <3>1. File(f)
      BY <2>1, <2>5, MarkedIsFile
    <3>2. dir' = [dir EXCEPT ![n] = f]
      BY <1>7, <2>5 DEF FinishWrite
    <3> HIDE DEF f, n
    <3> QED BY <2>1, <2>2, <2>3, <3>1, <3>2 DEF File
  <2>6. CASE n \notin Json /\ ~(dir[n] # NoFile /\ dir[n].by = a)
    <3>1. dir' = dir
      BY <1>7, <2>6 DEF FinishWrite
    <3> QED BY <2>2, <2>3, <3>1 DEF File
  <2> QED BY <2>4, <2>5, <2>6
<1>8. ASSUME NEW a \in Audits, Return(a) PROVE TypeOK'
  BY <1>8 DEF Return
<1>9. ASSUME NEW a \in Audits, Kill(a) PROVE TypeOK'
  BY <1>9 DEF Kill
<1>10. ASSUME NEW a \in Audits, Raise(a) PROVE TypeOK'
  BY <1>10 DEF Raise
<1>11. ASSUME NEW n \in Artifacts, Damage(n) PROVE TypeOK'
  <2> DEFINE f == [dir[n] EXCEPT !.whole = FALSE]
  <2>1. File(f)
    BY <1>11, MarkedIsFile DEF Damage
  <2>2. dir' = [dir EXCEPT ![n] = f] /\ UNCHANGED <<pc, kind, left, runs, todo, half>>
    BY <1>11 DEF Damage
  <2> HIDE DEF f
  <2> QED BY <2>1, <2>2 DEF File
<1>12. CASE UNCHANGED vars
  BY <1>12 DEF vars
<1> QED
  BY <1>1, <1>2, <1>3, <1>4, <1>5, <1>6, <1>7, <1>8, <1>9, <1>10, <1>11, <1>12 DEF Next
(* Writing goes on as it began. *)
LEMMA WritesStep ==
    ASSUME TypeOK, WritesOwn, [Next]_vars
    PROVE  WritesOwn'
<1> DEFINE W(a) == /\ pc[a] = "writing" => Len(runs[a]) = 2
                   /\ pc[a] \in {"idle", "clearing", "running"} => ~half[a]
                   /\ half[a] => todo[a] # <<>>
                   /\ half[a] /\ pc[a] = "writing" /\ Head(todo[a]) \in Json =>
                         File(dir[a]) /\ dir[a].by = a
                   /\ half[a] /\ pc[a] = "writing" /\ Head(todo[a]) = "report" =>
                         dir[a].body = Report(a)
<1> SUFFICES ASSUME NEW b \in Audits PROVE W(b)'
  BY DEF WritesOwn
<1>0. W(b)
  BY DEF WritesOwn
<1>a. /\ dir = [n \in Entries |-> dir[n]] /\ runs \in [Audits -> Seq(AllRuns)]
      /\ pc \in [Audits -> {"idle", "clearing", "running", "writing", "done", "dead"}]
      /\ half \in [Audits -> BOOLEAN] /\ todo \in [Audits -> Seq(Artifacts)]
      /\ left \in [Audits -> Seq(Artifacts)]
  BY DEF TypeOK
<1>b. runs'[b] = runs[b] /\ kind'[b] = kind[b] => Report(b)' = Report(b)
  BY ReportStays
<1>1. ASSUME NEW a \in Audits, Begin(a) PROVE W(b)'
  BY <1>1, <1>0, <1>a, <1>b DEF Begin, Ready, File
<1>2. ASSUME NEW a \in Audits, Unlink(a) PROVE W(b)'
  <2>1. Head(left[a]) \in Artifacts
    BY <1>2, <1>a DEF Unlink
  <2>2. dir'[b] = dir[b] /\ UNCHANGED <<pc, kind, runs, todo, half>>
    BY <1>2, <2>1, <1>a, NamesDiffer DEF Unlink
  <2> QED BY <2>2, <1>0, <1>b DEF File
<1>3. ASSUME NEW a \in Audits, Cleared(a) PROVE W(b)'
  BY <1>3, <1>0, <1>a, <1>b DEF Cleared, File
<1>4. ASSUME NEW a \in Audits, Run(a) PROVE W(b)'
  <2>1. UNCHANGED <<dir, pc, kind, todo, half>> /\ pc[a] = "running"
    BY <1>4 DEF Run
  <2>2. b # a => runs'[b] = runs[b]
    BY <1>4, <1>a DEF Run
  <2> QED BY <2>1, <2>2, <1>0, <1>b DEF File
<1>5. ASSUME NEW a \in Audits, Judge(a) PROVE W(b)'
  BY <1>5, <1>0, <1>a, <1>b DEF Judge, File
<1>6. ASSUME NEW a \in Audits, StartWrite(a) PROVE W(b)'
  <2> DEFINE n == Head(todo[a])
             f == [by |-> a, whole |-> FALSE, body |-> Body(a, n)]
             m == IF n \in Json THEN a ELSE n
  <2>1. n \in Artifacts /\ m \in Entries /\ (m = b => b = a /\ n \in Json)
    <3>1. n \in Artifacts
      BY <1>6, <1>a DEF StartWrite
    <3> QED BY <3>1, NamesDiffer
  <2>2. File(f) /\ f.by = a /\ (n = "report" => f.body = Report(a))
    BY WrittenIsFile DEF Body
  <2>3. /\ dir' = [dir EXCEPT ![m] = f] /\ half' = [half EXCEPT ![a] = TRUE]
        /\ UNCHANGED <<pc, kind, runs, todo>> /\ todo[a] # <<>> /\ pc[a] = "writing"
    BY <1>6 DEF StartWrite
  <2>4. CASE b = a
    <3>1. n \in Json => dir'[a] = f
      BY <2>1, <2>3, <1>a
    <3>2. "report" \in Json
      BY DEF Json
    <3> HIDE DEF f, m
    <3> QED BY <2>2, <2>3, <2>4, <3>1, <3>2, <1>0, <1>a, <1>b DEF File
  <2>5. CASE b # a
    <3>1. dir'[b] = dir[b]
      BY <2>1, <2>3, <2>5, <1>a, NamesDiffer
    <3> HIDE DEF f, m
    <3> QED BY <2>3, <2>5, <3>1, <1>0, <1>a, <1>b DEF File
  <2> QED BY <2>4, <2>5
<1>7. ASSUME NEW a \in Audits, FinishWrite(a) PROVE W(b)'
  <2>1. half' = [half EXCEPT ![a] = FALSE] /\ UNCHANGED <<pc, kind, runs>>
        /\ todo' = [todo EXCEPT ![a] = Tail(@)] /\ pc[a] = "writing"
    BY <1>7 DEF FinishWrite
  <2>2. CASE b = a
    BY <2>1, <2>2, <1>0, <1>a
  <2>3. CASE b # a
    <3>1. Head(todo[a]) \in Artifacts
      <4>1. todo[a] # <<>>
        BY <1>7 DEF FinishWrite, WritesOwn
      <4>2. todo[a] \in Seq(Artifacts)
        BY <1>a
      <4> QED BY <4>1, <4>2
    <3>2. dir'[b] = dir[b]
      BY <1>7, <2>3, <3>1, <1>a, NamesDiffer DEF FinishWrite
    <3> QED BY <2>1, <2>3, <3>2, <1>0, <1>a, <1>b DEF File
  <2> QED BY <2>2, <2>3
<1>8. ASSUME NEW a \in Audits, Return(a) PROVE W(b)'
  BY <1>8, <1>0, <1>a, <1>b DEF Return, File
<1>9. ASSUME NEW a \in Audits, Kill(a) PROVE W(b)'
  BY <1>9, <1>0, <1>a, <1>b DEF Kill, File
<1>10. ASSUME NEW a \in Audits, Raise(a) PROVE W(b)'
  <2>1. b # a => dir'[b] = dir[b]
    BY <1>10, <1>a, NamesDiffer DEF Raise
  <2> QED BY <1>10, <2>1, <1>0, <1>a, <1>b DEF Raise, File
<1>11. ASSUME NEW n \in Artifacts, Damage(n) PROVE W(b)'
  <2>1. dir'[b] = dir[b]
    BY <1>11, <1>a, NamesDiffer DEF Damage
  <2> QED BY <1>11, <2>1, <1>0, <1>b DEF Damage, File
<1>12. CASE UNCHANGED vars
  BY <1>12, <1>0, <1>b DEF vars, File
<1> QED
  BY <1>1, <1>2, <1>3, <1>4, <1>5, <1>6, <1>7, <1>8, <1>9, <1>10, <1>11, <1>12 DEF Next
(* The report stays what its audit found. *)
LEMMA ReportStep ==
    ASSUME TypeOK, WritesOwn, ReportIsGenuine, [Next]_vars
    PROVE  ReportIsGenuine'
<1> DEFINE G(f) == Len(runs[f.by]) = 2 /\ f.body = Report(f.by)
<1> SUFFICES ASSUME dir'["report"] # NoFile PROVE G(dir["report"])'
  BY DEF ReportIsGenuine
<1>0. dir["report"] # NoFile => G(dir["report"]) /\ File(dir["report"])
  BY NamesDiffer DEF ReportIsGenuine, TypeOK
<1>a. /\ dir = [n \in Entries |-> dir[n]] /\ runs \in [Audits -> Seq(AllRuns)]
      /\ todo \in [Audits -> Seq(Artifacts)] /\ left \in [Audits -> Seq(Artifacts)]
      /\ kind \in [Audits -> Kinds] /\ half \in [Audits -> BOOLEAN]
  BY DEF TypeOK
<1>b. ASSUME dir'["report"] = dir["report"],
             runs'[dir["report"].by] = runs[dir["report"].by],
             kind'[dir["report"].by] = kind[dir["report"].by]
      PROVE  G(dir["report"])'
  BY <1>0, <1>b, ReportStays
<1>c. "report" \in Json /\ "report" \in Entries
  BY NamesDiffer DEF Json
<1>1. ASSUME NEW a \in Audits, Begin(a) PROVE G(dir["report"])'
  BY <1>1, <1>b DEF Begin
<1>2. ASSUME NEW a \in Audits, Unlink(a) PROVE G(dir["report"])'
  <2>1. dir'["report"] = dir["report"]
    BY <1>2, <1>a, <1>c DEF Unlink
  <2> QED BY <1>2, <2>1, <1>b DEF Unlink
<1>3. ASSUME NEW a \in Audits, Cleared(a) PROVE G(dir["report"])'
  BY <1>3, <1>b DEF Cleared
<1>4. ASSUME NEW a \in Audits, Run(a) PROVE G(dir["report"])'
  <2>1. dir' = dir /\ kind' = kind /\ Len(runs[a]) < 2 /\ (\A b \in Audits : b # a => runs'[b] = runs[b])
    BY <1>4, <1>a DEF Run
  <2>2. /\ Len(runs[dir["report"].by]) = 2
        /\ dir["report"].by \in Audits
    <3>1. dir["report"] # NoFile
      BY <2>1
    <3>2. G(dir["report"]) /\ File(dir["report"])
      BY <3>1, <1>0
    <3> QED BY <3>2 DEF File
  <2>3. dir["report"].by # a
    <3>1. Len(runs[a]) < 2
      BY <2>1
    <3>2. ASSUME dir["report"].by = a PROVE Len(runs[a]) = 2
      BY <2>2, <3>2
    <3> QED BY <3>1, <3>2
  <2> QED BY <2>1, <2>2, <2>3, <1>b
<1>5. ASSUME NEW a \in Audits, Judge(a) PROVE G(dir["report"])'
  BY <1>5, <1>b DEF Judge
<1>6. ASSUME NEW a \in Audits, StartWrite(a) PROVE G(dir["report"])'
  <2>1. dir'["report"] = dir["report"]
    BY <1>6, <1>a, <1>c, NamesDiffer DEF StartWrite
  <2> QED BY <1>6, <2>1, <1>b DEF StartWrite
<1>7. ASSUME NEW a \in Audits, FinishWrite(a) PROVE G(dir["report"])'
  <2> DEFINE n == Head(todo[a])
  <2>0. pc[a] = "writing" /\ half[a] /\ UNCHANGED <<kind, runs>>
    BY <1>7 DEF FinishWrite
  <2>1. CASE n = "report"
    <3> DEFINE f == [dir[a] EXCEPT !.whole = TRUE]
    <3>1. /\ File(dir[a]) /\ dir[a].by = a /\ dir[a].body = Report(a) /\ Len(runs[a]) = 2
      BY <2>0, <2>1, <1>c DEF WritesOwn
    <3>2. f.by = a /\ f.body = Report(a)
      BY <3>1, MarkedIsFile
    <3>3. dir'["report"] = f
      BY <1>7, <2>1, <1>a, <1>c, NamesDiffer DEF FinishWrite
    <3>4. Report(a)' = Report(a)
      BY <2>0, ReportStays
    <3> HIDE DEF f
    <3> QED BY <2>0, <3>1, <3>2, <3>3, <3>4
  <2>2. CASE n # "report"
    <3>1. a # "report"
      BY NamesDiffer
    <3>2. dir'["report"] = dir["report"]
      BY <1>7, <2>2, <3>1, <1>a, <1>c DEF FinishWrite
    <3> QED BY <2>0, <3>2, <1>b
  <2> QED BY <2>1, <2>2
<1>8. ASSUME NEW a \in Audits, Return(a) PROVE G(dir["report"])'
  BY <1>8, <1>b DEF Return
<1>9. ASSUME NEW a \in Audits, Kill(a) PROVE G(dir["report"])'
  BY <1>9, <1>b DEF Kill
<1>10. ASSUME NEW a \in Audits, Raise(a) PROVE G(dir["report"])'
  <2>1. dir'["report"] = dir["report"]
    BY <1>10, <1>a, <1>c, NamesDiffer DEF Raise
  <2> QED BY <1>10, <2>1, <1>b DEF Raise
<1>11. ASSUME NEW n \in Artifacts, Damage(n) PROVE G(dir["report"])'
  <2>0. UNCHANGED <<kind, runs>>
    BY <1>11 DEF Damage
  <2>1. CASE n = "report"
    <3> DEFINE f == [dir["report"] EXCEPT !.whole = FALSE]
    <3>1. dir'["report"] = f /\ dir["report"] # NoFile
      BY <1>11, <2>1, <1>a, <1>c DEF Damage
    <3>2. f.by = dir["report"].by /\ f.body = dir["report"].body
      BY <3>1, <1>0, MarkedIsFile
    <3>3. Report(dir["report"].by)' = Report(f.by)
      BY <2>0, <3>1, <3>2, ReportStays
    <3>4. Report(f.by) = Report(dir["report"].by)
      BY <3>2
    <3> HIDE DEF f
    <3> QED BY <2>0, <3>1, <3>2, <3>3, <3>4, <1>0
  <2>2. CASE n # "report"
    <3>1. dir'["report"] = dir["report"]
      BY <1>11, <2>2, <1>a, <1>c DEF Damage
    <3> QED BY <2>0, <3>1, <1>b
  <2> QED BY <2>1, <2>2
<1>12. CASE UNCHANGED vars
  BY <1>12, <1>b DEF vars
<1> QED
  BY <1>1, <1>2, <1>3, <1>4, <1>5, <1>6, <1>7, <1>8, <1>9, <1>10, <1>11, <1>12 DEF Next
LEMMA OneAtATimeStep ==
    ASSUME TypeOK, ~Overlapping, OneAtATime, [Next]_vars
    PROVE  OneAtATime'
<1>1. ASSUME NEW a \in Audits, Begin(a) PROVE OneAtATime'
  BY <1>1 DEF Begin, Ready, OneAtATime, TypeOK
<1>2. ASSUME NEW a \in Audits,
             \/ Cleared(a) \/ Judge(a) \/ Return(a) \/ Kill(a) \/ Raise(a)
      PROVE  OneAtATime'
  BY <1>2 DEF Cleared, Judge, Return, Kill, Raise, OneAtATime, TypeOK, Active
<1>3. CASE pc' = pc
  BY <1>3 DEF OneAtATime
<1> QED
  BY <1>1, <1>2, <1>3 DEF Next, Unlink, Run, StartWrite, FinishWrite, Damage, vars

(* What an active audit finds in the directory is left over or its own. *)
LEMMA OldIsUnlinkedStep ==
    ASSUME TypeOK, WritesOwn, ~Overlapping, OneAtATime, OldIsUnlinked, [Next]_vars
    PROVE  OldIsUnlinked'
<1> DEFINE U(b, n) ==
        dir[n] # NoFile =>
            /\ pc[b] = "clearing" => n \in {left[b][i] : i \in DOMAIN left[b]}
            /\ pc[b] # "running"
            /\ pc[b] = "writing" =>
                  dir[n].by = b /\ (dir[n].whole \/ (half[b] /\ n = Head(todo[b])))
<1> SUFFICES ASSUME NEW b \in Audits, NEW n \in Artifacts PROVE U(b, n)'
  BY DEF OldIsUnlinked
<1>0. U(b, n)
  BY DEF OldIsUnlinked
<1>a. /\ dir = [e \in Entries |-> dir[e]] /\ left \in [Audits -> Seq(Artifacts)]
      /\ pc \in [Audits -> {"idle", "clearing", "running", "writing", "done", "dead"}]
      /\ half \in [Audits -> BOOLEAN] /\ todo \in [Audits -> Seq(Artifacts)]
      /\ n \in Entries
  BY NamesDiffer DEF TypeOK
<1>b. \A a \in Audits : pc[a] \in Active /\ b # a => pc[b] \notin {"clearing", "running", "writing"}
  BY DEF OneAtATime, Active
<1>1. ASSUME NEW a \in Audits, Begin(a) PROVE U(b, n)'
  <2>1. b = a \/ pc'[b] \notin {"clearing", "running", "writing"}
    BY <1>1, <1>a DEF Begin, Ready, Active
  <2>2. b = a => pc'[b] = "clearing" /\ left'[b] = UnlinkOrder
    BY <1>1, <1>a DEF Begin
  <2>3. n \in {UnlinkOrder[i] : i \in DOMAIN UnlinkOrder}
    BY UnlinkAssumption
  <2> QED BY <2>1, <2>2, <2>3
<1>2. ASSUME NEW a \in Audits, Unlink(a) PROVE U(b, n)'
  <2>1. pc[a] \in Active /\ pc' = pc /\ left[a] # <<>>
    BY <1>2 DEF Unlink, Active
  <2>2. CASE b = a /\ dir'[n] # NoFile
    <3>1. n # Head(left[a]) /\ dir[n] # NoFile
      BY <1>2, <2>2, <1>a DEF Unlink
    <3>2. PICK i \in DOMAIN left[a] : n = left[a][i]
      BY <3>1, <1>0, <2>2, <1>2 DEF Unlink
    <3>3. left[a] \in Seq(Artifacts) /\ i \in 1 .. Len(left[a]) /\ i # 1
      BY <3>1, <3>2, <1>a
    <3>4. i - 1 \in DOMAIN Tail(left[a]) /\ n = Tail(left[a])[i - 1]
      BY <3>2, <3>3, <2>1
    <3>5. left'[a] = Tail(left[a]) /\ pc[a] = "clearing"
      BY <1>2, <1>a DEF Unlink
    <3> QED BY <2>1, <2>2, <3>4, <3>5
  <2>3. CASE b # a
    BY <2>1, <2>3, <1>b
  <2> QED BY <2>2, <2>3
<1>3. ASSUME NEW a \in Audits, Cleared(a) PROVE U(b, n)'
  <2>1. pc[a] \in Active /\ left[a] = <<>> /\ UNCHANGED <<dir, left, half, todo>>
    BY <1>3 DEF Cleared, Active
  <2>2. CASE b = a
    <3>1. dir[n] = NoFile
      BY <1>3, <2>1, <2>2, <1>0 DEF Cleared
    <3> QED BY <3>1, <2>1
  <2>3. CASE b # a
    BY <1>3, <2>1, <2>3, <1>a, <1>b DEF Cleared
  <2> QED BY <2>2, <2>3
<1>4. ASSUME NEW a \in Audits, Run(a) PROVE U(b, n)'
  BY <1>4, <1>0 DEF Run
<1>5. ASSUME NEW a \in Audits, Judge(a) PROVE U(b, n)'
  <2>1. pc[a] \in Active /\ UNCHANGED <<dir, left, half>>
    BY <1>5 DEF Judge, Active
  <2>2. CASE b = a
    BY <1>5, <2>1, <2>2, <1>0, <1>a DEF Judge
  <2>3. CASE b # a
    BY <1>5, <2>1, <2>3, <1>a, <1>b DEF Judge
  <2> QED BY <2>2, <2>3
<1>6. ASSUME NEW a \in Audits, StartWrite(a) PROVE U(b, n)'
  <2> DEFINE k == Head(todo[a])
             f == [by |-> a, whole |-> FALSE, body |-> Body(a, k)]
             m == IF k \in Json THEN a ELSE k
  <2>1. /\ pc[a] = "writing" /\ pc[a] \in Active /\ ~half[a] /\ UNCHANGED <<pc, left, todo>>
        /\ dir' = [dir EXCEPT ![m] = f] /\ half' = [half EXCEPT ![a] = TRUE]
    BY <1>6 DEF StartWrite, Active
  <2>2. CASE b = a
    <3>1. CASE n = m
      <4>1. n = k
        BY <3>1, NamesDiffer
      <4>2. dir'[n] = f /\ f.by = a
        BY <2>1, <3>1, <1>a
      <4> HIDE DEF f
      <4> QED BY <2>1, <2>2, <4>1, <4>2, <1>a
    <3>2. CASE n # m
      <4>1. dir'[n] = dir[n]
        BY <2>1, <3>2, <1>a
      <4> QED BY <2>1, <2>2, <4>1, <1>0, <1>a
    <3> QED BY <3>1, <3>2
  <2>3. CASE b # a
    BY <2>1, <2>3, <1>b
  <2> QED BY <2>2, <2>3
<1>7. ASSUME NEW a \in Audits, FinishWrite(a) PROVE U(b, n)'
  <2> DEFINE k == Head(todo[a])
  <2>1. pc[a] = "writing" /\ pc[a] \in Active /\ half[a] /\ UNCHANGED <<pc, left>>
    BY <1>7 DEF FinishWrite, Active
  <2>2. CASE b = a /\ dir'[n] # NoFile
    <3>0. n # a
      BY NamesDiffer
    <3>1. CASE n = k /\ k \in Json
      <4> DEFINE f == [dir[a] EXCEPT !.whole = TRUE]
      <4>1. f.by = a /\ f.whole = TRUE
        BY <2>1, <3>1, MarkedIsFile DEF WritesOwn
      <4>2. dir'[n] = f
        BY <1>7, <3>0, <3>1, <1>a DEF FinishWrite
      <4> HIDE DEF f
      <4> QED BY <2>1, <2>2, <4>1, <4>2
    <3>2. CASE n = k /\ k \notin Json
      <4> DEFINE f == [dir[n] EXCEPT !.whole = TRUE]
      <4>1. dir'[n] = IF dir[n] # NoFile /\ dir[n].by = a THEN f ELSE dir[n]
        BY <1>7, <3>2, <1>a DEF FinishWrite
      <4>2. dir[n] # NoFile
        BY <4>1, <2>2
      <4>3. dir[n].by = a
        BY <4>2, <2>1, <2>2, <1>0
      <4>4. File(dir[n])
        BY <4>2, <1>a DEF TypeOK
      <4>5. f.by = a /\ f.whole = TRUE
        BY <4>3, <4>4, MarkedIsFile
      <4>6. dir'[n] = f
        BY <4>1, <4>2, <4>3
      <4> HIDE DEF f
      <4> QED BY <2>1, <2>2, <4>5, <4>6
    <3>3. CASE n # k
      <4>1. dir'[n] = dir[n]
        BY <1>7, <3>0, <3>3, <1>a DEF FinishWrite
      <4> QED BY <2>1, <2>2, <3>3, <4>1, <1>0
    <3> QED BY <3>1, <3>2, <3>3
  <2>3. CASE b # a
    BY <2>1, <2>3, <1>b
  <2> QED BY <2>2, <2>3, <2>1
<1>8. ASSUME NEW a \in Audits, Return(a) PROVE U(b, n)'
  BY <1>8, <1>0, <1>a DEF Return
<1>9. ASSUME NEW a \in Audits, Kill(a) PROVE U(b, n)'
  BY <1>9, <1>0, <1>a DEF Kill
<1>10. ASSUME NEW a \in Audits, Raise(a) PROVE U(b, n)'
  <2>1. dir'[n] = dir[n]
    BY <1>10, <1>a, NamesDiffer DEF Raise
  <2> QED BY <1>10, <2>1, <1>0, <1>a DEF Raise
<1>11. ASSUME NEW k \in Artifacts, Damage(k) PROVE U(b, n)'
  BY <1>11, <1>a DEF Damage, Active
<1>12. CASE UNCHANGED vars
  BY <1>12, <1>0 DEF vars
<1> QED
  BY <1>1, <1>2, <1>3, <1>4, <1>5, <1>6, <1>7, <1>8, <1>9, <1>10, <1>11, <1>12 DEF Next
(* Checksums list what their own audit wrote. *)
LEMMA ListedIsOwnStep ==
    ASSUME TypeOK, ~Overlapping, OldIsUnlinked, ListedIsOwn, [Next]_vars
    PROVE  ListedIsOwn'
<1> DEFINE L(f) == \A n \in Artifacts \cap DOMAIN f.body : f.body[n].by = f.by /\ f.body[n].whole
           c == "checksums"
<1> SUFFICES ASSUME dir'[c] # NoFile PROVE L(dir[c])'
  BY DEF ListedIsOwn
<1>0. dir[c] # NoFile => L(dir[c]) /\ File(dir[c])
  BY NamesDiffer DEF ListedIsOwn, TypeOK
<1>a. /\ dir = [e \in Entries |-> dir[e]] /\ left \in [Audits -> Seq(Artifacts)]
      /\ todo \in [Audits -> Seq(Artifacts)] /\ half \in [Audits -> BOOLEAN]
      /\ c \in Artifacts /\ c \in Entries /\ c \notin Json /\ c \notin Audits
  BY NamesDiffer DEF TypeOK, Json
<1>b. dir'[c] = dir[c] => L(dir[c])'
  BY <1>0
<1>c. ASSUME NEW w \in BOOLEAN, dir[c] # NoFile, dir'[c] = [dir[c] EXCEPT !.whole = w]
      PROVE  L(dir[c])'
  <2>1. dir'[c].by = dir[c].by /\ dir'[c].body = dir[c].body
    BY <1>c, <1>0, MarkedIsFile
  <2> QED BY <2>1, <1>c, <1>0
<1>1. ASSUME NEW a \in Audits, StartWrite(a) PROVE L(dir[c])'
  <2> DEFINE n == Head(todo[a])
             f == [by |-> a, whole |-> FALSE, body |-> Body(a, n)]
             m == IF n \in Json THEN a ELSE n
  <2>1. dir' = [dir EXCEPT ![m] = f] /\ pc[a] = "writing" /\ ~half[a]
    BY <1>1 DEF StartWrite
  <2>2. CASE m = c
    <3>1. n = c
      BY <2>2, <1>a
    <3>2. f.body = Listing(Entries \ {c}) /\ f.by = a
      BY <3>1 DEF Body
    <3>3. ASSUME NEW e \in Artifacts \cap DOMAIN Listing(Entries \ {c})
          PROVE  /\ Listing(Entries \ {c})[e].by = a
                 /\ Listing(Entries \ {c})[e].whole
      <4>1. dir[e] # NoFile /\ Listing(Entries \ {c})[e] = dir[e]
        BY <3>3 DEF Listing, Present
      <4> QED BY <4>1, <2>1, <3>3 DEF OldIsUnlinked
    <3>4. dir'[c] = f
      BY <2>1, <2>2, <1>a
    <3> HIDE DEF f
    <3> QED BY <3>2, <3>3, <3>4
  <2>3. CASE m # c
    BY <2>1, <2>3, <1>a, <1>b
  <2> QED BY <2>2, <2>3
<1>2. ASSUME NEW a \in Audits, FinishWrite(a) PROVE L(dir[c])'
  <2>1. dir'[c] = dir[c] \/ (dir[c] # NoFile /\ dir'[c] = [dir[c] EXCEPT !.whole = TRUE])
    BY <1>2, <1>a DEF FinishWrite
  <2> QED BY <2>1, <1>b, <1>c
<1>3. ASSUME NEW n \in Artifacts, Damage(n) PROVE L(dir[c])'
  <2>1. dir'[c] = dir[c] \/ (dir[c] # NoFile /\ dir'[c] = [dir[c] EXCEPT !.whole = FALSE])
    BY <1>3, <1>a DEF Damage
  <2> QED BY <2>1, <1>b, <1>c
<1>4. ASSUME NEW a \in Audits, Unlink(a) PROVE L(dir[c])'
  BY <1>4, <1>a, <1>b DEF Unlink
<1>5. ASSUME NEW a \in Audits, Raise(a) PROVE L(dir[c])'
  BY <1>5, <1>a, <1>b DEF Raise
<1>6. CASE dir' = dir
  BY <1>6, <1>b
<1> QED
  BY <1>1, <1>2, <1>3, <1>4, <1>5, <1>6 DEF Next, Begin, Cleared, Run, Judge, Return, Kill, vars

(* A file somebody wrote is a file. *)
LEMMA FileIsSome ==
    ASSUME NEW f, File(f)
    PROVE  f # NoFile
BY VenueAssumption DEF File, NoFile

(* The order of the artifacts: each of the evidence once, the listings last. *)
LEMMA OrderFacts ==
    ASSUME NEW a
    PROVE  /\ Order(a) \in Seq(Artifacts) /\ Len(Order(a)) \in {7, 9}
           /\ \A i \in 1 .. Len(Order(a)) : Order(a)[i] \in Evidence(a)
           /\ \A n \in Evidence(a) : \E i \in 1 .. Len(Order(a)) : n = Order(a)[i]
           /\ \A i, j \in 1 .. Len(Order(a)) : Order(a)[i] = Order(a)[j] => i = j
           /\ \A i \in 1 .. Len(Order(a)) :
                 /\ Order(a)[i] = "manifest" <=> i = Len(Order(a)) - 1
                 /\ Order(a)[i] = "checksums" <=> i = Len(Order(a))
<1>1. Primary # Validation /\ Primary \notin Base /\ Validation \notin Base
  BY VenueAssumption DEF Venues
<1>2. Order(a) \in Seq(Artifacts)
  BY OrderIsOfArtifacts
<1>3. CASE Report(a).passed
  <2> DEFINE s == <<"report", "trace", "summary", "quality", Primary, Validation,
                    "markdown", "manifest", "checksums">>
  <2>1. Order(a) = s
    BY <1>3 DEF Order
  <2>2. Evidence(a) = Base \cup Venues
    BY <1>3 DEF Evidence
  <2>3. Len(s) = 9
    OBVIOUS
  <2>4. \A i \in 1 .. 9 : s[i] \in Base \cup Venues
    BY DEF Base, Json, Venues
  <2>5. \A n \in Base \cup Venues : \E i \in 1 .. 9 : n = s[i]
    BY DEF Base, Json, Venues
  <2>6. \A i, j \in 1 .. 9 : s[i] = s[j] => i = j
    BY <1>1 DEF Base, Json
  <2>7. \A i \in 1 .. 9 : (s[i] = "manifest" <=> i = 8) /\ (s[i] = "checksums" <=> i = 9)
    BY <1>1 DEF Base, Json
  <2> HIDE DEF s
  <2> QED BY <1>2, <2>1, <2>2, <2>3, <2>4, <2>5, <2>6, <2>7
<1>4. CASE ~Report(a).passed
  <2> DEFINE s == <<"report", "trace", "summary", "quality",
                    "markdown", "manifest", "checksums">>
  <2>1. Order(a) = s
    BY <1>4 DEF Order
  <2>2. Evidence(a) = Base
    BY <1>4 DEF Evidence
  <2>3. Len(s) = 7
    OBVIOUS
  <2>4. \A i \in 1 .. 7 : s[i] \in Base
    BY DEF Base, Json
  <2>5. \A n \in Base : \E i \in 1 .. 7 : n = s[i]
    BY DEF Base, Json
  <2>6. \A i, j \in 1 .. 7 : s[i] = s[j] => i = j
    OBVIOUS
  <2>7. \A i \in 1 .. 7 : (s[i] = "manifest" <=> i = 6) /\ (s[i] = "checksums" <=> i = 7)
    OBVIOUS
  <2> HIDE DEF s
  <2> QED BY <1>2, <2>1, <2>2, <2>3, <2>4, <2>5, <2>6, <2>7
<1> QED BY <1>3, <1>4

LEMMA EvidenceIsOfArtifacts ==
    ASSUME NEW a PROVE Evidence(a) \subseteq Artifacts
BY DEF Evidence, Artifacts

(* What an audit writes next, and what it has written by then. *)
LEMMA NextToWrite ==
    ASSUME NEW a \in Audits, todo[a] \in Seq(Artifacts), todo[a] # <<>>, InOrder(a),
           NEW n, n = Head(todo[a])
    PROVE  /\ Finished(a) \in Nat /\ Finished(a) + 1 \in 1 .. Len(Order(a))
           /\ n = Order(a)[Finished(a) + 1] /\ n \in Artifacts /\ n \notin Written(a)
           /\ \A m \in Listings \cap (Written(a) \cup {n}) : n \notin Scope(a, m)
           /\ n \in Listings => Written(a) = Scope(a, n)
<1> DEFINE N == Len(Order(a))
           k == Finished(a)
           s == Order(a)
<1>a. N \in {7, 9}
  BY OrderFacts
<1>b. \A i \in 1 .. N : s[i] \in Evidence(a)
  BY OrderFacts
<1>c. \A m \in Evidence(a) : \E i \in 1 .. N : m = s[i]
  BY OrderFacts
<1>d. \A i, j \in 1 .. N : s[i] = s[j] => i = j
  BY OrderFacts
<1>e. \A i \in 1 .. N : s[i] = "manifest" <=> i = N - 1
  BY OrderFacts
<1>f. \A i \in 1 .. N : s[i] = "checksums" <=> i = N
  BY OrderFacts
<1>2. k \in Nat /\ k + 1 \in 1 .. N /\ n = s[k + 1]
  <2> DEFINE l == Len(todo[a])
  <2>1. l \in Nat \ {0} /\ k = N - l /\ k >= 0
    BY <1>a DEF Finished, InOrder
  <2>2. \A i \in 1 .. l : todo[a][i] = s[k + i]
    BY DEF InOrder
  <2>3. n = todo[a][1]
    OBVIOUS
  <2> HIDE DEF l, k, N, s
  <2>4. 1 \in 1 .. l
    BY <2>1
  <2>5. n = s[k + 1]
    BY <2>2, <2>3, <2>4
  <2> QED BY <1>a, <2>1, <2>5
<1>3. Written(a) = {s[i] : i \in 1 .. k}
  BY DEF Written
<1> HIDE DEF N, k, s
<1>4. n \in Artifacts
  BY <1>b, <1>2, EvidenceIsOfArtifacts
<1>5. n \notin Written(a)
  <2>1. SUFFICES ASSUME NEW i \in 1 .. k, n = s[i] PROVE FALSE
    BY <1>3
  <2>2. i \in 1 .. N /\ i # k + 1
    BY <1>a, <1>2
  <2> QED BY <1>d, <1>2, <2>1, <2>2
<1>6. ASSUME NEW m \in Listings \cap (Written(a) \cup {n}) PROVE n \notin Scope(a, m)
  <2>1. PICK i \in 1 .. k + 1 : m = s[i]
    BY <1>2, <1>3
  <2>2. i \in 1 .. N
    BY <1>a, <1>2, <2>1
  <2>3. CASE m = "manifest"
    <3>1. k + 1 = N - 1 \/ k + 1 = N
      <4>1. i = N - 1
        BY <1>e, <2>1, <2>2, <2>3
      <4> QED BY <1>a, <1>2, <4>1
    <3>2. n \in Listings
      BY <1>a, <1>e, <1>f, <1>2, <3>1 DEF Listings
    <3> QED BY <2>3, <3>2 DEF Scope
  <2>4. CASE m = "checksums"
    <3>1. k + 1 = N
      <4>1. i = N
        BY <1>f, <2>1, <2>2, <2>4
      <4> QED BY <1>a, <1>2, <4>1
    <3>2. n = "checksums"
      BY <1>f, <1>2, <3>1
    <3> QED BY <2>4, <3>2 DEF Scope
  <2> QED BY <2>3, <2>4 DEF Listings
<1>7. ASSUME n \in Listings PROVE Written(a) = Scope(a, n)
  <2>1. ASSUME NEW m \in Evidence(a)
        PROVE  m \in Written(a) <=> m \in Scope(a, n)
    <3>1. PICK i \in 1 .. N : m = s[i]
      BY <1>c, <2>1
    <3>2. m \in Written(a) <=> i <= k
      <4>1. \A j \in 1 .. k : s[j] = m => j = i
        BY <1>a, <1>d, <1>2, <3>1
      <4> QED BY <1>a, <1>2, <1>3, <3>1, <4>1
    <3>3. CASE n = "manifest"
      <4>1. k = N - 2
        <5>1. k + 1 = N - 1
          BY <1>e, <1>2, <3>3
        <5> QED BY <1>a, <1>2, <5>1
      <4>2. m \in Listings <=> i > N - 2
        BY <1>a, <1>e, <1>f, <3>1 DEF Listings
      <4>3. m \in Scope(a, n) <=> m \notin Listings
        BY <2>1, <3>3 DEF Scope
      <4> QED BY <1>a, <3>1, <3>2, <4>1, <4>2, <4>3
    <3>4. CASE n = "checksums"
      <4>1. k = N - 1
        <5>1. k + 1 = N
          BY <1>f, <1>2, <3>4
        <5> QED BY <1>a, <1>2, <5>1
      <4>2. m = "checksums" <=> i > N - 1
        BY <1>a, <1>f, <3>1
      <4>3. m \in Scope(a, n) <=> m # "checksums"
        BY <2>1, <3>4 DEF Scope
      <4> QED BY <1>a, <3>1, <3>2, <4>1, <4>2, <4>3
    <3> QED BY <1>7, <3>3, <3>4 DEF Listings
  <2>2. Written(a) \subseteq Evidence(a)
    BY <1>a, <1>b, <1>2, <1>3
  <2>3. Scope(a, n) \subseteq Evidence(a)
    BY DEF Scope
  <2> QED BY <2>1, <2>2, <2>3
<1> QED BY <1>2, <1>4, <1>5, <1>6, <1>7 DEF N, k, s

(* When nothing is left to write, all of it is written. *)
LEMMA AllWritten ==
    ASSUME NEW a \in Audits, todo[a] = <<>>
    PROVE  Written(a) = Evidence(a) /\ Begun(a) \subseteq Artifacts
<1>1. Finished(a) = Len(Order(a))
  BY OrderFacts DEF Finished
<1>2. Written(a) = Evidence(a)
  BY <1>1, OrderFacts DEF Written
<1> QED BY <1>2, EvidenceIsOfArtifacts DEF Begun

(* What is written, for an audit whose runs stay. *)
LEMMA EvidenceStays ==
    ASSUME NEW a, runs'[a] = runs[a], kind'[a] = kind[a]
    PROVE  /\ Order(a)' = Order(a) /\ Evidence(a)' = Evidence(a)
           /\ \A m : Scope(a, m)' = Scope(a, m)
           /\ \A m : m \notin Listings => Body(a, m)' = Body(a, m)
<1>1. Report(a)' = Report(a) /\ Traces(a)' = Traces(a)
  BY ReportStays DEF Traces
<1>2. Order(a)' = Order(a) /\ Evidence(a)' = Evidence(a)
  BY <1>1 DEF Order, Evidence
<1>3. ASSUME NEW m PROVE Scope(a, m)' = Scope(a, m)
  BY <1>2 DEF Scope
<1>4. ASSUME NEW m, m \notin Listings PROVE Body(a, m)' = Body(a, m)
  BY <1>1, <1>4 DEF Body, Listings
<1> QED BY <1>2, <1>3, <1>4

(* An audit that starts to write has nothing in the directory yet. *)
LEMMA JudgeFiles ==
    ASSUME NEW a \in Audits, TypeOK, WritesOwn, OldIsUnlinked, Judge(a)
    PROVE  InOrder(a)' /\ AsFound(a)'
<1>1. /\ pc[a] = "running" /\ Len(runs[a]) = 2 /\ pc'[a] = "writing" /\ todo'[a] = Order(a)
      /\ UNCHANGED <<dir, kind, runs, half>>
  BY DEF Judge, TypeOK
<1>2. Order(a)' = Order(a) /\ Order(a) \in Seq(Artifacts)
  BY <1>1, EvidenceStays, OrderFacts
<1>3. Finished(a)' = 0
  BY <1>1, <1>2, OrderFacts DEF Finished
<1>4. Written(a)' = {}
  BY <1>3 DEF Written
<1>5. ~half'[a] /\ Begun(a)' = {}
  BY <1>1, <1>4 DEF WritesOwn, Begun
<1>6. \A n \in Artifacts : dir'[n] = NoFile
  BY <1>1 DEF OldIsUnlinked
<1>7. \A i \in 1 .. Len(todo'[a]) : todo'[a][i] = Order(a)'[Finished(a)' + i]
  BY <1>1, <1>2, <1>3
<1>8. InOrder(a)'
  BY <1>1, <1>3, <1>5, <1>6, <1>7 DEF InOrder
<1> QED BY <1>5, <1>8 DEF AsFound

(* An audit begins the next file of its order; a listing lists the others. *)
LEMMA StartFiles ==
    ASSUME NEW a \in Audits, TypeOK, TempsAreOwn, InOrder(a), AsFound(a), StartWrite(a)
    PROVE  InOrder(a)' /\ AsFound(a)'
<1>n. PICK n : n = Head(todo[a])
  OBVIOUS
<1> DEFINE f == [by |-> a, whole |-> FALSE, body |-> Body(a, n)]
           e == IF n \in Json THEN a ELSE n
<1>0. /\ pc[a] = "writing" /\ todo[a] # <<>> /\ ~half[a] /\ dir' = [dir EXCEPT ![e] = f]
      /\ half'[a] /\ UNCHANGED <<pc, kind, runs, todo>>
  BY <1>n DEF StartWrite, TypeOK
<1>1. todo[a] \in Seq(Artifacts) /\ dir = [m \in Entries |-> dir[m]]
  BY DEF TypeOK
<1>2. /\ n \in Artifacts /\ n \notin Written(a)
      /\ \A m \in Listings \cap (Written(a) \cup {n}) : n \notin Scope(a, m)
      /\ n \in Listings => Written(a) = Scope(a, n)
  BY <1>0, <1>1, <1>n, NextToWrite
<1>3. /\ Order(a)' = Order(a) /\ \A m : Scope(a, m)' = Scope(a, m)
      /\ \A m : m \notin Listings => Body(a, m)' = Body(a, m)
  BY <1>0, EvidenceStays
<1>4. Finished(a)' = Finished(a) /\ Written(a)' = Written(a)
  BY <1>0, <1>3 DEF Finished, Written
<1>5. Begun(a) = Written(a) /\ Begun(a)' = Written(a) \cup {n}
  BY <1>0, <1>2, <1>4, <1>n DEF Begun
<1>6. f # NoFile /\ f.body = Body(a, n)
  BY WrittenIsFile, FileIsSome
<1>7. \A m \in Entries : dir'[m] = IF m = e THEN f ELSE dir[m]
  BY <1>0, <1>1
<1>e. e = IF n \in Json THEN a ELSE n
  OBVIOUS
<1>s. a \notin Artifacts /\ Artifacts \subseteq Entries /\ a \in Entries
  BY NamesDiffer
<1> HIDE DEF f, e
<1>8. \A m \in Artifacts :
         dir[m] # NoFile <=> m \in Written(a)
  BY <1>5 DEF InOrder
<1>9. \A m \in Artifacts :
         dir'[m] # NoFile <=> m \in Begun(a)' /\ (m \in Json => m \in Written(a)')
  <2> TAKE m \in Artifacts
  <2>1. CASE m = n
    BY <2>1, <1>2, <1>4, <1>5, <1>6, <1>7, <1>8, <1>e, <1>s
  <2>2. CASE m # n
    <3>1. dir'[m] = dir[m]
      BY <2>2, <1>7, <1>e, <1>s
    <3> QED BY <3>1, <2>2, <1>4, <1>5, <1>8
  <2> QED BY <2>1, <2>2
<1>10. InOrder(a)'
  BY <1>0, <1>3, <1>4, <1>9 DEF InOrder
<1>11. Filing(a, n)' = f
  BY <1>2, <1>4, <1>7, <1>e, <1>s DEF Filing
<1>12. ASSUME NEW m \in Written(a) PROVE Filing(a, m) = dir[m] /\ Filing(a, m)' = dir[m]
  <2>1. m \in Artifacts
    BY OrderFacts, EvidenceIsOfArtifacts, <1>10, <1>12, <1>5, <1>8 DEF Written, Finished, InOrder
  <2>2. dir'[m] = dir[m]
    BY <2>1, <1>2, <1>7, <1>12, <1>e, <1>s
  <2> QED BY <2>2, <1>4, <1>12 DEF Filing
<1>13. ASSUME NEW m \in Begun(a)' \ Listings PROVE Filing(a, m)'.body = Body(a, m)'
  <2>1. CASE m = n
    BY <2>1, <1>3, <1>6, <1>11, <1>13
  <2>2. CASE m # n
    <3>1. m \in Written(a)
      BY <2>2, <1>5, <1>13
    <3> QED BY <3>1, <1>3, <1>5, <1>12, <1>13 DEF AsFound
  <2> QED BY <2>1, <2>2
<1>14. ASSUME NEW m \in Begun(a)' \cap Listings,
              \A i \in Scope(a, m) : dir'[i].whole, ~Foreign(a)'
       PROVE  Filing(a, m)'.body = [i \in Scope(a, m) |-> dir'[i]]
  <2>1. \A i \in Scope(a, m) : dir'[i] = dir[i]
    <3>1. Scope(a, m) \subseteq Artifacts /\ n \notin Scope(a, m)
      BY <1>2, <1>5, <1>14, EvidenceIsOfArtifacts DEF Scope
    <3> QED BY <3>1, <1>7, <1>e, <1>s
  <2>2. ~Foreign(a)
    <3>1. \A b \in Audits : b # a => dir'[b] = dir[b]
      BY <1>2, <1>7, <1>e, NamesDiffer
    <3> QED BY <3>1, <1>14 DEF Foreign
  <2>3. CASE m # n
    <3>1. m \in Written(a)
      BY <2>3, <1>5, <1>14
    <3>2. Filing(a, m).body = [i \in Scope(a, m) |-> dir[i]]
      BY <3>1, <2>1, <2>2, <1>5, <1>14 DEF AsFound
    <3> QED BY <3>1, <3>2, <2>1, <1>12
  <2>4. CASE m = n
    <3> DEFINE X == IF n = "manifest" THEN Listings ELSE {"checksums"}
    <3>1. f.body = Listing(Entries \ X)
      BY <1>6, <1>14, <2>4 DEF Body, Listings
    <3>2. Present(dir) \cap Audits = {}
      <4>1. dir[a] = NoFile
        BY <1>0 DEF TempsAreOwn
      <4> QED BY <4>1, <2>2 DEF Present, Foreign
    <3>3. Present(dir) = Written(a)
      <4>1. Written(a) \subseteq Artifacts
        BY <1>2, <1>14, <2>4, EvidenceIsOfArtifacts DEF Scope
      <4> QED BY <4>1, <3>2, <1>8, <1>s DEF Present, Entries
    <3>4. Present(dir) \cap (Entries \ X) = Scope(a, m)
      <4>1. Scope(a, m) = Written(a) /\ Scope(a, m) = Evidence(a) \ X
        BY <1>2, <1>14, <2>4 DEF Scope
      <4>2. Evidence(a) \subseteq Entries
        BY EvidenceIsOfArtifacts, <1>s
      <4> QED BY <4>1, <4>2, <3>3
    <3>5. f.body = [i \in Scope(a, m) |-> dir[i]]
      BY <3>1, <3>4 DEF Listing
    <3> QED BY <3>5, <2>1, <2>4, <1>11
  <2> QED BY <2>3, <2>4
<1>15. AsFound(a)'
  BY <1>3, <1>13, <1>14 DEF AsFound
<1> QED BY <1>10, <1>15

LEMMA BegunIsOfArtifacts ==
    ASSUME NEW a \in Audits, TypeOK
    PROVE  Begun(a) \subseteq Artifacts
<1>1. Finished(a) <= Len(Order(a)) /\ Len(Order(a)) \in Nat /\ Finished(a) \in Int
  BY OrderFacts DEF TypeOK, Finished
<1>2. \A i \in 1 .. Finished(a) : i \in 1 .. Len(Order(a))
  BY <1>1
<1> QED BY <1>2, OrderFacts, EvidenceIsOfArtifacts DEF Begun, Written

(* A file that is completed keeps its body, so the listings still hold. *)
LEMMA FinishFiles ==
    ASSUME NEW a \in Audits, TypeOK, WritesOwn, OldIsUnlinked, InOrder(a), AsFound(a),
           FinishWrite(a)
    PROVE  InOrder(a)' /\ AsFound(a)'
<1>n. PICK n : n = Head(todo[a])
  OBVIOUS
<1>0. /\ pc[a] = "writing" /\ half[a] /\ ~half'[a] /\ todo'[a] = Tail(todo[a])
      /\ UNCHANGED <<pc, kind, runs>>
  BY DEF FinishWrite, TypeOK
<1>1. /\ todo[a] \in Seq(Artifacts) /\ todo[a] # <<>> /\ dir = [m \in Entries |-> dir[m]]
  BY <1>0 DEF TypeOK, WritesOwn
<1>s. a \notin Artifacts /\ Artifacts \subseteq Entries /\ a \in Entries
  BY NamesDiffer
<1>2. /\ Finished(a) \in Nat /\ Finished(a) + 1 \in 1 .. Len(Order(a))
      /\ n = Order(a)[Finished(a) + 1] /\ n \in Artifacts /\ n \notin Written(a)
      /\ \A m \in Listings \cap (Written(a) \cup {n}) : n \notin Scope(a, m)
  BY <1>1, <1>n, NextToWrite
<1>3. /\ Order(a)' = Order(a) /\ \A m : Scope(a, m)' = Scope(a, m)
      /\ \A m : m \notin Listings => Body(a, m)' = Body(a, m)
  BY <1>0, EvidenceStays
<1>4. Finished(a)' = Finished(a) + 1
  <2>1. Len(todo'[a]) = Len(todo[a]) - 1 /\ Len(todo[a]) \in Nat
    BY <1>0, <1>1
  <2>2. Len(Order(a)) \in Nat
    BY OrderFacts
  <2> QED BY <2>1, <2>2, <1>3 DEF Finished
<1>5. Written(a)' = Written(a) \cup {n}
  <2>1. Written(a)' = {Order(a)[i] : i \in 1 .. Finished(a) + 1}
    BY <1>3, <1>4 DEF Written
  <2>2. \A i : i \in 1 .. Finished(a) + 1 <=> i \in 1 .. Finished(a) \/ i = Finished(a) + 1
    BY <1>2
  <2> QED BY <2>1, <2>2, <1>2 DEF Written
<1>6. Begun(a) = Written(a) \cup {n} /\ Begun(a)' = Written(a) \cup {n}
  BY <1>0, <1>2, <1>5, <1>n DEF Begun
<1>7. PICK f : f = IF n \in Json THEN dir[a] ELSE dir[n]
  OBVIOUS
<1>8. Filing(a, n) = f
  BY <1>2, <1>7 DEF Filing
<1>9. File(f) /\ f.by = a
  <2>1. CASE n \in Json
    BY <2>1, <1>0, <1>7, <1>n DEF WritesOwn
  <2>2. CASE n \notin Json
    <3>1. dir[n] # NoFile
      BY <2>2, <1>2, <1>6 DEF InOrder
    <3> QED BY <2>2, <3>1, <1>0, <1>2, <1>7, <1>s DEF OldIsUnlinked, TypeOK
  <2> QED BY <2>1, <2>2
<1>10. PICK g : g = [f EXCEPT !.whole = TRUE]
  OBVIOUS
<1>11. g # NoFile /\ g.body = f.body
  BY <1>9, <1>10, MarkedIsFile, FileIsSome
<1>12. dir' = IF n \in Json THEN [dir EXCEPT ![a] = NoFile, ![n] = g] ELSE [dir EXCEPT ![n] = g]
  <2>1. CASE n \in Json
    BY <2>1, <1>7, <1>10, <1>n DEF FinishWrite
  <2>2. CASE n \notin Json
    <3>1. f # NoFile
      BY <1>9, FileIsSome
    <3> QED BY <2>2, <3>1, <1>7, <1>9, <1>10, <1>n DEF FinishWrite
  <2> QED BY <2>1, <2>2
<1>13. dir'[n] = g /\ \A m \in Entries : m # n /\ m # a => dir'[m] = dir[m]
  BY <1>12, <1>1, <1>2, <1>s
<1>14. \A m \in Artifacts :
          dir'[m] # NoFile <=> m \in Begun(a)' /\ (m \in Json => m \in Written(a)')
  <2> TAKE m \in Artifacts
  <2>1. CASE m = n
    BY <2>1, <1>5, <1>6, <1>11, <1>13
  <2>2. CASE m # n
    <3>1. dir'[m] = dir[m]
      BY <2>2, <1>13, <1>s
    <3>2. dir[m] # NoFile <=> m \in Begun(a) /\ (m \in Json => m \in Written(a))
      BY DEF InOrder
    <3> QED BY <3>1, <3>2, <2>2, <1>5, <1>6
  <2> QED BY <2>1, <2>2
<1>15. \A i \in 1 .. Len(todo'[a]) : todo'[a][i] = Order(a)'[Finished(a)' + i]
  <2> TAKE i \in 1 .. Len(todo'[a])
  <2>1. i + 1 \in 1 .. Len(todo[a]) /\ todo'[a][i] = todo[a][i + 1]
    BY <1>0, <1>1
  <2>2. todo[a][i + 1] = Order(a)[Finished(a) + (i + 1)]
    BY <2>1 DEF InOrder
  <2>3. Finished(a) + (i + 1) = (Finished(a) + 1) + i
    BY <1>2
  <2> QED BY <2>1, <2>2, <2>3, <1>3, <1>4
<1>16. InOrder(a)'
  <2>1. Len(runs'[a]) = 2
    BY <1>0 DEF InOrder
  <2>2. Finished(a)' >= 0 /\ pc'[a] # "done"
    BY <1>0, <1>2, <1>4
  <2> QED BY <2>1, <2>2, <1>14, <1>15 DEF InOrder
<1>17. Written(a) \subseteq Artifacts
  BY <1>2, OrderFacts, EvidenceIsOfArtifacts DEF Written
<1>18. \A m \in Begun(a) : Filing(a, m)'.body = Filing(a, m).body
  <2> TAKE m \in Begun(a)
  <2>0. Filing(a, m)' = dir'[m]
    BY <1>5, <1>6 DEF Filing
  <2>1. CASE m = n
    BY <2>0, <2>1, <1>8, <1>11, <1>13
  <2>2. CASE m # n
    <3>1. m \in Written(a)
      BY <2>2, <1>6
    <3>2. dir'[m] = dir[m]
      BY <2>2, <3>1, <1>13, <1>17, <1>s
    <3> QED BY <2>0, <3>1, <3>2 DEF Filing
  <2> QED BY <2>1, <2>2
<1>19. ASSUME NEW m \in Begun(a)' \ Listings PROVE Filing(a, m)'.body = Body(a, m)'
  BY <1>19, <1>3, <1>6, <1>18 DEF AsFound
<1>20. ASSUME NEW m \in Begun(a)' \cap Listings,
              \A i \in Scope(a, m) : dir'[i].whole, ~Foreign(a)'
       PROVE  Filing(a, m)'.body = [i \in Scope(a, m) |-> dir'[i]]
  <2>1. \A i \in Scope(a, m) : dir'[i] = dir[i]
    <3>1. Scope(a, m) \subseteq Artifacts /\ n \notin Scope(a, m)
      BY <1>2, <1>6, <1>20, EvidenceIsOfArtifacts DEF Scope
    <3> QED BY <3>1, <1>13, <1>s
  <2>2. ~Foreign(a)
    <3>1. \A b \in Audits : b # a => dir'[b] = dir[b]
      BY <1>2, <1>13, NamesDiffer
    <3> QED BY <3>1, <1>20 DEF Foreign
  <2>3. Filing(a, m).body = [i \in Scope(a, m) |-> dir[i]]
    BY <2>1, <2>2, <1>6, <1>20 DEF AsFound
  <2> QED BY <2>1, <2>3, <1>6, <1>18, <1>20
<1>21. AsFound(a)'
  BY <1>3, <1>19, <1>20 DEF AsFound
<1> QED BY <1>16, <1>21

(* Evidence at rest stays what it is, or is damaged: a listing that lists   *)
(* the damaged file is not held to it.                                      *)
LEMMA DamageFiles ==
    ASSUME NEW a \in Audits, TypeOK, InOrder(a), AsFound(a), NEW n \in Artifacts, Damage(n)
    PROVE  InOrder(a)' /\ AsFound(a)'
<1>1. /\ dir[n] # NoFile /\ dir' = [dir EXCEPT ![n].whole = FALSE]
      /\ UNCHANGED <<pc, kind, runs, todo, half>>
  BY DEF Damage
<1>2. PICK g : g = [dir[n] EXCEPT !.whole = FALSE]
  OBVIOUS
<1>3. g # NoFile /\ g.body = dir[n].body /\ ~g.whole
  <2>1. File(dir[n])
    BY <1>1, NamesDiffer DEF TypeOK
  <2> QED BY <2>1, <1>2, MarkedIsFile, FileIsSome
<1>4. dir'[n] = g /\ \A m \in Entries : m # n => dir'[m] = dir[m]
  BY <1>1, <1>2, NamesDiffer DEF TypeOK
<1>5. /\ Order(a)' = Order(a) /\ \A m : Scope(a, m)' = Scope(a, m)
      /\ \A m : m \notin Listings => Body(a, m)' = Body(a, m)
  BY <1>1, EvidenceStays
<1>6. Finished(a)' = Finished(a) /\ Written(a)' = Written(a) /\ Begun(a)' = Begun(a)
  BY <1>1, <1>5 DEF Finished, Written, Begun
<1>7. \A m \in Entries : dir'[m].body = dir[m].body /\ (dir'[m] = NoFile <=> dir[m] = NoFile)
  BY <1>1, <1>3, <1>4
<1>8. InOrder(a)'
  BY <1>1, <1>5, <1>6, <1>7, NamesDiffer DEF InOrder
<1>s. a \in Entries /\ Begun(a) \subseteq Entries /\ \A m : Scope(a, m) \subseteq Entries
  BY NamesDiffer, BegunIsOfArtifacts, EvidenceIsOfArtifacts DEF Scope
<1>9. \A m \in Begun(a) : Filing(a, m)'.body = Filing(a, m).body
  BY <1>6, <1>7, <1>s DEF Filing
<1>10. ASSUME NEW m \in Begun(a)' \cap Listings,
              \A i \in Scope(a, m) : dir'[i].whole, ~Foreign(a)'
       PROVE  Filing(a, m)'.body = [i \in Scope(a, m) |-> dir'[i]]
  <2>1. \A i \in Scope(a, m) : dir'[i] = dir[i]
    BY <1>3, <1>4, <1>10, <1>s
  <2>2. ~Foreign(a)
    BY <1>7, <1>10, NamesDiffer DEF Foreign
  <2>3. Filing(a, m).body = [i \in Scope(a, m) |-> dir[i]]
    BY <2>1, <2>2, <1>6, <1>10 DEF AsFound
  <2> QED BY <2>1, <2>3, <1>6, <1>9, <1>10
<1>11. AsFound(a)'
  BY <1>5, <1>6, <1>9, <1>10 DEF AsFound
<1> QED BY <1>8, <1>11

(* What was written stays as long as no one touches the directory. *)
LEMMA RestFiles ==
    ASSUME NEW a \in Audits, InOrder(a), AsFound(a), UNCHANGED <<dir, kind, runs, todo, half>>,
           pc'[a] = "done" => pc[a] = "done" \/ todo[a] = <<>>
    PROVE  InOrder(a)' /\ AsFound(a)'
<1>1. /\ Order(a)' = Order(a) /\ \A m : Scope(a, m)' = Scope(a, m)
      /\ \A m : m \notin Listings => Body(a, m)' = Body(a, m)
  BY EvidenceStays
<1>2. Finished(a)' = Finished(a) /\ Written(a)' = Written(a) /\ Begun(a)' = Begun(a)
  BY <1>1 DEF Finished, Written, Begun
<1>3. Foreign(a)' = Foreign(a) /\ \A m : Filing(a, m)' = Filing(a, m)
  BY <1>2 DEF Foreign, Filing
<1>4. InOrder(a)'
  BY <1>1, <1>2 DEF InOrder
<1>5. AsFound(a)'
  BY <1>1, <1>2, <1>3 DEF AsFound
<1> QED BY <1>4, <1>5

(* Temporary files stay those of writes under way and of killed audits.     *)
LEMMA TempsStep ==
    ASSUME TypeOK, WritesOwn, TempsAreOwn, [Next]_vars
    PROVE  TempsAreOwn'
<1> DEFINE T(b) == dir[b] # NoFile =>
                      \/ pc[b] = "dead"
                      \/ pc[b] = "writing" /\ half[b] /\ Head(todo[b]) \in Json
<1> SUFFICES ASSUME NEW b \in Audits PROVE T(b)'
  BY DEF TempsAreOwn
<1>0. T(b)
  BY DEF TempsAreOwn
<1>a. /\ dir = [e \in Entries |-> dir[e]] /\ left \in [Audits -> Seq(Artifacts)]
      /\ pc \in [Audits -> {"idle", "clearing", "running", "writing", "done", "dead"}]
      /\ half \in [Audits -> BOOLEAN] /\ todo \in [Audits -> Seq(Artifacts)]
      /\ b \in Entries /\ b \notin Artifacts
  BY NamesDiffer DEF TypeOK
<1>1. ASSUME NEW a \in Audits, Begin(a) PROVE T(b)'
  BY <1>1, <1>0, <1>a DEF Begin, Ready
<1>2. ASSUME NEW a \in Audits, Unlink(a) PROVE T(b)'
  <2>1. Head(left[a]) \in Artifacts
    BY <1>2, <1>a DEF Unlink
  <2> QED BY <1>2, <2>1, <1>0, <1>a DEF Unlink
<1>3. ASSUME NEW a \in Audits, Cleared(a) PROVE T(b)'
  BY <1>3, <1>0, <1>a DEF Cleared
<1>4. ASSUME NEW a \in Audits, Run(a) PROVE T(b)'
  BY <1>4, <1>0 DEF Run
<1>5. ASSUME NEW a \in Audits, Judge(a) PROVE T(b)'
  BY <1>5, <1>0, <1>a DEF Judge
<1>6. ASSUME NEW a \in Audits, StartWrite(a) PROVE T(b)'
  <2>1. Head(todo[a]) \in Artifacts /\ pc[a] = "writing"
    BY <1>6, <1>a DEF StartWrite
  <2>2. CASE b = a /\ Head(todo[a]) \in Json
    BY <1>6, <2>1, <2>2, <1>a DEF StartWrite
  <2>3. CASE ~(b = a /\ Head(todo[a]) \in Json)
    <3>1. dir'[b] = dir[b]
      BY <1>6, <2>1, <2>3, <1>a DEF StartWrite
    <3>2. b = a => half'[b]
      BY <1>6, <1>a DEF StartWrite
    <3> QED BY <1>6, <3>1, <3>2, <1>0, <1>a DEF StartWrite
  <2> QED BY <2>2, <2>3
<1>7. ASSUME NEW a \in Audits, FinishWrite(a) PROVE T(b)'
  <2>1. pc[a] = "writing" /\ half[a]
    BY <1>7 DEF FinishWrite
  <2>2. Head(todo[a]) \in Artifacts
    <3>1. todo[a] # <<>>
      BY <2>1 DEF WritesOwn
    <3>2. todo[a] \in Seq(Artifacts)
      BY <1>a
    <3> QED BY <3>1, <3>2
  <2>3. CASE b = a
    <3>1. dir'[a] = NoFile
      BY <1>7, <2>1, <2>2, <2>3, <1>0, <1>a DEF FinishWrite
    <3> QED BY <2>3, <3>1
  <2>4. CASE b # a
    <3>1. dir'[b] = dir[b]
      BY <1>7, <2>2, <2>4, <1>a DEF FinishWrite
    <3> QED BY <1>7, <2>4, <3>1, <1>0, <1>a DEF FinishWrite
  <2> QED BY <2>3, <2>4
<1>8. ASSUME NEW a \in Audits, Return(a) PROVE T(b)'
  <2>1. half[a] => todo[a] # <<>>
    BY DEF WritesOwn
  <2> QED BY <1>8, <2>1, <1>0, <1>a DEF Return
<1>9. ASSUME NEW a \in Audits, Kill(a) PROVE T(b)'
  BY <1>9, <1>0, <1>a DEF Kill
<1>10. ASSUME NEW a \in Audits, Raise(a) PROVE T(b)'
  BY <1>10, <1>0, <1>a DEF Raise
<1>11. ASSUME NEW n \in Artifacts, Damage(n) PROVE T(b)'
  BY <1>11, <1>0, <1>a DEF Damage
<1>12. CASE UNCHANGED vars
  BY <1>12, <1>0 DEF vars
<1> QED
  BY <1>1, <1>2, <1>3, <1>4, <1>5, <1>6, <1>7, <1>8, <1>9, <1>10, <1>11, <1>12 DEF Next

(* Without overlap the active audit is the one that began last. *)
LEMMA LatestStep ==
    ASSUME TypeOK, ~Overlapping, LatestIsActive, [Next]_vars
    PROVE  LatestIsActive'
<1>1. ASSUME NEW a \in Audits, Begin(a) PROVE LatestIsActive'
  BY <1>1 DEF Begin, Ready, LatestIsActive, TypeOK
<1>2. ASSUME NEW a \in Audits,
             \/ Cleared(a) \/ Judge(a) \/ Return(a) \/ Kill(a) \/ Raise(a)
      PROVE  LatestIsActive'
  BY <1>2 DEF Cleared, Judge, Return, Kill, Raise, LatestIsActive, TypeOK, Active
<1>3. CASE UNCHANGED <<pc, latest>>
  BY <1>3 DEF LatestIsActive
<1> QED
  BY <1>1, <1>2, <1>3 DEF Next, Unlink, Run, StartWrite, FinishWrite, Damage, vars

(* The evidence of the audit that began last grows in its order and stays.  *)
LEMMA FilesStep ==
    ASSUME TypeOK, WritesOwn, TempsAreOwn, ~Overlapping, OldIsUnlinked, LatestIsActive,
           \A a \in Audits : Holds(a) => InOrder(a) /\ AsFound(a), [Next]_vars
    PROVE  \A a \in Audits : Holds(a)' => InOrder(a)' /\ AsFound(a)'
<1> SUFFICES ASSUME NEW b \in Audits, Holds(b)' PROVE InOrder(b)' /\ AsFound(b)'
  OBVIOUS
<1>a. pc \in [Audits -> {"idle", "clearing", "running", "writing", "done", "dead"}]
  BY DEF TypeOK
<1>b. ASSUME NEW a \in Audits, pc[a] \in Active, latest' = latest PROVE a = b
  BY <1>b DEF LatestIsActive, Holds
<1>1. ASSUME NEW a \in Audits, \/ Begin(a) \/ Unlink(a) \/ Cleared(a) \/ Run(a) \/ Kill(a) \/ Raise(a)
      PROVE  FALSE
  <2>1. ASSUME Begin(a) PROVE FALSE
    BY <2>1, <1>a DEF Begin, Holds
  <2>2. ASSUME \/ Unlink(a) \/ Cleared(a) \/ Run(a) \/ Kill(a) \/ Raise(a) PROVE FALSE
    <3>1. pc[a] \in Active /\ latest' = latest
      BY <2>2 DEF Unlink, Cleared, Run, Kill, Raise, Active
    <3>2. pc'[a] \in {"clearing", "running", "dead"}
      BY <2>2, <1>a DEF Unlink, Cleared, Run, Kill, Raise
    <3> QED BY <3>1, <3>2, <1>b DEF Holds
  <2> QED BY <1>1, <2>1, <2>2
<1>2. ASSUME NEW a \in Audits, Judge(a) PROVE InOrder(b)' /\ AsFound(b)'
  <2>1. a = b
    BY <1>2, <1>b DEF Judge, Active
  <2> QED BY <1>2, <2>1, JudgeFiles
<1>3. ASSUME NEW a \in Audits, StartWrite(a) PROVE InOrder(b)' /\ AsFound(b)'
  <2>1. a = b /\ Holds(a)
    BY <1>3, <1>b DEF StartWrite, Active, Holds
  <2> QED BY <1>3, <2>1, StartFiles
<1>4. ASSUME NEW a \in Audits, FinishWrite(a) PROVE InOrder(b)' /\ AsFound(b)'
  <2>1. a = b /\ Holds(a)
    BY <1>4, <1>b DEF FinishWrite, Active, Holds
  <2> QED BY <1>4, <2>1, FinishFiles
<1>5. ASSUME NEW a \in Audits, Return(a) PROVE InOrder(b)' /\ AsFound(b)'
  <2>1. a = b /\ Holds(a)
    BY <1>5, <1>b DEF Return, Active, Holds
  <2>2. InOrder(b) /\ AsFound(b) /\ todo[b] = <<>> /\ UNCHANGED <<dir, kind, runs, todo, half>>
    BY <1>5, <2>1 DEF Return
  <2> QED BY <2>2, RestFiles
<1>6. ASSUME NEW n \in Artifacts, Damage(n) PROVE InOrder(b)' /\ AsFound(b)'
  <2>1. Holds(b)
    BY <1>6 DEF Damage, Holds
  <2> QED BY <1>6, <2>1, DamageFiles
<1>7. CASE UNCHANGED vars
  <2>1. Holds(b) /\ pc' = pc /\ UNCHANGED <<dir, kind, runs, todo, half>>
    BY <1>7 DEF vars, Holds
  <2> QED BY <2>1, RestFiles
<1> QED BY <1>1, <1>2, <1>3, <1>4, <1>5, <1>6, <1>7 DEF Next

(* The inductive invariant holds. *)
THEOREM Invariance == Spec => []IInv
<1>1. Init => IInv
  BY Initial
<1>2. IInv /\ [Next]_vars => IInv'
  <2> SUFFICES ASSUME IInv, [Next]_vars PROVE IInv'
    OBVIOUS
  <2>1. TypeOK' /\ WritesOwn' /\ ReportIsGenuine' /\ TempsAreOwn'
    BY TypeStep, WritesStep, ReportStep, TempsStep DEF IInv
  <2>2. ~Overlapping => OneAtATime' /\ OldIsUnlinked' /\ ListedIsOwn' /\ LatestIsActive'
    BY OneAtATimeStep, OldIsUnlinkedStep, ListedIsOwnStep, LatestStep DEF IInv
  <2>3. ~Overlapping => \A a \in Audits : Holds(a)' => InOrder(a)' /\ AsFound(a)'
    BY FilesStep DEF IInv
  <2> QED BY <2>1, <2>2, <2>3 DEF IInv
<1> QED BY <1>1, <1>2, PTL DEF Spec

(* What the validator accepts was written, undamaged, by one audit.         *)
THEOREM OneAudit == Spec => []AcceptedIsOneAudit
<1>1. ASSUME IInv, ~Overlapping, Accepted(dir)
      PROVE  \E a \in Audits : \A n \in Present(dir) : dir[n].by = a /\ dir[n].whole
  <2> DEFINE c == dir["checksums"]
  <2>1. c # NoFile /\ c.whole /\ Sealed(dir)
    BY <1>1 DEF Accepted
  <2>2. c.by \in Audits
    BY <1>1, <2>1, NamesDiffer DEF IInv, TypeOK, File
  <2>3. Present(dir) \subseteq Artifacts
    BY <2>1 DEF Sealed, Artifacts
  <2>4. ASSUME NEW n \in Present(dir), n # "checksums" PROVE dir[n].by = c.by /\ dir[n].whole
    <3>1. c.body = [e \in Present(dir) \ {"checksums"} |-> dir[e]]
      BY <2>1 DEF Sealed
    <3>2. n \in DOMAIN c.body /\ c.body[n] = dir[n]
      BY <2>4, <3>1
    <3> QED BY <1>1, <2>1, <2>3, <2>4, <3>2 DEF IInv, ListedIsOwn
  <2> HIDE DEF c
  <2>5. \A n \in Present(dir) : dir[n].by = c.by /\ dir[n].whole
    BY <2>1, <2>4 DEF c
  <2> QED BY <2>2, <2>5
<1>2. IInv => AcceptedIsOneAudit
  BY <1>1 DEF AcceptedIsOneAudit
<1> QED BY <1>2, Invariance, PTL
(* A run holds what was served to it, and frames of it if it committed.     *)
LEMMA RunFacts ==
    ASSUME NEW r \in AllRuns
    PROVE  /\ r.served \in Served
           /\ r.ended = "committed" => \A v \in Venues : Frames(r)[v] = r.served[v]
<1>1. PICK s \in Served : r \in Outcomes(s) \cup Interrupted(s)
  BY DEF AllRuns
<1>2. r.served = s
  <2>1. ASSUME r \in Outcomes(s) PROVE r.served = s
    BY <2>1 DEF Outcomes
  <2>2. ASSUME r \in Interrupted(s) PROVE r.served = s
    BY <2>2 DEF Interrupted
  <2> QED BY <1>1, <2>1, <2>2
<1> QED BY <1>1, <1>2 DEF Frames

(* A history that covers the window is the window. *)
LEMMA CoveredIsWindow ==
    ASSUME NEW s \in Served, NEW v \in Venues, Covered(s[v])
    PROVE  s[v].from = Start /\ s[v].to = End /\ Rows(s[v]) = End - Start
<1>1. s[v] # Absent /\ s[v] \in History
  BY WindowAssumption DEF Covered, Valid
<1> QED BY <1>1, WindowAssumption DEF Covered, Valid, History, Rows

(* A passing report is one of two committed runs with the same rows. *)
LEMMA PassingReport ==
    ASSUME NEW a \in Audits, Report(a).passed
    PROVE  /\ runs[a][1].ended = "committed" /\ runs[a][2].ended = "committed"
           /\ Frames(runs[a][1]) = Frames(runs[a][2])
           /\ Report(a).hashes[1] = Frames(runs[a][1])
           /\ Report(a).rows = [v \in Venues |-> Rows(Frames(runs[a][1])[v])]
<1>1. Report(a).idempotency
  BY DEF Report
<1>2. /\ {runs[a][1].ended, runs[a][2].ended} = {"committed"}
      /\ SameRows(Frames(runs[a][1]), Frames(runs[a][2]))
  BY <1>1 DEF Report
<1>3. /\ Report(a).hashes[1] = Frames(runs[a][1])
      /\ Report(a).rows = [v \in Venues |-> Rows(Frames(runs[a][1])[v])]
  BY DEF Report
<1> QED BY <1>2, <1>3 DEF SameRows

(* An accepted pass was earned, for audits one after another or at once.    *)
THEOREM EarnedPass == Spec => []AcceptedPassIsEarned
<1>1. ASSUME IInv, Accepted(dir), dir["report"].body.passed
      PROVE  AcceptedPassIsEarned
  <2> DEFINE a == dir["report"].by
             first == runs[a][1]
             second == runs[a][2]
  <2>1. /\ dir["report"] # NoFile /\ TraceAgrees(dir) /\ FramesAgree(dir)
    BY <1>1 DEF Accepted, Json
  <2>2. a \in Audits /\ Len(runs[a]) = 2 /\ dir["report"].body = Report(a)
    BY <1>1, <2>1, NamesDiffer DEF IInv, TypeOK, File, ReportIsGenuine
  <2>3. first \in AllRuns /\ second \in AllRuns
    <3>1. runs[a] \in Seq(AllRuns)
      BY <1>1, <2>2 DEF IInv, TypeOK
    <3> QED BY <2>2, <3>1
  <2>4. /\ first.ended = "committed" /\ second.ended = "committed"
        /\ Frames(first) = Frames(second)
        /\ dir["report"].body.hashes[1] = Frames(first)
        /\ dir["report"].body.rows = [v \in Venues |-> Rows(Frames(first)[v])]
    BY <1>1, <2>2, PassingReport
  <2> HIDE DEF first, second, a
  <2>5. ASSUME NEW v \in Venues
        PROVE  /\ first.served[v] = second.served[v] /\ dir[v].body = first.served[v]
               /\ first.served[v].from = Start /\ first.served[v].to = End
               /\ dir["trace"].body[1][v].kept = End - Start
    <3>1. /\ Frames(first)[v] = first.served[v] /\ Frames(second)[v] = second.served[v]
          /\ first.served \in Served
      BY <2>3, <2>4, RunFacts
    <3>2. dir[v].body = Frames(first)[v] /\ Covered(dir[v].body)
      BY <2>1, <2>4 DEF FramesAgree, FileAgrees
    <3>3. dir["trace"].body[1][v].kept = dir["report"].body.rows[v]
      BY <1>1, <2>1 DEF TraceAgrees
    <3>4. dir["report"].body.rows[v] = Rows(first.served[v])
      BY <2>4, <3>1
    <3>5. Covered(first.served[v])
      BY <3>1, <3>2
    <3> QED BY <2>4, <3>1, <3>2, <3>3, <3>4, <3>5, CoveredIsWindow
  <2>6. ASSUME NEW i \in 1 .. 2 PROVE runs[a][i].ended = "committed"
    <3>1. i = 1 \/ i = 2
      OBVIOUS
    <3> QED BY <3>1, <2>4 DEF first, second
  <2>7. \A v \in Venues :
           /\ runs[a][1].served[v] = runs[a][2].served[v]
           /\ runs[a][1].served[v].from = Start /\ runs[a][1].served[v].to = End
           /\ dir[v].body = runs[a][1].served[v]
           /\ dir["trace"].body[1][v].kept = End - Start
    BY <2>5 DEF first, second
  <2> QED BY <2>6, <2>7 DEF AcceptedPassIsEarned, a
<1>2. IInv => AcceptedPassIsEarned
  BY <1>1 DEF AcceptedPassIsEarned
<1> QED BY <1>2, Invariance, PTL

Ways == {"uncalled", "returned", "early", "spent", "stuck", "cut"}

(* How a run can have ended: only a raised one was interrupted.             *)
LEMMA RunEnds ==
    ASSUME NEW r \in AllRuns
    PROVE  /\ r.served \in Served /\ r.ended \in {"committed", "late", "raised", "rejected"}
           /\ \A v \in Venues : r.fetched[v] \in Ways
           /\ r.ended # "raised" => \A v \in Venues : r.fetched[v] = "returned"
<1>1. PICK s \in Served : r \in Outcomes(s) \cup Interrupted(s)
  BY DEF AllRuns
<1>2. CASE r \in Outcomes(s)
  <2>1. PICK e \in {"committed", "late", "raised", "rejected"} :
            r = [served |-> s, fetched |-> AllReturned, ended |-> e]
    BY <1>2 DEF Outcomes
  <2>2. \A v \in Venues : AllReturned[v] = "returned"
    BY DEF AllReturned
  <2> QED BY <2>1, <2>2 DEF Ways
<1>3. CASE r \in Interrupted(s)
  <2>1. PICK w \in Venues, how \in {"early", "spent", "stuck", "cut"} :
            r = [served |-> s, fetched |-> Fetched(w, how), ended |-> "raised"]
    BY <1>3 DEF Interrupted
  <2>2. \A v \in Venues : Fetched(w, how)[v] \in Ways
    BY <2>1 DEF Fetched, Ways
  <2> QED BY <2>1, <2>2
<1> QED BY <1>1, <1>2, <1>3

LEMMA RowsAreNumbers ==
    ASSUME NEW s \in Served, NEW v \in Venues PROVE Rows(s[v]) \in Int
<1>1. s[v] \in History \cup {Absent}
  BY WindowAssumption
<1> QED BY <1>1 DEF Rows, History

(* The accounting of the validator refuses exactly the plain fetches that   *)
(* returned and the traced ones that ran out of retries or raised with rows *)
(* kept.                                                                    *)
LEMMA AccountedTraces ==
    ASSUME NEW k, NEW how \in Ways, NEW h, Rows(h) \in Int
    PROVE  Accounted(Trace(k, how, h)) <=>
              IF k = "plain" THEN how # "returned" ELSE how \notin {"spent", "cut"}
<1>0. Retries \in Nat
  BY LimitAssumption
<1>1. CASE how = "returned"
  <2>1. Measured(how, h) = [calls |-> 1, cursors |-> 1, pages |-> 1, retries |-> 0,
                            raw |-> Rows(h), removed |-> 0, kept |-> Rows(h), failed |-> FALSE]
    BY <1>1 DEF Measured
  <2> QED BY <1>1, <2>1 DEF Accounted, Trace
<1>2. CASE how # "returned" /\ k = "plain"
  <2> DEFINE m == Measured("uncalled", h)
  <2>1. m = [calls |-> 0, cursors |-> 0, pages |-> 0, retries |-> 0,
             raw |-> 0, removed |-> 0, kept |-> 0, failed |-> FALSE]
    BY DEF Measured
  <2>2. Trace(k, how, h) = [m EXCEPT !.failed = how # "uncalled"]
    BY <1>2 DEF Trace
  <2> HIDE DEF m
  <2> QED BY <1>2, <2>1, <2>2 DEF Accounted
<1>3. CASE how # "returned" /\ k # "plain"
  <2>1. Trace(k, how, h) = Measured(how, h)
    BY <1>3 DEF Trace
  <2>2. CASE how = "spent"
    <3>1. /\ Measured(how, h).calls = Retries + 1 /\ Measured(how, h).pages = 0
          /\ Measured(how, h).retries = Retries
      BY <2>2 DEF Measured
    <3> QED BY <1>0, <1>3, <2>1, <2>2, <3>1 DEF Accounted
  <2>3. CASE how = "stuck"
    <3>1. /\ Measured(how, h).calls = 1 /\ Measured(how, h).cursors = 1
          /\ Measured(how, h).pages = 1 /\ Measured(how, h).retries = 0
          /\ Measured(how, h).kept = 0 /\ Measured(how, h).raw = 1
          /\ Measured(how, h).removed = 1
      BY <2>3 DEF Measured
    <3> QED BY <1>3, <2>1, <2>3, <3>1 DEF Accounted
  <2>4. CASE how = "cut"
    <3>1. /\ Measured(how, h).kept = 0 /\ Measured(how, h).raw = 2
          /\ Measured(how, h).removed = 1
      BY <2>4 DEF Measured
    <3> QED BY <1>3, <2>1, <2>4, <3>1 DEF Accounted
  <2>5. CASE how \in {"early", "uncalled"}
    <3>1. /\ Measured(how, h).calls = 0 /\ Measured(how, h).cursors = 0
          /\ Measured(how, h).pages = 0 /\ Measured(how, h).retries = 0
          /\ Measured(how, h).kept = 0 /\ Measured(how, h).raw = 0
          /\ Measured(how, h).removed = 0
      BY <2>5 DEF Measured
    <3> QED BY <1>3, <2>1, <2>5, <3>1 DEF Accounted
  <2> QED BY <1>3, <2>2, <2>3, <2>4, <2>5 DEF Ways
<1> QED BY <1>1, <1>2, <1>3

(* A fetch that returned did not fail and kept what was served. *)
LEMMA ReturnedTraces ==
    ASSUME NEW k, NEW h
    PROVE  ~Trace(k, "returned", h).failed /\ Trace(k, "returned", h).kept = Rows(h)
<1>1. Measured("returned", h) = [calls |-> 1, cursors |-> 1, pages |-> 1, retries |-> 0,
                            raw |-> Rows(h), removed |-> 0, kept |-> Rows(h), failed |-> FALSE]
  BY DEF Measured
<1> QED BY <1>1 DEF Trace

(* What a report claims. *)
LEMMA ReportSays ==
    ASSUME NEW a
    PROVE  LET r == Report(a)
               first == runs[a][1]
               second == runs[a][2]
           IN  /\ r.fixture <=> kind[a] # "live"
               /\ r.live <=> /\ ~r.fixture /\ ~r.failure
                             /\ \A i \in 1 .. 2, v \in Venues : Traces(a)[i][v].raw > 0
               /\ r.failure <=> first.ended \in {"raised", "late"} \/ second.ended \in {"raised", "late"}
               /\ r.coverage <=> \A v \in Venues : Covered(Frames(first)[v])
               /\ r.quality <=> first.ended = "committed"
               /\ r.alignment <=> Returned(first) /\ Aligned(first.served)
               /\ r.divergence <=> Returned(first) /\ Close(first.served)
               /\ r.idempotency <=> /\ first.ended = "committed" /\ second.ended = "committed"
                                    /\ SameRows(Frames(first), Frames(second))
               /\ r.counts = Traces(a)[1]
               /\ r.rows = [v \in Venues |-> Rows(Frames(first)[v])]
               /\ r.hashes[1] = Frames(first) /\ r.hashes[2] = Frames(second)
               /\ r.passed <=> /\ ~r.failure /\ r.quality /\ r.coverage /\ r.alignment
                               /\ r.divergence /\ r.idempotency /\ (r.fixture \/ r.live)
               /\ r.fixture \in BOOLEAN /\ r.live \in BOOLEAN /\ r.failure \in BOOLEAN
               /\ r.coverage \in BOOLEAN /\ r.quality \in BOOLEAN /\ r.alignment \in BOOLEAN
               /\ r.divergence \in BOOLEAN /\ r.idempotency \in BOOLEAN /\ r.passed \in BOOLEAN
BY DEF Report

(* The directory of an audit that finished, whose files are whole.          *)
Settled(a) ==
    /\ IInv /\ ~Overlapping /\ pc[a] = "done" /\ latest = a
    /\ \A n \in Artifacts \cap Present(dir) : dir[n].whole

(* It holds the evidence of the audit, and the listings list it unless a    *)
(* killed audit left a temporary file.                                      *)
LEMMA SettledFiles ==
    ASSUME NEW a \in Audits, Settled(a)
    PROVE  /\ Len(runs[a]) = 2
           /\ Present(dir) \cap Artifacts = Evidence(a)
           /\ \A n \in Evidence(a) : dir[n] # NoFile /\ dir[n].whole
           /\ \A n \in Evidence(a) \ Listings : dir[n].body = Body(a, n)
           /\ Present(dir) \cap Audits = {} =>
                 \A n \in Listings : dir[n].body = [m \in Scope(a, n) |-> dir[m]]
<1>1. TypeOK /\ WritesOwn /\ InOrder(a) /\ AsFound(a)
  BY DEF Settled, IInv, Holds
<1>2. Len(runs[a]) = 2 /\ todo[a] = <<>>
  BY <1>1 DEF InOrder, Settled
<1>3. Written(a) = Evidence(a) /\ Begun(a) = Evidence(a)
  BY <1>1, <1>2, AllWritten DEF WritesOwn, Begun
<1>4. \A n \in Artifacts : dir[n] # NoFile <=> n \in Evidence(a)
  BY <1>1, <1>3 DEF InOrder
<1>5. Present(dir) \cap Artifacts = Evidence(a)
  BY <1>4, EvidenceIsOfArtifacts, NamesDiffer DEF Present
<1>6. \A n \in Evidence(a) : dir[n] # NoFile /\ dir[n].whole
  BY <1>4, <1>5, EvidenceIsOfArtifacts DEF Settled
<1>7. \A n \in Evidence(a) : Filing(a, n) = dir[n]
  BY <1>3 DEF Filing
<1>8. \A n \in Evidence(a) \ Listings : dir[n].body = Body(a, n)
  BY <1>1, <1>3, <1>7 DEF AsFound
<1>9. ASSUME Present(dir) \cap Audits = {}, NEW n \in Listings
      PROVE  dir[n].body = [m \in Scope(a, n) |-> dir[m]]
  <2>1. ~Foreign(a)
    BY <1>9, NamesDiffer DEF Foreign, Present
  <2>2. n \in Evidence(a) /\ \A m \in Scope(a, n) : dir[m].whole
    BY <1>6, <1>9 DEF Listings, Evidence, Base, Json, Scope
  <2> QED BY <1>1, <1>3, <1>7, <1>9, <2>1, <2>2 DEF AsFound
<1> QED BY <1>2, <1>5, <1>6, <1>8, <1>9

(* What the report, the traces, the quality and the Parquet files hold.     *)
LEMMA SettledBodies ==
    ASSUME NEW a \in Audits, Settled(a)
    PROVE  /\ dir["report"].body = Report(a) /\ dir["quality"].body = Report(a).quality
           /\ dir["trace"].body = Traces(a) /\ dir["summary"].body = Traces(a)
           /\ Report(a).passed => \A v \in Venues : dir[v].body = Frames(runs[a][1])[v]
<1>1. \A n \in Evidence(a) \ Listings : dir[n].body = Body(a, n)
  BY SettledFiles
<1>2. {"report", "quality", "trace", "summary"} \subseteq Evidence(a) \ Listings
  BY DEF Evidence, Base, Json, Listings
<1>3. ASSUME Report(a).passed, NEW v \in Venues PROVE dir[v].body = Frames(runs[a][1])[v]
  <2>1. v \notin Base /\ v \in Evidence(a)
    BY <1>3, VenueAssumption DEF Evidence
  <2>2. Body(a, v) = Frames(runs[a][1])[v] /\ v \notin Listings
    BY <2>1 DEF Body, Base, Json, Listings
  <2> QED BY <1>1, <2>1, <2>2
<1> QED BY <1>1, <1>2, <1>3 DEF Body

(* It is sealed unless a temporary file is there. *)
LEMMA SettledSeal ==
    ASSUME NEW a \in Audits, Settled(a)
    PROVE  Sealed(dir) <=> Present(dir) \cap Audits = {}
<1>1. /\ Present(dir) \cap Artifacts = Evidence(a)
      /\ Present(dir) \cap Audits = {} =>
            \A n \in Listings : dir[n].body = [m \in Scope(a, n) |-> dir[m]]
  BY SettledFiles
<1>2. Base \cup (IF dir["report"].body.passed THEN Venues ELSE {}) = Evidence(a)
  BY SettledBodies DEF Evidence
<1>3. Present(dir) = (Present(dir) \cap Artifacts) \cup (Present(dir) \cap Audits)
  BY DEF Present, Entries
<1>4. ASSUME Sealed(dir) PROVE Present(dir) \cap Audits = {}
  BY <1>2, <1>4, EvidenceIsOfArtifacts, NamesDiffer DEF Sealed
<1>5. ASSUME Present(dir) \cap Audits = {} PROVE Sealed(dir)
  <2>1. Present(dir) = Evidence(a)
    BY <1>1, <1>3, <1>5
  <2>2. /\ Scope(a, "manifest") = Present(dir) \ {"manifest", "checksums"}
        /\ Scope(a, "checksums") = Present(dir) \ {"checksums"}
    BY <2>1 DEF Scope, Listings
  <2>3. /\ dir["manifest"].body = [m \in Scope(a, "manifest") |-> dir[m]]
        /\ dir["checksums"].body = [m \in Scope(a, "checksums") |-> dir[m]]
    BY <1>1, <1>5 DEF Listings
  <2> QED BY <1>2, <2>1, <2>2, <2>3 DEF Sealed
<1> QED BY <1>4, <1>5

LEMMA RowsReported ==
    ASSUME NEW a, NEW v \in Venues
    PROVE  Report(a).rows[v] = Rows(Frames(runs[a][1])[v])
<1>1. Report(a).rows = [w \in Venues |-> Rows(Frames(runs[a][1])[w])]
  BY DEF Report
<1> QED BY <1>1

(* A report that passed is of two runs that served and kept the window.     *)
LEMMA PassedRuns ==
    ASSUME NEW a \in Audits, runs[a] \in Seq(AllRuns), Len(runs[a]) = 2, Report(a).passed
    PROVE  /\ \A i \in 1 .. 2 : runs[a][i].ended = "committed"
           /\ \A i \in 1 .. 2, v \in Venues : runs[a][i].fetched[v] = "returned"
           /\ \A v \in Venues : /\ Frames(runs[a][1])[v] = runs[a][1].served[v]
                                /\ Covered(runs[a][1].served[v])
           /\ Frames(runs[a][1]) = runs[a][1].served
<1>1. runs[a][1] \in AllRuns /\ runs[a][2] \in AllRuns
  OBVIOUS
<1>2. runs[a][1].ended = "committed" /\ runs[a][2].ended = "committed"
  BY PassingReport
<1>3. \A i \in 1 .. 2 : runs[a][i] \in AllRuns /\ runs[a][i].ended = "committed"
  BY <1>1, <1>2
<1>4. \A i \in 1 .. 2, v \in Venues : runs[a][i].fetched[v] = "returned"
  BY <1>3, RunEnds
<1>5. \A v \in Venues : Covered(Frames(runs[a][1])[v])
  BY ReportSays
<1>6. \A v \in Venues : Frames(runs[a][1])[v] = runs[a][1].served[v]
  BY <1>1, <1>2, RunFacts
<1>7. Frames(runs[a][1]) = runs[a][1].served
  <2>1. runs[a][1].served \in Served
    BY <1>1, RunEnds
  <2>2. runs[a][1].served \in [Venues -> History \cup {Absent}]
    BY <2>1, WindowAssumption
  <2>3. Frames(runs[a][1]) = [v \in Venues |-> Frames(runs[a][1])[v]]
    BY DEF Frames
  <2> QED BY <2>2, <2>3, <1>6
<1> QED BY <1>3, <1>4, <1>5, <1>6, <1>7

(* The traces agree unless the telemetry of a fetch does not add up. *)
LEMMA SettledTraces ==
    ASSUME NEW a \in Audits, Settled(a)
    PROVE  TraceAgrees(dir) <=> ~Unaccounted(a)
<1> DEFINE R == Report(a)
           T == Traces(a)
<1>0. runs[a] \in Seq(AllRuns) /\ Len(runs[a]) = 2
  BY SettledFiles DEF Settled, IInv, TypeOK
<1>1. dir["report"].body = R /\ dir["trace"].body = T /\ dir["summary"].body = T
  BY SettledBodies
<1>2. ASSUME NEW i \in 1 .. 2, NEW v \in Venues
      PROVE  /\ T[i][v] = Trace(kind[a], runs[a][i].fetched[v], runs[a][i].served[v])
             /\ runs[a][i].fetched[v] \in Ways /\ Rows(runs[a][i].served[v]) \in Int
  <2>1. T[i][v] = Trace(kind[a], runs[a][i].fetched[v], runs[a][i].served[v])
    BY DEF Traces
  <2>2. runs[a][i] \in AllRuns
    BY <1>0
  <2> QED BY <2>1, <2>2, RunEnds, RowsAreNumbers
<1>3. ASSUME NEW i \in 1 .. 2, NEW v \in Venues
      PROVE  Accounted(T[i][v]) <=>
                IF kind[a] = "plain" THEN runs[a][i].fetched[v] # "returned"
                ELSE runs[a][i].fetched[v] \notin {"spent", "cut"}
  BY <1>2, AccountedTraces
<1>4. T[1] = R.counts
  BY ReportSays
<1>5. ASSUME R.passed, NEW i \in 1 .. 2, NEW v \in Venues PROVE ~T[i][v].failed
  BY <1>0, <1>2, <1>5, PassedRuns, ReturnedTraces
<1>6. ASSUME R.passed, ~R.fixture, NEW i \in 1 .. 2, NEW v \in Venues PROVE T[i][v].raw > 0
  BY <1>6, ReportSays
<1>7. ASSUME R.passed, NEW v \in Venues PROVE T[1][v].kept = R.rows[v]
  <2>1. T[1][v].kept = Rows(runs[a][1].served[v])
    BY <1>0, <1>2, <1>7, PassedRuns, ReturnedTraces
  <2>2. R.rows[v] = Rows(Frames(runs[a][1])[v])
    BY RowsReported
  <2> QED BY <2>1, <2>2, <1>0, <1>7, PassedRuns
<1> HIDE DEF R, T
<1>8. TraceAgrees(dir) <=> \A i \in 1 .. 2, v \in Venues : Accounted(T[i][v])
  BY <1>1, <1>4, <1>5, <1>6, <1>7 DEF TraceAgrees
<1> QED BY <1>3, <1>8 DEF Unaccounted

(* The verdict is recomputed unless a run failed after it published.        *)
LEMMA SettledVerdict ==
    ASSUME NEW a \in Audits, Settled(a)
    PROVE  VerdictAgrees(dir) <=> ~HalfCommitted(a)
<1> DEFINE R == Report(a)
           first == runs[a][1]
           second == runs[a][2]
           same == SameRows(Frames(first), Frames(second))
<1>0. runs[a] \in Seq(AllRuns) /\ Len(runs[a]) = 2
  BY SettledFiles DEF Settled, IInv, TypeOK
<1>1. dir["report"].body = R /\ dir["quality"].body = R.quality
  BY SettledBodies
<1>2. /\ first.ended \in {"committed", "late", "raised", "rejected"}
      /\ second.ended \in {"committed", "late", "raised", "rejected"}
  BY <1>0, RunEnds
<1>3. same => first.ended \in {"committed", "late"} /\ second.ended \in {"committed", "late"}
  BY DEF SameRows, Frames, Venues
<1>4. R.idempotency <=> first.ended = "committed" /\ second.ended = "committed" /\ same
  BY ReportSays
<1>5. Idempotent(R) <=> same
  BY ReportSays DEF Idempotent
<1>6. HalfCommitted(a) <=> same /\ (first.ended = "late" \/ second.ended = "late")
  BY DEF HalfCommitted
<1>7. (R.idempotency = Idempotent(R)) <=> ~HalfCommitted(a)
  <2>1. R.idempotency \in BOOLEAN /\ Idempotent(R) \in BOOLEAN
    BY ReportSays DEF Idempotent, SameRows
  <2>2. (R.idempotency <=> Idempotent(R)) <=> ~HalfCommitted(a)
    BY <1>2, <1>3, <1>4, <1>5, <1>6
  <2> QED BY <2>1, <2>2
<1>8. ASSUME R.passed, NEW v \in Venues PROVE R.rows[v] > 0
  <2>1. runs[a][1].served \in Served /\ Covered(runs[a][1].served[v])
    BY <1>0, <1>8, PassedRuns, RunEnds
  <2>2. Frames(first)[v] = runs[a][1].served[v]
    BY <1>0, <1>8, PassedRuns
  <2>3. R.rows[v] = Rows(runs[a][1].served[v])
    BY <2>2, RowsReported
  <2> QED BY <2>1, <2>3, CoveredIsWindow, WindowAssumption
<1>9. ~(R.fixture /\ R.live) /\ (R.passed => R.quality)
  BY ReportSays
<1>10. R.passed <=> /\ ~R.failure /\ R.quality /\ R.coverage /\ R.alignment
                    /\ R.divergence /\ R.idempotency /\ (R.fixture \/ R.live)
  BY ReportSays
<1>11. /\ R.passed \in BOOLEAN /\ R.coverage \in BOOLEAN /\ R.quality \in BOOLEAN
       /\ R.alignment \in BOOLEAN /\ R.divergence \in BOOLEAN
  BY ReportSays
<1> HIDE DEF R, first, second, same
<1>12. ASSUME R.idempotency = Idempotent(R)
       PROVE  R.passed = /\ R.coverage /\ R.quality /\ R.alignment /\ R.divergence
                         /\ Idempotent(R) /\ ~R.failure /\ \A v \in Venues : R.rows[v] > 0
                         /\ R.fixture \/ R.live
  BY <1>8, <1>10, <1>11, <1>12
<1> QED BY <1>1, <1>7, <1>9, <1>12 DEF VerdictAgrees

(* The Parquet files of a pass hold the frames its gates were opened for.   *)
LEMMA SettledFrames ==
    ASSUME NEW a \in Audits, Settled(a), Report(a).passed
    PROVE  Venues \subseteq Present(dir) /\ FramesAgree(dir)
<1> DEFINE R == Report(a)
           served == runs[a][1].served
<1>0. runs[a] \in Seq(AllRuns) /\ Len(runs[a]) = 2
  BY SettledFiles DEF Settled, IInv, TypeOK
<1>1. /\ \A v \in Venues : dir[v].whole /\ v \in Present(dir)
  BY SettledFiles DEF Evidence
<1>2. dir["report"].body = R /\ \A v \in Venues : dir[v].body = served[v]
  BY <1>0, SettledBodies, PassedRuns
<1>3. \A v \in Venues : Covered(served[v])
  BY <1>0, PassedRuns
<1>4. Frames(runs[a][1]) = served
  BY <1>0, PassedRuns
<1>5. R.hashes[1] = served /\ \A v \in Venues : R.rows[v] = Rows(served[v])
  <2>1. R.hashes[1] = Frames(runs[a][1])
    BY ReportSays
  <2> QED BY <2>1, <1>4, RowsReported
<1>6. Aligned(served) /\ Close(served)
  BY ReportSays
<1>7. R.coverage /\ R.quality /\ R.alignment /\ R.divergence
  BY ReportSays
<1>8. [v \in Venues |-> dir[v].body] = served
  <2>1. runs[a][1] \in AllRuns
    BY <1>0
  <2>2. served \in [Venues -> History \cup {Absent}]
    BY <2>1, RunEnds, WindowAssumption
  <2> QED BY <2>2, <1>2
<1> HIDE DEF R, served
<1>9. \A v \in Venues : FileAgrees(dir, v)
  BY <1>1, <1>2, <1>3, <1>5 DEF FileAgrees
<1> QED BY <1>1, <1>2, <1>6, <1>7, <1>8, <1>9 DEF FramesAgree

(* The evidence of an audit that finished validates, passed or not, except  *)
(* in the three cases.                                                      *)
THEOREM HonestValidates == Spec => []HonestEvidenceValidates
<1>1. ASSUME NEW a \in Audits, Settled(a)
      PROVE  Accepted(dir) <=> /\ Present(dir) \cap Audits = {}
                               /\ ~Unaccounted(a) /\ ~HalfCommitted(a)
  <2>1. \A n \in Json \cup {"checksums"} : dir[n] # NoFile /\ dir[n].whole
    BY <1>1, SettledFiles DEF Evidence, Base
  <2>2. dir["report"].body.passed => Venues \subseteq Present(dir) /\ FramesAgree(dir)
    BY <1>1, SettledBodies, SettledFrames
  <2> QED BY <1>1, <2>1, <2>2, SettledTraces, SettledVerdict, SettledSeal DEF Accepted
<1>2. IInv => HonestEvidenceValidates
  BY <1>1 DEF HonestEvidenceValidates, Settled
<1> QED BY <1>2, Invariance, PTL
=============================================================================
