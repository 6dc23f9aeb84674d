---------------------------- MODULE Nexus_proofs ----------------------------
(***************************************************************************)
(* Proofs about what is done with Nexus, one section for each part of      *)
(* MCNexus: the database jobs, the shared storage analysis, the registry   *)
(* discovery, the replicas, the download, the storage analysis itself; and *)
(* last what they make of all parts together.                              *)
(***************************************************************************)
EXTENDS MCNexus, FiniteSetTheorems, SequenceTheorems, WellFoundedInduction, TLAPS

-----------------------------------------------------------------------------
(* Database jobs.  A job that has begun has answered, or still has before  *)
(* it, each scanner it is about, and none twice.                           *)

Queues == {<<>>, <<"trivy">>, <<"grype">>, <<"trivy", "grype">>}
Answers == UNION {[S -> Results] : S \in SUBSET Scanners}
DbStages == Updating \union {"none", "queued", "next", "import", "done", "cancelled"}

DbJobRecord ==
    [stage : DbStages, kind : {"update", "import"}, asked : SUBSET Scanners, force : BOOLEAN,
     todo : Queues, attempt : 1..(Retries + 1), answers : Answers]

\* One job's account of its scanners.
Accounted(q) ==
    /\ Named(q.todo) \intersect DOMAIN q.answers = {}
    /\ q.stage \in {"none", "queued"} => q.todo = <<>> /\ DOMAIN q.answers = {}
    /\ q.stage \notin {"none", "queued", "cancelled"} => Named(q.todo) \union DOMAIN q.answers = q.asked
    /\ q.stage \in Updating \union {"import"} => q.todo # <<>>
    /\ q.stage = "done" => q.todo = <<>>

JobsInv ==
    /\ toggled \subseteq Scanners
    /\ dbJob \in [DbJobs -> DbJobRecord]
    /\ \A j \in DbJobs : Accounted(dbJob[j])

LEMMA QueueFacts ==
    ASSUME NEW q \in Queues
    PROVE  /\ Named(q) \subseteq Scanners /\ (Named(q) = {} <=> q = <<>>)
           /\ q # <<>> => /\ Tail(q) \in Queues /\ Head(q) \in Scanners
                          /\ Named(q) = {Head(q)} \union Named(Tail(q))
                          /\ Head(q) \notin Named(Tail(q))
<1>1. CASE q = <<>>
  BY <1>1 DEF Named
<1>2. CASE q = <<"trivy">>
  <2>1. DOMAIN q = {1} /\ q[1] = "trivy" /\ Tail(q) = <<>> /\ Head(q) = "trivy"
    BY <1>2
  <2>. QED  BY <2>1, ScannersAssumption DEF Named, Queues
<1>3. CASE q = <<"grype">>
  <2>1. DOMAIN q = {1} /\ q[1] = "grype" /\ Tail(q) = <<>> /\ Head(q) = "grype"
    BY <1>3
  <2>. QED  BY <2>1, ScannersAssumption DEF Named, Queues
<1>4. CASE q = <<"trivy", "grype">>
  <2>1. /\ DOMAIN q = {1, 2} /\ q[1] = "trivy" /\ q[2] = "grype" /\ Head(q) = "trivy"
        /\ Tail(q) = <<"grype">> /\ DOMAIN Tail(q) = {1} /\ Tail(q)[1] = "grype"
    BY <1>4
  <2>. QED  BY <2>1, ScannersAssumption DEF Named, Queues
<1>. QED  BY <1>1, <1>2, <1>3, <1>4 DEF Queues

LEMMA PairOf == ASSUME NEW S, NEW a \in S, NEW b \in S PROVE <<a>> \o <<b>> = <<a, b>>
<1> DEFINE s == <<a>>  t == <<b>>  u == <<a, b>>
<1>1. s \in Seq(S) /\ t \in Seq(S) /\ u \in Seq(S)
  OBVIOUS
<1>2. Len(s) = 1 /\ Len(t) = 1 /\ Len(u) = 2 /\ s[1] = a /\ t[1] = b /\ u[1] = a /\ u[2] = b
  OBVIOUS
<1> HIDE DEF s, t, u
<1>3. /\ s \o t \in Seq(S) /\ Len(s \o t) = 2
      /\ \A i \in 1..2 : (s \o t)[i] = IF i <= 1 THEN s[i] ELSE t[i - 1]
  BY <1>1, <1>2, ConcatProperties
<1>4. \A i \in 1..Len(s \o t) : (s \o t)[i] = u[i]
  BY <1>2, <1>3
<1>5. s \o t = u
  BY <1>1, <1>2, <1>3, <1>4, SeqEqual
<1>. QED  BY <1>5 DEF s, t, u

LEMMA InOrderNames ==
    ASSUME NEW names \in SUBSET Scanners
    PROVE  InOrder(names) \in Queues /\ Named(InOrder(names)) = names
<1>1. CASE names = {}
  BY <1>1 DEF InOrder, Queues, Named
<1>2. CASE names = {"trivy"}
  <2>1. InOrder(names) = <<"trivy">>
    BY <1>2 DEF InOrder
  <2>. QED  BY <1>2, <2>1 DEF Queues, Named
<1>3. CASE names = {"grype"}
  <2>1. InOrder(names) = <<"grype">>
    BY <1>3 DEF InOrder
  <2>. QED  BY <1>3, <2>1 DEF Queues, Named
<1>4. CASE names = {"trivy", "grype"}
  <2>1. InOrder(names) = <<"trivy", "grype">>
    <3>1. InOrder(names) = <<"trivy">> \o <<"grype">>
      BY <1>4 DEF InOrder
    <3>. QED  BY <3>1, PairOf, ScannersAssumption
  <2>2. DOMAIN <<"trivy", "grype">> = {1, 2}
    OBVIOUS
  <2>. QED  BY <1>4, <2>1, <2>2 DEF Queues, Named
<1>. QED  BY <1>1, <1>2, <1>3, <1>4, ScannersAssumption

\* Only one job moves at a time.
LEMMA OneJobMoves ==
    ASSUME JobsInv, NEW j \in DbJobs, toggled' \subseteq Scanners,
           dbJob' = [dbJob EXCEPT ![j] = dbJob'[j]],
           dbJob'[j] \in DbJobRecord, Accounted(dbJob'[j])
    PROVE  JobsInv'
<1>1. dbJob' \in [DbJobs -> DbJobRecord]
  BY DEF JobsInv
<1>2. \A k \in DbJobs \ {j} : dbJob'[k] = dbJob[k]
  BY DEF JobsInv
<1>. QED  BY <1>1, <1>2 DEF JobsInv

\* A move within the work on one scanner.
LEMMA MoveKeeps ==
    ASSUME JobsInv, NEW j \in DbJobs, NEW s \in DbStages, toggled' \subseteq Scanners,
           Move(j, s), dbJob[j].stage \notin {"none", "queued", "cancelled"},
           s \in Updating \union {"import"} => dbJob[j].todo # <<>>,
           s = "done" => dbJob[j].todo = <<>>, s \notin {"none", "queued"}
    PROVE  JobsInv'
<1>0. 1 \in 1..(Retries + 1)
  BY RetriesAssumption
<1>1. dbJob'[j] = [dbJob[j] EXCEPT !.stage = s, !.attempt = 1] /\ dbJob[j] \in DbJobRecord
  BY DEF JobsInv, Move
<1>2. dbJob'[j] \in DbJobRecord
  BY <1>0, <1>1 DEF DbJobRecord
<1>3. /\ dbJob'[j].stage = s /\ dbJob'[j].todo = dbJob[j].todo
      /\ dbJob'[j].answers = dbJob[j].answers /\ dbJob'[j].asked = dbJob[j].asked
  BY <1>1 DEF DbJobRecord
<1>4. Accounted(dbJob'[j])
  BY <1>3 DEF JobsInv, Accounted
<1>5. dbJob' = [dbJob EXCEPT ![j] = dbJob'[j]]
  BY <1>1 DEF Move, JobsInv
<1>. QED  BY <1>2, <1>4, <1>5, OneJobMoves

\* An answer takes the scanner off the list.
LEMMA AnswerKeeps ==
    ASSUME JobsInv, NEW j \in DbJobs, NEW r \in Results, toggled' \subseteq Scanners,
           AnswerWith(j, r), dbJob[j].stage \notin {"none", "queued", "cancelled"}, dbJob[j].todo # <<>>
    PROVE  JobsInv'
<1> DEFINE q == dbJob[j]
           now == [s \in DOMAIN q.answers \union {Head(q.todo)} |->
                     IF s = Head(q.todo) THEN r ELSE q.answers[s]]
           after == [q EXCEPT !.stage = "next", !.todo = Tail(q.todo), !.attempt = 1, !.answers = now]
<1>1. q \in DbJobRecord /\ Accounted(q)
  BY DEF JobsInv
<1>2. /\ Tail(q.todo) \in Queues /\ Head(q.todo) \in Scanners
      /\ Named(q.todo) = {Head(q.todo)} \union Named(Tail(q.todo))
      /\ Head(q.todo) \notin Named(Tail(q.todo))
  BY <1>1, QueueFacts DEF DbJobRecord
<1>3. PICK S \in SUBSET Scanners : q.answers \in [S -> Results]
  BY <1>1 DEF DbJobRecord, Answers
<1>4. now \in [S \union {Head(q.todo)} -> Results] /\ S \union {Head(q.todo)} \in SUBSET Scanners
  BY <1>2, <1>3
<1>5. now \in Answers
  BY <1>4 DEF Answers
<1>6. dbJob' = [dbJob EXCEPT ![j] = after] /\ dbJob'[j] = after
  BY DEF AnswerWith, Scanner, JobsInv
<1> HIDE DEF now
<1>. 1 \in 1..(Retries + 1) /\ "next" \in DbStages
  BY RetriesAssumption DEF DbStages
<1>7. after \in DbJobRecord
  BY <1>1, <1>2, <1>5 DEF DbJobRecord
<1>8. /\ after.stage = "next" /\ after.todo = Tail(q.todo) /\ after.answers = now
      /\ after.asked = q.asked
  BY <1>1 DEF DbJobRecord
<1>9. DOMAIN now = DOMAIN q.answers \union {Head(q.todo)}
  BY DEF now
<1>10. Accounted(after)
  <2>1. Named(q.todo) \intersect DOMAIN q.answers = {} /\ Named(q.todo) \union DOMAIN q.answers = q.asked
    BY <1>1 DEF Accounted
  <2>. QED  BY <1>2, <1>8, <1>9, <2>1 DEF Accounted, Updating
<1>. QED  BY <1>6, <1>7, <1>10, OneJobMoves

LEMMA RetriedKeeps ==
    ASSUME JobsInv, NEW j \in DbJobs, toggled' \subseteq Scanners, NEW elsewhere \in BOOLEAN,
           Retried(j, elsewhere), dbJob[j].stage \notin {"none", "queued"}
    PROVE  elsewhere \/ JobsInv'
<1>1. CASE dbJob[j].attempt <= Retries
  <2>1. dbJob[j] \in DbJobRecord /\ dbJob'[j] = [dbJob[j] EXCEPT !.attempt = @ + 1]
    BY <1>1 DEF Retried, JobsInv
  <2>2. dbJob[j].attempt + 1 \in 1..(Retries + 1)
    BY <1>1, <2>1, RetriesAssumption DEF DbJobRecord
  <2>3. dbJob'[j] \in DbJobRecord
    BY <2>1, <2>2 DEF DbJobRecord
  <2>4. /\ dbJob'[j].stage = dbJob[j].stage /\ dbJob'[j].todo = dbJob[j].todo
        /\ dbJob'[j].answers = dbJob[j].answers /\ dbJob'[j].asked = dbJob[j].asked
    BY <2>1 DEF DbJobRecord
  <2>5. Accounted(dbJob'[j])
    BY <2>4 DEF JobsInv, Accounted
  <2>6. dbJob' = [dbJob EXCEPT ![j] = dbJob'[j]]
    BY <1>1, <2>1 DEF Retried, JobsInv
  <2>. QED  BY <2>3, <2>5, <2>6, OneJobMoves
<1>2. CASE ~(dbJob[j].attempt <= Retries)
  BY <1>2 DEF Retried
<1>. QED  BY <1>1, <1>2

LEMMA EnqueueKeeps ==
    ASSUME JobsInv, NEW j \in DbJobs, NEW kind \in {"update", "import"},
           NEW asked \in SUBSET Scanners, NEW force \in BOOLEAN, toggled' \subseteq Scanners,
           EnqueueDbJob(j, kind, asked, force)
    PROVE  JobsInv'
<1> DEFINE after == [NewDbJob EXCEPT !.stage = "queued", !.kind = kind, !.asked = asked, !.force = force]
<1>1. <<>> \in Answers
  <2>1. <<>> \in [{} -> Results] /\ {} \in SUBSET Scanners
    OBVIOUS
  <2>. QED  BY <2>1 DEF Answers
<1>. 1 \in 1..(Retries + 1) /\ "queued" \in DbStages /\ <<>> \in Queues
  BY RetriesAssumption DEF DbStages, Queues
<1>2. /\ after.stage = "queued" /\ after.todo = <<>> /\ after.answers = <<>>
  BY DEF NewDbJob
<1>3. after \in DbJobRecord
  BY <1>1 DEF DbJobRecord, NewDbJob
<1>4. Accounted(after)
  BY <1>2 DEF Accounted, Named, Updating
<1>5. dbJob' = [dbJob EXCEPT ![j] = after] /\ dbJob'[j] = after
  BY DEF EnqueueDbJob, JobsInv
<1>. QED  BY <1>3, <1>4, <1>5, OneJobMoves

LEMMA BeginKeeps ==
    ASSUME JobsInv, NEW j \in DbJobs, BeginDbJob(j)
    PROVE  JobsInv'
<1> DEFINE names == RequestedScanners(j)
           skipped == IF dbJob[j].kind = "update" THEN SkipCurrentScanners(j, names) ELSE {}
           now == [s \in skipped |-> "skipped"]
           after == [dbJob[j] EXCEPT !.stage = "next", !.asked = names,
                                     !.todo = InOrder(names \ skipped), !.answers = now]
<1>1. dbJob[j] \in DbJobRecord
  BY DEF JobsInv
<1>2. names \subseteq Scanners /\ skipped \subseteq names
  BY <1>1, ScannersAssumption
     DEF RequestedScanners, EnabledScanners, SkipCurrentScanners, JobsInv, DbJobRecord
<1>3. dbJob' = [dbJob EXCEPT ![j] = after] /\ dbJob'[j] = after /\ toggled' = toggled
  BY DEF BeginDbJob, DiskUnchanged, JobsInv
<1> HIDE DEF names, skipped
<1>4. now \in Answers /\ DOMAIN now = skipped
  <2>1. now \in [skipped -> Results] /\ skipped \in SUBSET Scanners
    BY <1>2 DEF Results
  <2>. QED  BY <2>1 DEF Answers
<1>5. InOrder(names \ skipped) \in Queues /\ Named(InOrder(names \ skipped)) = names \ skipped
  BY <1>2, InOrderNames
<1> HIDE DEF now
<1>6. after \in DbJobRecord
  BY <1>1, <1>2, <1>4, <1>5 DEF DbJobRecord, DbStages
<1>7. /\ after.stage = "next" /\ after.todo = InOrder(names \ skipped) /\ after.answers = now
      /\ after.asked = names
  BY <1>1 DEF DbJobRecord
<1>8. Accounted(after)
  BY <1>2, <1>4, <1>5, <1>7 DEF Accounted, Updating
<1>9. toggled' \subseteq Scanners
  BY <1>3 DEF JobsInv
<1>. QED  BY <1>3, <1>6, <1>8, <1>9, OneJobMoves

LEMMA DbWorkKeeps ==
    ASSUME JobsInv, NEW j \in DbJobs,
           \/ NextScanner(j) \/ PullResumable(j) \/ OrasPullRetrying(j) \/ InstallTrivyDb(j)
           \/ OwnDownloader(j) \/ GrypeDbUpdate(j) \/ GrypeUpdateResult(j) \/ ImportOffline(j)
           \/ RunIsolatedUpdate(j) \/ CancelDbJob(j)
    PROVE  JobsInv'
<1>1. toggled' \subseteq Scanners
  BY DEF JobsInv, NextScanner, PullResumable, OrasPullRetrying, InstallTrivyDb, OwnDownloader,
     GrypeDbUpdate, GrypeUpdateResult, ImportOffline, RunIsolatedUpdate, CancelDbJob, DiskUnchanged
<1>2. Accounted(dbJob[j])
  BY DEF JobsInv
<1>3. {"ok", "failed", "kept"} \subseteq Results
  BY DEF Results
<1>5. CASE NextScanner(j)
  <2>1. CASE dbJob[j].todo = <<>>
    <3>1. Move(j, "done") /\ dbJob[j].stage = "next" /\ "done" \in DbStages
      BY <1>5, <2>1 DEF NextScanner, DbStages
    <3>. QED  BY <1>1, <2>1, <3>1, MoveKeeps DEF Updating
  <2>2. CASE dbJob[j].todo # <<>>
    <3>1. dbJob[j].stage = "next"
      BY <1>5 DEF NextScanner
    <3>2. CASE AnswerWith(j, "failed")
      BY <1>1, <1>3, <2>2, <3>1, <3>2, AnswerKeeps
    <3>3. CASE ~AnswerWith(j, "failed")
      <4>1. \E s \in {"import", "resumable", "download"} : Move(j, s)
        BY <1>5, <2>2, <3>3 DEF NextScanner
      <4>. QED  BY <1>1, <2>2, <3>1, <4>1, MoveKeeps DEF DbStages, Updating
    <3>. QED  BY <3>2, <3>3
  <2>. QED  BY <2>1, <2>2
<1>6. CASE PullResumable(j)
  <2>1. dbJob[j].stage = "resumable" /\ dbJob[j].todo # <<>>
    BY <1>6 DEF PullResumable, At
  <2>2. \E s \in {"extract", "oras", "own"} : Move(j, s)
    BY <1>6 DEF PullResumable
  <2>. QED  BY <1>1, <2>1, <2>2, MoveKeeps DEF DbStages, Updating
<1>7. CASE OrasPullRetrying(j)
  <2>1. dbJob[j].stage = "oras" /\ dbJob[j].todo # <<>>
    BY <1>7 DEF OrasPullRetrying, At
  <2>2. Move(j, "extract") \/ Move(j, "own") \/ Retried(j, FALSE)
    BY <1>7 DEF OrasPullRetrying, Retried
  <2>. QED  BY <1>1, <2>1, <2>2, MoveKeeps, RetriedKeeps DEF DbStages, Updating
<1>8. CASE InstallTrivyDb(j)
  <2>1. dbJob[j].stage = "extract" /\ dbJob[j].todo # <<>>
    BY <1>8 DEF InstallTrivyDb, At
  <2>2. AnswerWith(j, "ok") \/ Move(j, "own")
    BY <1>8 DEF InstallTrivyDb
  <2>. QED  BY <1>1, <1>3, <2>1, <2>2, MoveKeeps, AnswerKeeps DEF DbStages, Updating
<1>9. CASE OwnDownloader(j)
  <2>1. dbJob[j].stage = "own" /\ dbJob[j].todo # <<>>
    BY <1>9 DEF OwnDownloader, At
  <2>2. AnswerWith(j, "ok") \/ AnswerWith(j, "failed") \/ Retried(j, FALSE)
    BY <1>9 DEF OwnDownloader, Retried
  <2>. QED  BY <1>1, <1>3, <2>1, <2>2, AnswerKeeps, RetriedKeeps
<1>10. CASE GrypeDbUpdate(j)
  <2>1. dbJob[j].stage = "download" /\ dbJob[j].todo # <<>>
    BY <1>10 DEF GrypeDbUpdate, At
  <2>2. Move(j, "verify") \/ AnswerWith(j, "kept") \/ AnswerWith(j, "failed") \/ Retried(j, FALSE)
    BY <1>10 DEF GrypeDbUpdate, Retried
  <2>. QED  BY <1>1, <1>3, <2>1, <2>2, AnswerKeeps, MoveKeeps, RetriedKeeps DEF DbStages, Updating
<1>11. CASE GrypeUpdateResult(j)
  <2>1. dbJob[j].stage = "verify" /\ dbJob[j].todo # <<>>
    BY <1>11 DEF GrypeUpdateResult, At
  <2>2. AnswerWith(j, "ok") \/ AnswerWith(j, "failed")
    BY <1>11 DEF GrypeUpdateResult
  <2>. QED  BY <1>1, <1>3, <2>1, <2>2, AnswerKeeps
<1>12. CASE ImportOffline(j)
  <2>1. dbJob[j].stage = "import" /\ dbJob[j].todo # <<>>
    BY <1>2, <1>12 DEF ImportOffline, Accounted
  <2>2. AnswerWith(j, "ok") \/ AnswerWith(j, "failed")
    BY <1>12 DEF ImportOffline
  <2>. QED  BY <1>1, <1>3, <2>1, <2>2, AnswerKeeps
<1>13. CASE RunIsolatedUpdate(j)
  <2>1. dbJob[j].stage \in Updating /\ AnswerWith(j, "failed")
    BY <1>13 DEF RunIsolatedUpdate, Isolated
  <2>2. dbJob[j].todo # <<>> /\ dbJob[j].stage \notin {"none", "queued", "cancelled"}
    BY <1>2, <2>1 DEF Accounted, Updating
  <2>. QED  BY <1>1, <1>3, <2>1, <2>2, AnswerKeeps
<1>14. CASE CancelDbJob(j)
  <2>1. dbJob[j].stage \notin {"none", "done", "cancelled"} /\ Move(j, "cancelled")
    BY <1>14 DEF CancelDbJob
  <2>2. CASE dbJob[j].stage # "queued"
    BY <1>1, <2>1, <2>2, MoveKeeps DEF DbStages, Updating
  <2>3. CASE dbJob[j].stage = "queued"
    <3>1. dbJob'[j] = [dbJob[j] EXCEPT !.stage = "cancelled", !.attempt = 1]
      BY <2>1 DEF Move, JobsInv
    <3>2. dbJob[j] \in DbJobRecord /\ 1 \in 1..(Retries + 1) /\ "cancelled" \in DbStages
      BY RetriesAssumption DEF JobsInv, DbStages
    <3>3. dbJob'[j] \in DbJobRecord
      BY <3>1, <3>2 DEF DbJobRecord
    <3>4. /\ dbJob'[j].stage = "cancelled" /\ dbJob'[j].todo = dbJob[j].todo
          /\ dbJob'[j].answers = dbJob[j].answers
      BY <3>1, <3>2 DEF DbJobRecord
    <3>5. Accounted(dbJob'[j])
      BY <1>2, <3>4 DEF Accounted, Updating
    <3>6. dbJob' = [dbJob EXCEPT ![j] = dbJob'[j]]
      BY <2>1, <3>1 DEF Move, JobsInv
    <3>. QED  BY <1>1, <3>3, <3>5, <3>6, OneJobMoves
  <2>. QED  BY <2>2, <2>3
<1>. QED  BY <1>5, <1>6, <1>7, <1>8, <1>9, <1>10, <1>11, <1>12, <1>13, <1>14

LEMMA UpdatesStart == UpdatesInit => JobsInv
<1> SUFFICES ASSUME UpdatesInit PROVE JobsInv
  OBVIOUS
<1>1. <<>> \in Answers
  <2>1. <<>> \in [{} -> Results] /\ {} \in SUBSET Scanners
    OBVIOUS
  <2>. QED  BY <2>1 DEF Answers
<1>. 1 \in 1..(Retries + 1) /\ "none" \in DbStages /\ <<>> \in Queues
  BY RetriesAssumption DEF DbStages, Queues
<1>2. NewDbJob \in DbJobRecord
  BY <1>1 DEF DbJobRecord, NewDbJob
<1>3. Accounted(NewDbJob)
  BY DEF Accounted, NewDbJob, Named, Updating
<1>. QED  BY <1>2, <1>3 DEF UpdatesInit, JobsInv

LEMMA UpdatesStep == JobsInv /\ [UpdatesNext]_updateVars => JobsInv'
<1> SUFFICES ASSUME JobsInv, [UpdatesNext]_updateVars PROVE JobsInv'
  OBVIOUS
<1>1. CASE \E j \in DbJobs :
             \/ NextScanner(j) \/ PullResumable(j) \/ OrasPullRetrying(j) \/ InstallTrivyDb(j)
             \/ OwnDownloader(j) \/ GrypeDbUpdate(j) \/ GrypeUpdateResult(j) \/ ImportOffline(j)
             \/ RunIsolatedUpdate(j) \/ CancelDbJob(j)
  BY <1>1, DbWorkKeeps
<1>2. CASE \E j \in DbJobs : BeginDbJob(j)
  BY <1>2, BeginKeeps
<1>3. ASSUME NEW j \in DbJobs, EnqueueDbUpdate(j) \/ EnqueueDbImport(j) \/ FetchMissingAtStartup(j)
      PROVE  JobsInv'
  <2>1. toggled' \subseteq Scanners
    BY <1>3 DEF EnqueueDbUpdate, EnqueueDbImport, FetchMissingAtStartup, JobsInv
  <2>2. CASE \E kind \in {"update", "import"}, asked \in SUBSET Scanners, force \in BOOLEAN :
               EnqueueDbJob(j, kind, asked, force)
    BY <2>1, <2>2, EnqueueKeeps
  <2>3. CASE UNCHANGED dbJob
    BY <2>1, <2>3 DEF JobsInv
  <2>4. EnqueueDbUpdate(j) => \E asked \in SUBSET Scanners, force \in BOOLEAN :
                                 EnqueueDbJob(j, "update", asked, force)
    BY DEF EnqueueDbUpdate
  <2>5. EnqueueDbImport(j) => EnqueueDbJob(j, "import", {}, FALSE)
    BY DEF EnqueueDbImport
  <2>6. FetchMissingAtStartup(j) => EnqueueDbJob(j, "update", {}, FALSE) \/ UNCHANGED dbJob
    BY DEF FetchMissingAtStartup
  <2>. QED  BY <1>3, <2>2, <2>3, <2>4, <2>5, <2>6, Zenon
<1>4. CASE SetEnabledScanners \/ Readiness \/ VerdictExpires \/ BuildPublished \/ UNCHANGED updateVars
  BY <1>4 DEF SetEnabledScanners, Readiness, VerdictExpires, BuildPublished, updateVars, JobsInv
<1>. QED  BY <1>1, <1>2, <1>3, <1>4 DEF UpdatesNext

\* Whatever fails or crashes for one scanner, a job that ends answered for each.
LEMMA JobsAnswer == JobsInv => EveryScannerAnswered
<1>1. Named(<<>>) = {}
  BY DEF Named
<1>. QED  BY <1>1 DEF JobsInv, Accounted, EveryScannerAnswered

-----------------------------------------------------------------------------
(* The shared storage analysis.  The one run that is not over is the one   *)
(* requests attach to; who waits for another has its end in the queue, and *)
(* before it, for those who wait for an outcome, the outcome.              *)

Payloads == {"phase", "result", "__result__", "__error__", "__done__"}
RunFrame == [type : {"phase", "result", "progress"}, view : Views]
Heard == [type : {"phase", "result", "progress", "json", "cache"}, view : Views]

CallerRecord ==
    [stage : {"away", "looking", "hit", "missed", "waiting", "over"},
     way : {"none", "result", "plain", "stream"}, run : Nat, queue : Seq(Payloads),
     heard : Seq(Heard), due : BOOLEAN, failed : BOOLEAN]

HasEnd(queue) == \E i \in DOMAIN queue : queue[i] = "__done__"
OutcomeFirst(queue) ==
    \A i \in DOMAIN queue : queue[i] = "__done__" =>
        \E k \in 1..(i - 1) : queue[k] \in {"__result__", "__error__"}

\* A caller beside the run in flight and the number of runs.
ServedBy(c, q, flying, n) ==
    /\ q.stage = "waiting" => q.run \in 1..n /\ (q.run = flying \/ HasEnd(q.queue))
    /\ q.stage = "waiting" /\ q.way = "plain" => OutcomeFirst(q.queue)
    /\ \A i \in DOMAIN q.heard :
         q.heard[i].type \in {"json", "cache"} => q.heard[i].view = ScopeResult(c, "full")

SharedInv ==
    /\ cached \in BOOLEAN
    /\ runs \in Seq({"started", "analysing", "caching", "over"})
    /\ dicts \in Seq([phase : RunFrame, result : RunFrame]) /\ Len(dicts) = Len(runs)
    /\ inflight \in 0..Len(runs)
    /\ \A r \in DOMAIN runs : runs[r] # "over" => r = inflight
    /\ caller \in [Analysts -> CallerRecord]
    /\ \A c \in Analysts : ServedBy(c, caller[c], inflight, Len(runs))

LEMMA QueueGrows ==
    ASSUME NEW s \in Seq(Payloads), NEW t \in Seq(Payloads)
    PROVE  /\ s \o t \in Seq(Payloads)
           /\ HasEnd(s) \/ HasEnd(t) => HasEnd(s \o t)
           /\ OutcomeFirst(s) /\ OutcomeFirst(t) => OutcomeFirst(s \o t)
<1>1. /\ s \o t \in Seq(Payloads) /\ Len(s \o t) = Len(s) + Len(t)
      /\ \A i \in 1..(Len(s) + Len(t)) : (s \o t)[i] = IF i <= Len(s) THEN s[i] ELSE t[i - Len(s)]
  BY ConcatProperties
<1>2. Len(s) \in Nat /\ Len(t) \in Nat /\ DOMAIN s = 1..Len(s) /\ DOMAIN t = 1..Len(t)
      /\ DOMAIN (s \o t) = 1..(Len(s) + Len(t))
  BY <1>1
<1>3. ASSUME HasEnd(s) PROVE HasEnd(s \o t)
  <2>1. PICK i \in 1..Len(s) : s[i] = "__done__"
    BY <1>2, <1>3 DEF HasEnd
  <2>. QED  BY <1>1, <1>2, <2>1 DEF HasEnd
<1>4. ASSUME HasEnd(t) PROVE HasEnd(s \o t)
  <2>1. PICK i \in 1..Len(t) : t[i] = "__done__"
    BY <1>2, <1>4 DEF HasEnd
  <2>2. Len(s) + i \in 1..(Len(s) + Len(t)) /\ (s \o t)[Len(s) + i] = t[i]
    BY <1>1, <1>2, <2>1
  <2>. QED  BY <1>2, <2>1, <2>2 DEF HasEnd
<1>5. ASSUME OutcomeFirst(s), OutcomeFirst(t), NEW i \in DOMAIN (s \o t), (s \o t)[i] = "__done__"
      PROVE  \E k \in 1..(i - 1) : (s \o t)[k] \in {"__result__", "__error__"}
  <2>1. CASE i <= Len(s)
    <3>1. PICK k \in 1..(i - 1) : s[k] \in {"__result__", "__error__"}
      BY <1>1, <1>2, <1>5, <2>1 DEF OutcomeFirst
    <3>. QED  BY <1>1, <1>2, <2>1, <3>1
  <2>2. CASE i > Len(s)
    <3>1. i - Len(s) \in 1..Len(t) /\ t[i - Len(s)] = "__done__"
      BY <1>1, <1>2, <1>5, <2>2
    <3>2. PICK k \in 1..(i - Len(s) - 1) : t[k] \in {"__result__", "__error__"}
      BY <1>2, <1>5, <3>1 DEF OutcomeFirst
    <3>3. Len(s) + k \in 1..(i - 1) /\ (s \o t)[Len(s) + k] = t[k]
      BY <1>1, <1>2, <1>5, <2>2, <3>2
    <3>. QED  BY <3>2, <3>3
  <2>. QED  BY <1>2, <2>1, <2>2
<1>. QED  BY <1>1, <1>3, <1>4, <1>5 DEF OutcomeFirst

LEMMA QueueShrinks ==
    ASSUME NEW s \in Seq(Payloads), s # <<>>
    PROVE  /\ Tail(s) \in Seq(Payloads) /\ Head(s) \in Payloads
           /\ HasEnd(s) /\ Head(s) # "__done__" => HasEnd(Tail(s))
           /\ OutcomeFirst(s) => Head(s) # "__done__"
           /\ OutcomeFirst(s) /\ Head(s) \notin {"__result__", "__error__"} => OutcomeFirst(Tail(s))
<1>1. /\ Head(s) \in Payloads /\ Tail(s) \in Seq(Payloads) /\ Len(Tail(s)) = Len(s) - 1
      /\ \A i \in 1..Len(Tail(s)) : Tail(s)[i] = s[i + 1]
  BY HeadTailProperties
<1>2. Len(s) \in Nat \ {0} /\ DOMAIN s = 1..Len(s) /\ DOMAIN Tail(s) = 1..Len(Tail(s)) /\ Head(s) = s[1]
  BY <1>1
<1>3. ASSUME HasEnd(s), Head(s) # "__done__" PROVE HasEnd(Tail(s))
  <2>1. PICK i \in 1..Len(s) : s[i] = "__done__"
    BY <1>2, <1>3 DEF HasEnd
  <2>2. i - 1 \in 1..Len(Tail(s)) /\ Tail(s)[i - 1] = s[i]
    BY <1>1, <1>2, <1>3, <2>1
  <2>. QED  BY <1>2, <2>1, <2>2 DEF HasEnd
<1>4. OutcomeFirst(s) => Head(s) # "__done__"
  BY <1>2 DEF OutcomeFirst
<1>5. ASSUME OutcomeFirst(s), Head(s) \notin {"__result__", "__error__"},
             NEW i \in DOMAIN Tail(s), Tail(s)[i] = "__done__"
      PROVE  \E k \in 1..(i - 1) : Tail(s)[k] \in {"__result__", "__error__"}
  <2>1. i + 1 \in 1..Len(s) /\ s[i + 1] = "__done__"
    BY <1>1, <1>2, <1>5
  <2>2. PICK k \in 1..i : s[k] \in {"__result__", "__error__"}
    BY <1>2, <1>5, <2>1 DEF OutcomeFirst
  <2>3. k - 1 \in 1..(i - 1) /\ Tail(s)[k - 1] = s[k]
    BY <1>1, <1>2, <1>5, <2>2
  <2>. QED  BY <2>2, <2>3
<1>. QED  BY <1>1, <1>3, <1>4, <1>5 DEF OutcomeFirst

LEMMA FanoutKeeps ==
    ASSUME SharedInv, NEW r \in DOMAIN runs, NEW t \in Seq(Payloads), OutcomeFirst(t)
    PROVE  /\ Fanout(r, t) \in [Analysts -> CallerRecord]
           /\ \A c \in Analysts : ServedBy(c, Fanout(r, t)[c], inflight, Len(runs))
           /\ HasEnd(t) /\ inflight = r => \A c \in Analysts : ServedBy(c, Fanout(r, t)[c], 0, Len(runs))
<1> DEFINE f == Fanout(r, t)
<1> SUFFICES ASSUME NEW c \in Analysts
             PROVE  /\ f[c] \in CallerRecord /\ ServedBy(c, f[c], inflight, Len(runs))
                    /\ HasEnd(t) /\ inflight = r => ServedBy(c, f[c], 0, Len(runs))
  BY DEF Fanout
<1> DEFINE q == caller[c]
<1>1. q \in CallerRecord /\ ServedBy(c, q, inflight, Len(runs)) /\ q.queue \in Seq(Payloads)
  BY DEF SharedInv, CallerRecord
<1>2. CASE c \in Subscribers(r)
  <2>1. f[c] = [q EXCEPT !.queue = q.queue \o t]
    BY <1>2 DEF Fanout
  <2>2. /\ q.queue \o t \in Seq(Payloads)
        /\ HasEnd(q.queue) \/ HasEnd(t) => HasEnd(q.queue \o t)
        /\ OutcomeFirst(q.queue) => OutcomeFirst(q.queue \o t)
    BY <1>1, QueueGrows
  <2>3. f[c] \in CallerRecord
    BY <1>1, <2>1, <2>2 DEF CallerRecord
  <2>4. /\ f[c].queue = q.queue \o t /\ f[c].stage = q.stage /\ f[c].run = q.run
        /\ f[c].way = q.way /\ f[c].heard = q.heard
    BY <1>1, <2>1 DEF CallerRecord
  <2>. QED  BY <1>1, <2>2, <2>3, <2>4 DEF ServedBy
<1>3. CASE c \notin Subscribers(r)
  <2>1. f[c] = q
    BY <1>3 DEF Fanout
  <2>2. q.stage = "waiting" => q.run # r
    BY <1>3 DEF Subscribers
  <2>. QED  BY <1>1, <2>1, <2>2 DEF ServedBy
<1>. QED  BY <1>2, <1>3

\* A step of one caller.
LEMMA CallerMoves ==
    ASSUME SharedInv, NEW c \in Analysts, NEW q \in CallerRecord,
           caller' = [caller EXCEPT ![c] = q], ServedBy(c, q, inflight, Len(runs)),
           UNCHANGED <<cached, inflight, runs>>,
           dicts' \in Seq([phase : RunFrame, result : RunFrame]), Len(dicts') = Len(dicts)
    PROVE  SharedInv'
<1>1. caller' \in [Analysts -> CallerRecord]
  BY DEF SharedInv
<1>2. \A b \in Analysts : ServedBy(b, caller'[b], inflight', Len(runs'))
  BY DEF SharedInv
<1>. QED  BY <1>1, <1>2 DEF SharedInv

LEMMA GoneRecord == Gone \in CallerRecord /\ Gone.heard = <<>> /\ Gone.queue = <<>>
  BY DEF Gone, CallerRecord

LEMMA JoinKeeps ==
    ASSUME SharedInv, NEW c \in Analysts, NEW way \in {"none", "result", "plain", "stream"},
           JoinOrStart(c, way)
    PROVE  SharedInv'
<1> DEFINE r == IF inflight # 0 THEN inflight ELSE Len(runs) + 1
           q == [Gone EXCEPT !.stage = "waiting", !.way = way, !.run = r]
<1>1. Len(runs) \in Nat /\ inflight \in 0..Len(runs) /\ r \in Nat
  BY DEF SharedInv
<1>2. q \in CallerRecord /\ q.stage = "waiting" /\ q.run = r /\ q.heard = <<>> /\ q.queue = <<>>
  BY <1>1, GoneRecord DEF CallerRecord
<1>3. caller' = [caller EXCEPT ![c] = q] /\ inflight' = r /\ cached' = cached
  BY DEF JoinOrStart
<1> HIDE DEF q
<1>4. caller' \in [Analysts -> CallerRecord]
  BY <1>2, <1>3 DEF SharedInv
<1>5. OutcomeFirst(<<>>) /\ DOMAIN <<>> = {}
  BY DEF OutcomeFirst
<1>6. CASE inflight # 0
  <2>1. UNCHANGED <<inflight, runs, dicts>> /\ r \in 1..Len(runs)
    BY <1>1, <1>6 DEF JoinOrStart
  <2>2. ServedBy(c, q, inflight, Len(runs))
    BY <1>2, <1>5, <2>1, <1>6 DEF ServedBy
  <2>. QED  BY <1>2, <1>3, <2>1, <2>2, CallerMoves DEF SharedInv
<1>7. CASE inflight = 0
  <2>1. runs' = Append(runs, "started") /\ dicts' = Append(dicts, Unread) /\ r = Len(runs) + 1
    BY <1>7 DEF JoinOrStart
  <2>2. /\ runs' \in Seq({"started", "analysing", "caching", "over"}) /\ Len(runs') = Len(runs) + 1
        /\ \A i \in DOMAIN runs : runs'[i] = runs[i]
    BY <2>1 DEF SharedInv
  <2>3. Unread \in [phase : RunFrame, result : RunFrame]
    BY DEF Unread, RunFrame, Views
  <2>4. dicts' \in Seq([phase : RunFrame, result : RunFrame]) /\ Len(dicts') = Len(runs')
    BY <2>1, <2>2, <2>3 DEF SharedInv
  <2>5. \A i \in DOMAIN runs' : runs'[i] # "over" => i = inflight'
    BY <1>1, <1>3, <1>7, <2>1, <2>2 DEF SharedInv
  <2>6. \A b \in Analysts : ServedBy(b, caller'[b], inflight', Len(runs'))
    <3> SUFFICES ASSUME NEW b \in Analysts PROVE ServedBy(b, caller'[b], r, Len(runs) + 1)
      BY <1>3, <2>2
    <3>1. CASE b = c
      <4>1. caller'[b] = q /\ r \in 1..(Len(runs) + 1)
        BY <1>1, <1>3, <2>1, <3>1 DEF SharedInv
      <4>. QED  BY <1>2, <1>5, <4>1 DEF ServedBy
    <3>2. CASE b # c
      <4>1. caller'[b] = caller[b] /\ ServedBy(b, caller[b], 0, Len(runs))
        BY <1>3, <1>7, <3>2 DEF SharedInv
      <4>2. \A i \in 1..Len(runs) : i # 0 /\ i \in 1..(Len(runs) + 1)
        BY <1>1
      <4>. QED  BY <4>1, <4>2 DEF ServedBy
    <3>. QED  BY <3>1, <3>2
  <2>7. inflight' \in 0..Len(runs')
    BY <1>1, <1>3, <2>1, <2>2
  <2>. QED  BY <1>3, <1>4, <2>2, <2>4, <2>5, <2>6, <2>7 DEF SharedInv
<1>. QED  BY <1>6, <1>7

\* What a caller does on its own.
LEMMA CallerKeeps ==
    ASSUME SharedInv, NEW c \in Analysts,
           \/ Look(c) \/ CacheAnswers(c) \/ GetCachedResult(c) \/ Disconnect(c)
    PROVE  SharedInv'
<1> DEFINE q == caller[c]
<1>1. /\ q \in CallerRecord /\ ServedBy(c, q, inflight, Len(runs))
      /\ UNCHANGED <<cached, inflight, runs, dicts>>
      /\ dicts' \in Seq([phase : RunFrame, result : RunFrame]) /\ Len(dicts') = Len(dicts)
  BY DEF SharedInv, Look, CacheAnswers, GetCachedResult, Disconnect
<1>2. ScopeResult(c, "full") \in Views
  BY DEF ScopeResult, Views
<1>3. CASE Look(c)
  <2>1. PICK way \in {"result", "plain", "stream"} :
          caller' = [caller EXCEPT ![c] = [Gone EXCEPT !.stage = "looking", !.way = way]]
    BY <1>3 DEF Look
  <2> DEFINE n == [Gone EXCEPT !.stage = "looking", !.way = way]
  <2>2. n \in CallerRecord /\ n.stage = "looking" /\ n.heard = <<>>
    BY GoneRecord DEF CallerRecord
  <2>3. ServedBy(c, n, inflight, Len(runs))
    BY <2>2 DEF ServedBy
  <2>. QED  BY <1>1, <2>1, <2>2, <2>3, CallerMoves
<1>4. CASE CacheAnswers(c)
  <2>1. PICK s \in {"hit", "missed"} : caller' = [caller EXCEPT ![c].stage = s]
    BY <1>4 DEF CacheAnswers, Goes
  <2> DEFINE n == [q EXCEPT !.stage = s]
  <2>2. n \in CallerRecord /\ n.stage = s /\ n.heard = q.heard
    BY <1>1 DEF CallerRecord
  <2>3. ServedBy(c, n, inflight, Len(runs))
    BY <1>1, <2>2 DEF ServedBy
  <2>4. caller' = [caller EXCEPT ![c] = n]
    BY <2>1
  <2>. QED  BY <1>1, <2>2, <2>3, <2>4, CallerMoves
<1>5. CASE Disconnect(c)
  <2>1. ServedBy(c, Gone, inflight, Len(runs))
    BY DEF ServedBy, Gone
  <2>. QED  BY <1>1, <1>5, <2>1, GoneRecord, CallerMoves DEF Disconnect
<1>6. CASE GetCachedResult(c) /\ q.stage = "hit"
  <2>1. PICK type \in {"cache", "json"} :
          caller' = [caller EXCEPT ![c].stage = "over",
                                   ![c].heard = <<Frame(type, ScopeResult(c, "full"))>>]
    BY <1>6 DEF GetCachedResult
  <2> DEFINE h == <<Frame(type, ScopeResult(c, "full"))>>
             n == [q EXCEPT !.stage = "over", !.heard = h]
  <2>2. h \in Seq(Heard)
    BY <1>2 DEF Frame, Heard
  <2>3. DOMAIN h = {1} /\ h[1].view = ScopeResult(c, "full")
    BY DEF Frame
  <2>4. caller' = [caller EXCEPT ![c] = n]
    BY <2>1
  <2> HIDE DEF h
  <2>5. n \in CallerRecord /\ n.stage = "over" /\ n.heard = h
    BY <1>1, <2>2 DEF CallerRecord
  <2>6. ServedBy(c, n, inflight, Len(runs))
    BY <2>3, <2>5 DEF ServedBy
  <2>. QED  BY <1>1, <2>4, <2>5, <2>6, CallerMoves
<1>7. CASE GetCachedResult(c) /\ q.stage # "hit"
  <2> DEFINE n == [q EXCEPT !.stage = "over", !.failed = TRUE]
  <2>1. caller' = [caller EXCEPT ![c] = n]
    BY <1>7 DEF GetCachedResult
  <2>2. n \in CallerRecord /\ n.stage = "over" /\ n.heard = q.heard
    BY <1>1 DEF CallerRecord
  <2>3. ServedBy(c, n, inflight, Len(runs))
    BY <1>1, <2>2 DEF ServedBy
  <2>. QED  BY <1>1, <2>1, <2>2, <2>3, CallerMoves
<1>. QED  BY <1>3, <1>4, <1>5, <1>6, <1>7

\* A waiting caller takes the first event of its queue.
LEMMA TookFacts ==
    ASSUME SharedInv, NEW c \in Analysts, NEW way \in {"plain", "stream"}, Waiting(c, way)
    PROVE  /\ Took(c) \in CallerRecord /\ Took(c).queue = Tail(caller[c].queue)
           /\ Took(c).stage = "waiting" /\ Took(c).run = caller[c].run
           /\ Took(c).way = caller[c].way /\ Took(c).heard = caller[c].heard
           /\ caller[c].run \in 1..Len(runs)
           /\ FirstOf(c) \in Payloads
           /\ FirstOf(c) # "__done__" /\ (way = "plain" => FirstOf(c) \notin {"__result__", "__error__"}) =>
                ServedBy(c, Took(c), inflight, Len(runs))
           /\ way = "plain" => FirstOf(c) # "__done__"
<1> DEFINE q == caller[c]
<1>1. /\ q \in CallerRecord /\ ServedBy(c, q, inflight, Len(runs)) /\ q.queue \in Seq(Payloads)
      /\ q.queue # <<>> /\ q.stage = "waiting" /\ q.way = way
  BY DEF SharedInv, Waiting, CallerRecord
<1>2. /\ Tail(q.queue) \in Seq(Payloads) /\ Head(q.queue) \in Payloads
      /\ HasEnd(q.queue) /\ Head(q.queue) # "__done__" => HasEnd(Tail(q.queue))
      /\ OutcomeFirst(q.queue) => Head(q.queue) # "__done__"
      /\ OutcomeFirst(q.queue) /\ Head(q.queue) \notin {"__result__", "__error__"} =>
           OutcomeFirst(Tail(q.queue))
  BY <1>1, QueueShrinks
<1>3. /\ Took(c) \in CallerRecord /\ Took(c).queue = Tail(q.queue) /\ Took(c).stage = "waiting"
      /\ Took(c).run = q.run /\ Took(c).way = q.way /\ Took(c).heard = q.heard
  BY <1>1, <1>2 DEF Took, CallerRecord
<1>. QED  BY <1>1, <1>2, <1>3 DEF ServedBy, FirstOf

LEMMA AwaitKeeps ==
    ASSUME SharedInv, NEW c \in Analysts, AwaitResult(c)
    PROVE  SharedInv'
<1> DEFINE t == Took(c)
<1>1. /\ Waiting(c, "plain") /\ UNCHANGED <<cached, inflight, runs, dicts>>
      /\ dicts' \in Seq([phase : RunFrame, result : RunFrame]) /\ Len(dicts') = Len(dicts)
  BY DEF AwaitResult, SharedInv
<1>2. /\ t \in CallerRecord /\ t.heard = caller[c].heard /\ FirstOf(c) # "__done__"
      /\ FirstOf(c) \notin {"__result__", "__error__"} => ServedBy(c, t, inflight, Len(runs))
  BY <1>1, TookFacts
<1>3. ServedBy(c, caller[c], inflight, Len(runs)) /\ ScopeResult(c, "full") \in Views
  BY DEF SharedInv, ScopeResult, Views
<1>4. CASE FirstOf(c) = "__result__"
  <2> DEFINE h == <<Frame("json", ScopeResult(c, "full"))>>
             n == [t EXCEPT !.stage = "over", !.heard = h]
  <2>1. caller' = [caller EXCEPT ![c] = n]
    BY <1>4 DEF AwaitResult
  <2>2. h \in Seq(Heard) /\ DOMAIN h = {1} /\ h[1].view = ScopeResult(c, "full")
    BY <1>3 DEF Frame, Heard
  <2> HIDE DEF h
  <2>3. n \in CallerRecord /\ n.stage = "over" /\ n.heard = h
    BY <1>2, <2>2 DEF CallerRecord
  <2>4. ServedBy(c, n, inflight, Len(runs))
    BY <2>2, <2>3 DEF ServedBy
  <2>. QED  BY <1>1, <2>1, <2>3, <2>4, CallerMoves
<1>5. CASE FirstOf(c) = "__error__"
  <2> DEFINE n == [t EXCEPT !.stage = "over", !.failed = TRUE]
  <2>1. caller' = [caller EXCEPT ![c] = n]
    BY <1>5 DEF AwaitResult
  <2>2. n \in CallerRecord /\ n.stage = "over" /\ n.heard = caller[c].heard
    BY <1>2 DEF CallerRecord
  <2>3. ServedBy(c, n, inflight, Len(runs))
    BY <1>3, <2>2 DEF ServedBy
  <2>. QED  BY <1>1, <2>1, <2>2, <2>3, CallerMoves
<1>6. CASE FirstOf(c) \notin {"__result__", "__error__"}
  <2>1. caller' = [caller EXCEPT ![c] = t]
    BY <1>6 DEF AwaitResult
  <2>. QED  BY <1>1, <1>2, <1>6, <2>1, CallerMoves
<1>. QED  BY <1>4, <1>5, <1>6

LEMMA StreamKeeps ==
    ASSUME SharedInv, NEW c \in Analysts, StreamAnalysisEvents(c)
    PROVE  SharedInv'
<1> DEFINE t == Took(c)
           failed == t.failed \/ FirstOf(c) = "__error__"
           stage == IF FirstOf(c) = "__done__" THEN "over" ELSE t.stage
           n == [t EXCEPT !.failed = failed, !.stage = stage]
<1>1. /\ Waiting(c, "stream") /\ UNCHANGED <<cached, inflight, runs, dicts>>
      /\ dicts' \in Seq([phase : RunFrame, result : RunFrame]) /\ Len(dicts') = Len(dicts)
      /\ caller' = [caller EXCEPT ![c] = n]
  BY DEF StreamAnalysisEvents, SharedInv
<1>2. /\ t \in CallerRecord /\ t.heard = caller[c].heard /\ t.stage = "waiting"
      /\ FirstOf(c) # "__done__" => ServedBy(c, t, inflight, Len(runs))
  BY <1>1, TookFacts
<1>3. ServedBy(c, caller[c], inflight, Len(runs))
  BY DEF SharedInv
<1>4. failed \in BOOLEAN
  BY Zenon
<1>5. stage \in {"waiting", "over"}
  BY <1>2
<1> HIDE DEF failed, stage
<1>6. /\ n \in CallerRecord /\ n.heard = t.heard /\ n.stage = stage /\ n.run = t.run
      /\ n.queue = t.queue /\ n.way = t.way
  BY <1>2, <1>4, <1>5 DEF CallerRecord
<1>7. ServedBy(c, n, inflight, Len(runs))
  BY <1>2, <1>3, <1>6 DEF ServedBy, stage
<1>. QED  BY <1>1, <1>6, <1>7, CallerMoves

\* What a stream reads has a type of the run's own events, never a cached answer's.
LEMMA TranslateKeeps ==
    ASSUME SharedInv, NEW c \in Analysts, TranslateStreamEvent(c)
    PROVE  SharedInv'
<1> DEFINE t == Took(c)
           e == FirstOf(c)
           d == dicts[caller[c].run]
           ev == d[e]
           view == IF ev.type = "result" THEN ScopeResult(c, ev.view) ELSE ev.view
           h == Append(t.heard, Frame(ev.type, view))
           n == [t EXCEPT !.heard = h]
<1>1. /\ Waiting(c, "stream") /\ UNCHANGED <<cached, inflight, runs>> /\ e \in {"phase", "result"}
      /\ caller' = [caller EXCEPT ![c] = n]
      /\ dicts' = [dicts EXCEPT ![caller[c].run][e] = Frame("progress", view)]
  BY DEF TranslateStreamEvent
<1>2. /\ t \in CallerRecord /\ t.heard = caller[c].heard /\ t.stage = "waiting"
      /\ caller[c].run \in 1..Len(runs) /\ ServedBy(c, t, inflight, Len(runs))
  BY <1>1, TookFacts
<1>3. d \in [phase : RunFrame, result : RunFrame] /\ caller[c].run \in 1..Len(dicts)
  <2>1. /\ dicts \in Seq([phase : RunFrame, result : RunFrame]) /\ Len(dicts) = Len(runs)
        /\ caller[c].run \in 1..Len(dicts)
    BY <1>2 DEF SharedInv
  <2>. QED  BY <2>1, ElementOfSeq
<1>4. ev \in RunFrame
  <2>1. d.phase \in RunFrame /\ d.result \in RunFrame
    BY <1>3
  <2>. QED  BY <1>1, <2>1
<1>5. view \in Views
  BY <1>4 DEF ScopeResult, Views, RunFrame
<1>6. Frame("progress", view) \in RunFrame /\ Frame(ev.type, view) \in Heard
      /\ Frame(ev.type, view).type \notin {"json", "cache"}
  BY <1>4, <1>5 DEF Frame, RunFrame, Heard
<1> HIDE DEF d
<1>7. [d EXCEPT ![e] = Frame("progress", view)] \in [phase : RunFrame, result : RunFrame]
  <2>1. CASE e = "phase"
    BY <1>3, <1>6, <2>1
  <2>2. CASE e = "result"
    BY <1>3, <1>6, <2>2
  <2>. QED  BY <1>1, <2>1, <2>2
<1>8. dicts' = [dicts EXCEPT ![caller[c].run] = [d EXCEPT ![e] = Frame("progress", view)]]
  BY <1>1 DEF d
<1>9. dicts' \in Seq([phase : RunFrame, result : RunFrame]) /\ Len(dicts') = Len(dicts)
  BY <1>3, <1>7, <1>8, ExceptSeq DEF SharedInv
<1> HIDE DEF ev, view
<1>10. /\ t.heard \in Seq(Heard) /\ h \in Seq(Heard) /\ DOMAIN h = 1..(Len(t.heard) + 1)
       /\ \A i \in 1..Len(t.heard) : h[i] = t.heard[i]
       /\ h[Len(t.heard) + 1] = Frame(ev.type, view) /\ Len(t.heard) \in Nat
       /\ DOMAIN t.heard = 1..Len(t.heard)
  BY <1>2, <1>6 DEF CallerRecord
<1> HIDE DEF h
<1>11. /\ n \in CallerRecord /\ n.heard = h /\ n.stage = t.stage /\ n.run = t.run
       /\ n.queue = t.queue /\ n.way = t.way
  BY <1>2, <1>10 DEF CallerRecord
<1>12. \A i \in DOMAIN h : h[i].type \in {"json", "cache"} => h[i].view = ScopeResult(c, "full")
  <2> SUFFICES ASSUME NEW i \in DOMAIN h, h[i].type \in {"json", "cache"}
               PROVE  h[i].view = ScopeResult(c, "full")
    OBVIOUS
  <2>1. CASE i = Len(t.heard) + 1
    BY <1>6, <1>10, <2>1
  <2>2. CASE i # Len(t.heard) + 1
    <3>1. i \in 1..Len(t.heard)
      BY <1>10, <2>2
    <3>. QED  BY <1>2, <1>10, <3>1 DEF ServedBy
  <2>. QED  BY <2>1, <2>2
<1>13. ServedBy(c, n, inflight, Len(runs))
  BY <1>2, <1>11, <1>12 DEF ServedBy
<1>. QED  BY <1>1, <1>9, <1>11, <1>13, CallerMoves

-----------------------------------------------------------------------------
\* The run moves on, and ends.
RunStages == {"started", "analysing", "caching", "over"}

LEMMA RunMoves ==
    ASSUME SharedInv, NEW r \in DOMAIN runs, NEW s \in RunStages, RunTo(r, s)
    PROVE  /\ runs' \in Seq(RunStages) /\ Len(runs') = Len(runs) /\ DOMAIN runs' = DOMAIN runs
           /\ runs'[r] = s /\ \A i \in DOMAIN runs \ {r} : runs'[i] = runs[i]
  BY ExceptSeq DEF SharedInv, RunTo, RunStages

LEMMA RunKeeps ==
    ASSUME SharedInv, NEW r \in DOMAIN runs, RunAnnounces(r) \/ AnalysisComplete(r) \/ AnalysisEmpty(r)
    PROVE  SharedInv'
<1>1. PICK s \in {"analysing", "caching"} : RunTo(r, s)
  BY DEF RunAnnounces, AnalysisComplete, AnalysisEmpty
<1>2. /\ runs' \in Seq(RunStages) /\ Len(runs') = Len(runs) /\ DOMAIN runs' = DOMAIN runs
      /\ \A i \in DOMAIN runs \ {r} : runs'[i] = runs[i]
  BY <1>1, RunMoves DEF RunStages
<1>3. runs[r] # "over" /\ UNCHANGED <<cached, inflight, dicts>>
  BY DEF RunAnnounces, AnalysisComplete, AnalysisEmpty
<1>4. \A i \in DOMAIN runs' : runs'[i] # "over" => i = inflight'
  BY <1>2, <1>3 DEF SharedInv
<1>5. /\ caller' \in [Analysts -> CallerRecord]
      /\ \A c \in Analysts : ServedBy(c, caller'[c], inflight, Len(runs))
  <2>1. <<"phase">> \in Seq(Payloads) /\ <<"result">> \in Seq(Payloads)
    BY DEF Payloads
  <2>2. OutcomeFirst(<<"phase">>) /\ OutcomeFirst(<<"result">>)
    BY DEF OutcomeFirst
  <2>3. CASE RunAnnounces(r)
    BY <2>1, <2>2, <2>3, FanoutKeeps DEF RunAnnounces
  <2>4. CASE AnalysisEmpty(r)
    BY <2>4 DEF AnalysisEmpty, SharedInv
  <2>5. CASE AnalysisComplete(r)
    <3> DEFINE f == Fanout(r, <<"result">>)
    <3>1. f \in [Analysts -> CallerRecord] /\ \A c \in Analysts : ServedBy(c, f[c], inflight, Len(runs))
      BY <2>1, <2>2, FanoutKeeps
    <3>2. caller' = [c \in Analysts |-> IF c \in Subscribers(r) THEN [f[c] EXCEPT !.due = TRUE] ELSE caller[c]]
      BY <2>5 DEF AnalysisComplete
    <3> HIDE DEF f
    <3> SUFFICES ASSUME NEW c \in Analysts
                 PROVE  caller'[c] \in CallerRecord /\ ServedBy(c, caller'[c], inflight, Len(runs))
      BY <3>2
    <3>3. CASE c \in Subscribers(r)
      <4>1. caller'[c] = [f[c] EXCEPT !.due = TRUE] /\ f[c] \in CallerRecord
        BY <3>1, <3>2, <3>3
      <4>2. /\ caller'[c] \in CallerRecord /\ caller'[c].stage = f[c].stage /\ caller'[c].run = f[c].run
            /\ caller'[c].queue = f[c].queue /\ caller'[c].way = f[c].way /\ caller'[c].heard = f[c].heard
        BY <4>1 DEF CallerRecord
      <4>. QED  BY <3>1, <4>2 DEF ServedBy
    <3>4. CASE c \notin Subscribers(r)
      BY <3>2, <3>4 DEF SharedInv
    <3>. QED  BY <3>3, <3>4
  <2>. QED  BY <2>3, <2>4, <2>5
<1>. QED  BY <1>2, <1>3, <1>4, <1>5 DEF SharedInv, RunStages

LEMMA RunEndKeeps ==
    ASSUME SharedInv, NEW r \in DOMAIN runs, RunSucceeds(r) \/ RunFails(r)
    PROVE  SharedInv'
<1>1. PICK o \in {"__result__", "__error__"} : RunEnds(r, o)
  BY DEF RunSucceeds, RunFails
<1>2. /\ RunTo(r, "over") /\ inflight' = 0 /\ caller' = Fanout(r, <<o, "__done__">>) /\ UNCHANGED dicts
  BY <1>1 DEF RunEnds, LastWords
<1>3. runs[r] # "over" /\ cached' \in BOOLEAN
  <2>1. RunSucceeds(r) => cached' = cached \/ cached' = TRUE
    BY DEF RunSucceeds
  <2>2. RunFails(r) => cached' = cached
    BY DEF RunFails
  <2>3. cached' = cached \/ cached' = TRUE
    BY <2>1, <2>2
  <2>4. cached' \in BOOLEAN
    BY <2>3 DEF SharedInv
  <2>. QED  BY <2>4 DEF RunSucceeds, RunFails
<1>4. inflight = r
  BY <1>3 DEF SharedInv
<1>5. /\ runs' \in Seq(RunStages) /\ Len(runs') = Len(runs) /\ DOMAIN runs' = DOMAIN runs
      /\ runs'[r] = "over" /\ \A i \in DOMAIN runs \ {r} : runs'[i] = runs[i]
  BY <1>2, RunMoves DEF RunStages
<1>6. \A i \in DOMAIN runs' : runs'[i] = "over"
  BY <1>4, <1>5 DEF SharedInv
<1> DEFINE t == <<o, "__done__">>
<1>7. t \in Seq(Payloads) /\ DOMAIN t = {1, 2} /\ t[1] = o /\ t[2] = "__done__"
  BY DEF Payloads
<1>8. HasEnd(t) /\ OutcomeFirst(t)
  BY <1>7 DEF HasEnd, OutcomeFirst
<1>9. /\ caller' \in [Analysts -> CallerRecord]
      /\ \A c \in Analysts : ServedBy(c, caller'[c], 0, Len(runs))
  BY <1>2, <1>4, <1>7, <1>8, FanoutKeeps
<1>10. inflight' \in 0..Len(runs') /\ Len(dicts') = Len(runs') /\ dicts' = dicts
  BY <1>2, <1>5 DEF SharedInv
<1>. QED  BY <1>2, <1>3, <1>5, <1>6, <1>9, <1>10 DEF SharedInv, RunStages

LEMMA SharedStep == SharedInv /\ [SharedNext]_sharedVars => SharedInv'
<1> SUFFICES ASSUME SharedInv, [SharedNext]_sharedVars PROVE SharedInv'
  OBVIOUS
<1>1. CASE \E c \in Analysts : AnalyzeAnew(c) \/ Analyze(c)
  <2>1. PICK c \in Analysts : AnalyzeAnew(c) \/ Analyze(c)
    BY <1>1
  <2>2. caller[c].way \in {"none", "result", "plain", "stream"}
    BY DEF SharedInv, CallerRecord
  <2>3. AnalyzeAnew(c) => \E way \in {"plain", "stream"} : JoinOrStart(c, way)
    BY DEF AnalyzeAnew
  <2>4. Analyze(c) => JoinOrStart(c, caller[c].way)
    BY DEF Analyze
  <2>. QED  BY <2>1, <2>2, <2>3, <2>4, JoinKeeps
<1>2. CASE \E c \in Analysts : Look(c) \/ CacheAnswers(c) \/ GetCachedResult(c) \/ Disconnect(c)
  BY <1>2, CallerKeeps
<1>3. CASE \E c \in Analysts : AwaitResult(c) \/ TranslateStreamEvent(c) \/ StreamAnalysisEvents(c)
  BY <1>3, AwaitKeeps, TranslateKeeps, StreamKeeps
<1>4. CASE \E r \in DOMAIN runs :
             \/ RunAnnounces(r) \/ AnalysisComplete(r) \/ AnalysisEmpty(r) \/ RunSucceeds(r) \/ RunFails(r)
  BY <1>4, RunKeeps, RunEndKeeps
<1>5. CASE HandleAnalyzeRepo \/ ResultExpires \/ UNCHANGED sharedVars
  <2>1. UNCHANGED <<inflight, runs, dicts, caller>>
    BY <1>5 DEF HandleAnalyzeRepo, ResultExpires, sharedVars
  <2>2. cached' \in BOOLEAN
    BY <1>5 DEF HandleAnalyzeRepo, ResultExpires, sharedVars, SharedInv
  <2>. QED  BY <2>1, <2>2 DEF SharedInv
<1>. QED  BY <1>1, <1>2, <1>3, <1>4, <1>5 DEF SharedNext

LEMMA SharedStart == SharedInit => SharedInv
<1> SUFFICES ASSUME SharedInit PROVE SharedInv
  OBVIOUS
<1>1. caller \in [Analysts -> CallerRecord] /\ Len(runs) = 0 /\ Len(dicts) = 0 /\ DOMAIN runs = {}
  BY GoneRecord DEF SharedInit
<1>2. \A c \in Analysts : ServedBy(c, caller[c], inflight, Len(runs))
  BY DEF SharedInit, ServedBy, Gone
<1>3. /\ runs = <<>> /\ dicts = <<>> /\ inflight = 0
      /\ <<>> \in Seq(RunStages) /\ <<>> \in Seq([phase : RunFrame, result : RunFrame])
  BY DEF SharedInit
<1>4. cached \in BOOLEAN
  BY DEF SharedInit
<1>. QED  BY <1>1, <1>2, <1>3, <1>4 DEF SharedInv, RunStages

LEMMA SharedSound == SharedInv => WaitersAreServed /\ SharedTyped
<1>1. SharedInv => WaitersAreServed
  BY DEF SharedInv, ServedBy, WaitersAreServed, HasEnd
<1>2. SharedInv => SharedTyped
  <2> SUFFICES ASSUME SharedInv PROVE SharedTyped
    OBVIOUS
  <2>1. \A r \in DOMAIN runs : runs[r] \in RunStages
    BY DEF SharedInv, RunStages
  <2>2. ASSUME NEW c \in Analysts
        PROVE  /\ caller[c].stage \in {"away", "looking", "hit", "missed", "waiting", "over"}
               /\ \A i \in DOMAIN caller[c].heard : caller[c].heard[i].view \in Views
    <3>1. caller[c] \in CallerRecord /\ caller[c].heard \in Seq(Heard)
      BY DEF SharedInv, CallerRecord
    <3>2. \A i \in DOMAIN caller[c].heard : caller[c].heard[i] \in Heard
      BY <3>1
    <3>. QED  BY <3>1, <3>2 DEF CallerRecord, Heard
  <2>. QED  BY <2>1, <2>2 DEF SharedInv, SharedTyped, RunStages
<1>. QED  BY <1>1, <1>2

-----------------------------------------------------------------------------
(* Registry discovery.  What an asker holds came from the live client or   *)
(* is marked late; and while nothing happens behind its back, a repository *)
(* it has found nothing about is still to be asked for, or not there.      *)

Told == {"unknown", "unresolved"} \union Ports
InFlight == {"bulk", "listing", "details", "storing"}

AskerRecord ==
    [stage : {"idle", "looking", "over"} \union InFlight, repo : Repos \union {"none"},
     host : Hosts \union {"none"}, asks : Hosts \union {"none"}, found : [Repos -> Told],
     todo : SUBSET Repos, refresh : BOOLEAN, judged : Told \union {"none", "shown"},
     calm : BOOLEAN, late : BOOLEAN]
MapRecord == [host : Hosts \union {"none"}, found : [Repos -> Told], left : BOOLEAN]

NotThere(r) == declared[dialled][r] = "absent"

Honest(q) ==
    /\ q.stage \in InFlight => q.host = dialled \/ q.late
    /\ q.stage \in {"bulk", "listing", "details"} => q.asks \in Hosts
    /\ q.stage = "details" <=> q.todo # {}
    /\ q.stage # "over" => q.judged = "none"
    /\ q.calm =>
         /\ q.stage \in {"bulk", "listing", "details"} => q.asks = dialled
         /\ q.stage \in {"bulk", "listing"} => q.found = Nothing
         /\ q.stage = "details" => \A r \in Repos : q.found[r] = "unknown" => r \in q.todo \/ NotThere(r)
         /\ q.stage = "storing" => \A r \in Repos : q.found[r] = "unknown" => NotThere(r)
         /\ q.judged = "unknown" => NotThere(q.repo)

MapHolds(k) == k # NoMap => k.host = dialled \/ k.left

RegistryInv ==
    /\ declared \in [Hosts -> [Repos -> Connector]]
    /\ saved \in Hosts /\ dialled \in Hosts /\ settings \in {"idle", "saved", "switched"}
    /\ settings # "saved" => saved = dialled
    /\ known \in MapRecord /\ (settings # "switched" => MapHolds(known))
    /\ asker \in [Askers -> AskerRecord]
    /\ \A a \in Askers : Honest(asker[a])

LEMMA NothingFound == Nothing \in [Repos -> Told] /\ \A r \in Repos : Nothing[r] = "unknown"
  BY DEF Nothing, Told

LEMMA UnaskedHonest == Unasked \in AskerRecord /\ Honest(Unasked)
  BY NothingFound DEF Unasked, AskerRecord, Honest, InFlight

\* A step of one asker, which may store a map.
LEMMA AskerMoves ==
    ASSUME RegistryInv, NEW a \in Askers, NEW q \in AskerRecord, Set(a, q), Honest(q),
           AskerOnly, known' \in MapRecord, settings # "switched" => MapHolds(known')
    PROVE  RegistryInv'
<1>1. asker' \in [Askers -> AskerRecord]
  BY DEF Set, RegistryInv
<1>2. UNCHANGED <<declared, saved, dialled, settings>>
  BY DEF AskerOnly
<1>3. \A b \in Askers : Honest(asker'[b])
  BY DEF Set, RegistryInv
<1>4. \A b \in Askers : Honest(asker[b])'
  BY <1>2, <1>3 DEF Honest, NotThere
<1>5. settings' # "switched" => MapHolds(known)'
  BY <1>2 DEF MapHolds
<1>. QED  BY <1>1, <1>2, <1>4, <1>5 DEF RegistryInv

LEMMA ProbeHonest ==
    ASSUME RegistryInv, NEW q \in AskerRecord, q.todo = {}, q.judged = "none"
    PROVE  Probe(q) \in AskerRecord /\ Honest(Probe(q))
<1>1. Probe(q) \in AskerRecord
  BY NothingFound DEF Probe, AskerRecord, RegistryInv, InFlight
<1>2. /\ Probe(q).stage = "bulk" /\ Probe(q).host = dialled /\ Probe(q).asks = dialled
      /\ Probe(q).found = Nothing /\ Probe(q).todo = {} /\ Probe(q).judged = "none"
  BY DEF Probe, AskerRecord
<1>. QED  BY <1>1, <1>2 DEF Honest, RegistryInv

LEMMA JudgeHonest ==
    ASSUME RegistryInv, NEW q \in AskerRecord, q.todo = {}, q.judged = "none",
           q.calm /\ q.repo # "none" /\ q.found[q.repo] = "unknown" => ~q.refresh \/ NotThere(q.repo)
    PROVE  Judge(q) \in AskerRecord /\ Honest(Judge(q))
<1>1. CASE AsksAgain(q)
  <2> DEFINE p == [q EXCEPT !.refresh = TRUE]
  <2>1. p \in AskerRecord /\ p.todo = {} /\ p.judged = "none"
    BY DEF AskerRecord
  <2>2. Judge(q) = Probe(p)
    BY <1>1 DEF Judge
  <2>. QED  BY <2>1, <2>2, ProbeHonest
<1>2. CASE ~AsksAgain(q)
  <2> DEFINE verdict0 == IF q.repo = "none" THEN "shown" ELSE q.found[q.repo]
             n == [Unasked EXCEPT !.stage = "over", !.repo = q.repo, !.calm = q.calm, !.judged = verdict0]
  <2>1. Judge(q) = n
    BY <1>2 DEF Judge
  <2>2. q.repo # "none" => q.repo \in Repos /\ q.found[q.repo] \in Told
    BY DEF AskerRecord
  <2>3. verdict0 \in Told \union {"none", "shown"}
    BY <2>2
  <2>4. q.calm /\ verdict0 = "unknown" => NotThere(q.repo)
    BY <1>2, <2>2 DEF AsksAgain
  <2> HIDE DEF verdict0
  <2>5. /\ n \in AskerRecord /\ n.stage = "over" /\ n.todo = {} /\ n.calm = q.calm
        /\ n.repo = q.repo /\ n.judged = verdict0
    <3>1. Unasked \in AskerRecord /\ Unasked.todo = {}
      BY UnaskedHonest DEF Unasked
    <3>. QED  BY <2>3, <3>1 DEF AskerRecord
  <2>6. Honest(n)
    BY <2>4, <2>5 DEF Honest, InFlight
  <2>. QED  BY <2>1, <2>5, <2>6
<1>. QED  BY <1>1, <1>2

LEMMA AsksKeeps ==
    ASSUME RegistryInv, NEW a \in Askers, HandleScanImage(a) \/ RegistryMap(a) \/ Discover(a)
    PROVE  RegistryInv'
<1>1. UNCHANGED known /\ AskerOnly
  <2>1. HandleScanImage(a) => UNCHANGED known /\ AskerOnly
    BY Zenon DEF HandleScanImage
  <2>2. RegistryMap(a) => UNCHANGED known /\ AskerOnly
    BY Zenon DEF RegistryMap
  <2>3. Discover(a) => UNCHANGED known /\ AskerOnly
    BY Zenon DEF Discover
  <2>. QED  BY <2>1, <2>2, <2>3
<1>2. ASSUME NEW q \in AskerRecord, Set(a, q), Honest(q) PROVE RegistryInv'
  BY <1>1, <1>2, AskerMoves DEF RegistryInv
<1>3. Unasked \in AskerRecord /\ Unasked.todo = {} /\ Unasked.judged = "none"
  BY UnaskedHonest DEF Unasked
<1>4. CASE HandleScanImage(a)
  <2>1. PICK r \in Repos : Set(a, [Unasked EXCEPT !.stage = "looking", !.repo = r])
    BY <1>4, Zenon DEF HandleScanImage
  <2> DEFINE q == [Unasked EXCEPT !.stage = "looking", !.repo = r]
  <2>2. q \in AskerRecord /\ q.stage = "looking" /\ q.todo = {} /\ q.judged = "none"
    BY <1>3 DEF AskerRecord
  <2>. QED  BY <1>2, <2>1, <2>2 DEF Honest, InFlight
<1>5. CASE RegistryMap(a)
  <2>1. PICK refresh \in BOOLEAN : Set(a, [Unasked EXCEPT !.stage = "looking", !.refresh = refresh])
    BY <1>5, Zenon DEF RegistryMap
  <2> DEFINE q == [Unasked EXCEPT !.stage = "looking", !.refresh = refresh]
  <2>2. q \in AskerRecord /\ q.stage = "looking" /\ q.todo = {} /\ q.judged = "none"
    BY <1>3 DEF AskerRecord
  <2>. QED  BY <1>2, <2>1, <2>2 DEF Honest, InFlight
<1>6. CASE Discover(a)
  <2> DEFINE q == asker[a]
  <2>1. q \in AskerRecord /\ q.todo = {} /\ q.judged = "none"
    BY <1>6 DEF Discover, RegistryInv, Honest
  <2>2. CASE known # NoMap /\ ~q.refresh
    <3> DEFINE p == [q EXCEPT !.found = known.found]
    <3>1. Set(a, Judge(p))
      BY <1>6, <2>2 DEF Discover
    <3>2. p \in AskerRecord /\ p.todo = {} /\ p.judged = "none" /\ ~p.refresh
      BY <2>1, <2>2 DEF AskerRecord, RegistryInv, MapRecord
    <3>. QED  BY <1>2, <3>1, <3>2, JudgeHonest
  <2>3. CASE ~(known # NoMap /\ ~q.refresh)
    <3>1. Set(a, Probe(q))
      BY <1>6, <2>3 DEF Discover
    <3>. QED  BY <1>2, <2>1, <3>1, ProbeHonest
  <2>. QED  BY <2>2, <2>3
<1>. QED  BY <1>4, <1>5, <1>6

LEMMA BlockTold ==
    ASSUME NEW c \in Connector
    PROVE  /\ RegistryFromDockerBlock(c) \in Told
           /\ RegistryFromDockerBlock(c) = "unknown" <=> c = "absent"
  BY RegistryAssumption DEF Connector, RegistryFromDockerBlock, Told

LEMMA FailedFacts ==
    ASSUME RegistryInv, NEW q \in AskerRecord,
           NEW s \in {"idle", "looking", "over"} \union InFlight
    PROVE  /\ Failed(q, s) \in AskerRecord /\ Failed(q, s).stage = s /\ ~Failed(q, s).calm
           /\ Failed(q, s).todo = q.todo /\ Failed(q, s).judged = q.judged
           /\ Failed(q, s).host = q.host /\ Failed(q, s).late = q.late
           /\ Failed(q, s).asks \in Hosts
  BY DEF Failed, AskerRecord, RegistryInv

LEMMA BulkKeeps ==
    ASSUME RegistryInv, NEW a \in Askers, FromRepositorySettings(a)
    PROVE  RegistryInv'
<1> DEFINE q == asker[a]
<1>1. UNCHANGED known /\ AskerOnly
  BY DEF FromRepositorySettings
<1>2. ASSUME NEW p \in AskerRecord, Set(a, p), Honest(p) PROVE RegistryInv'
  BY <1>1, <1>2, AskerMoves DEF RegistryInv
<1>3. /\ q \in AskerRecord /\ Honest(q) /\ q.stage = "bulk" /\ q.todo = {} /\ q.judged = "none"
      /\ (q.host = dialled \/ q.late)
  BY DEF FromRepositorySettings, RegistryInv, Honest, InFlight
<1>4. CASE Set(a, Failed(q, "listing"))
  <2>1. Failed(q, "listing") \in AskerRecord /\ Honest(Failed(q, "listing"))
    BY <1>3, FailedFacts DEF Honest, InFlight
  <2>. QED  BY <1>2, <1>4, <2>1
<1>5. CASE Set(a, [q EXCEPT !.stage = "listing", !.asks = dialled])
  <2> DEFINE p == [q EXCEPT !.stage = "listing", !.asks = dialled]
  <2>1. /\ p \in AskerRecord /\ p.stage = "listing" /\ p.asks = dialled /\ p.todo = {}
        /\ p.judged = "none" /\ p.host = q.host /\ p.late = q.late /\ p.found = q.found
        /\ p.calm = q.calm
    BY <1>3 DEF AskerRecord, RegistryInv, InFlight
  <2>2. Honest(p)
    BY <1>3, <2>1 DEF Honest, RegistryInv
  <2>. QED  BY <1>2, <1>5, <2>1, <2>2
<1>6. CASE /\ Listed(q.asks) # {}
           /\ Set(a, [q EXCEPT !.stage = "storing",
                        !.found = [r \in Repos |-> RegistryFromDockerBlock(declared[q.asks][r])]])
  <2> DEFINE f == [r \in Repos |-> RegistryFromDockerBlock(declared[q.asks][r])]
             p == [q EXCEPT !.stage = "storing", !.found = f]
  <2>1. q.calm => q.asks = dialled
    BY <1>3 DEF Honest
  <2>2. f \in [Repos -> Told]
    <3> SUFFICES ASSUME NEW r \in Repos PROVE f[r] \in Told
      OBVIOUS
    <3>1. declared[q.asks][r] \in Connector
      BY <1>3 DEF RegistryInv, Honest
    <3>. QED  BY <3>1, BlockTold
  <2>3. \A r \in Repos : q.calm /\ f[r] = "unknown" => NotThere(r)
    <3> SUFFICES ASSUME NEW r \in Repos, q.calm, f[r] = "unknown" PROVE NotThere(r)
      OBVIOUS
    <3>1. declared[dialled][r] \in Connector
      BY DEF RegistryInv
    <3>. QED  BY <2>1, <3>1, BlockTold DEF NotThere
  <2> HIDE DEF f
  <2>4. /\ p \in AskerRecord /\ p.stage = "storing" /\ p.todo = {} /\ p.found = f
        /\ p.judged = "none" /\ p.host = q.host /\ p.late = q.late /\ p.calm = q.calm
    BY <1>3, <2>2 DEF AskerRecord, InFlight
  <2>5. Honest(p)
    BY <1>3, <2>3, <2>4 DEF Honest
  <2>6. Set(a, p)
    BY <1>6 DEF f
  <2>. QED  BY <1>2, <2>4, <2>5, <2>6
<1>. QED  BY <1>4, <1>5, <1>6 DEF FromRepositorySettings

LEMMA ListingKeeps ==
    ASSUME RegistryInv, NEW a \in Askers, FromPerRepoApi(a)
    PROVE  RegistryInv'
<1> DEFINE q == asker[a]
<1>1. UNCHANGED known /\ AskerOnly
  BY Zenon DEF FromPerRepoApi
<1>2. ASSUME NEW p \in AskerRecord, Set(a, p), Honest(p) PROVE RegistryInv'
  BY <1>1, <1>2, AskerMoves DEF RegistryInv
<1>3. /\ q \in AskerRecord /\ Honest(q) /\ q.stage = "listing" /\ q.todo = {} /\ q.judged = "none"
      /\ (q.host = dialled \/ q.late) /\ q.asks \in Hosts
      /\ q.calm => q.asks = dialled /\ q.found = Nothing
  BY DEF FromPerRepoApi, RegistryInv, Honest, InFlight
<1>4. CASE Set(a, Judge([Failed(q, "over") EXCEPT !.found = Nothing]))
  <2> DEFINE p == [Failed(q, "over") EXCEPT !.found = Nothing]
  <2>1. /\ Failed(q, "over") \in AskerRecord /\ ~Failed(q, "over").calm
        /\ Failed(q, "over").todo = {} /\ Failed(q, "over").judged = "none"
    BY <1>3, FailedFacts
  <2>2. p \in AskerRecord /\ ~p.calm /\ p.todo = {} /\ p.judged = "none"
    BY <2>1, NothingFound DEF AskerRecord
  <2>. QED  BY <1>2, <1>4, <2>2, JudgeHonest
<1>5. CASE Set(a, [q EXCEPT !.stage = IF Listed(q.asks) = {} THEN "storing" ELSE "details",
                            !.todo = Listed(q.asks), !.asks = dialled])
  <2> DEFINE stage == IF Listed(q.asks) = {} THEN "storing" ELSE "details"
             p == [q EXCEPT !.stage = stage, !.todo = Listed(q.asks), !.asks = dialled]
  <2>1. /\ Listed(q.asks) \in SUBSET Repos /\ stage \in {"storing", "details"}
        /\ stage = "details" <=> Listed(q.asks) # {}
    BY DEF Listed
  <2>2. \A r \in Repos : q.calm => r \in Listed(q.asks) \/ NotThere(r)
    BY <1>3 DEF Listed, NotThere
  <2> HIDE DEF stage
  <2>3. /\ p \in AskerRecord /\ p.stage = stage /\ p.todo = Listed(q.asks) /\ p.asks = dialled
        /\ p.judged = "none" /\ p.host = q.host /\ p.late = q.late /\ p.found = q.found
        /\ p.calm = q.calm
    BY <1>3, <2>1 DEF AskerRecord, RegistryInv, InFlight
  <2>4. Honest(p)
    BY <1>3, <2>1, <2>2, <2>3 DEF Honest, RegistryInv
  <2>5. Set(a, p)
    BY <1>5 DEF stage
  <2>. QED  BY <1>2, <2>3, <2>4, <2>5
<1>. QED  BY <1>4, <1>5, Zenon DEF FromPerRepoApi

LEMMA DetailsKeeps ==
    ASSUME RegistryInv, NEW a \in Askers, ResolveRepoRegistry(a)
    PROVE  RegistryInv'
<1> DEFINE q == asker[a]
           stage(r) == IF q.todo = {r} THEN "storing" ELSE q.stage
           found(r, says) == [q.found EXCEPT ![r] = says]
           told(r, says) == [q EXCEPT !.todo = @ \ {r}, !.found[r] = says, !.asks = dialled,
                                      !.stage = IF q.todo = {r} THEN "storing" ELSE @]
<1>1. UNCHANGED known /\ AskerOnly
  BY Zenon DEF ResolveRepoRegistry
<1>2. ASSUME NEW p \in AskerRecord, Set(a, p), Honest(p) PROVE RegistryInv'
  BY <1>1, <1>2, AskerMoves DEF RegistryInv
<1>3. /\ q \in AskerRecord /\ Honest(q) /\ q.stage = "details" /\ q.judged = "none"
      /\ (q.host = dialled \/ q.late) /\ q.asks \in Hosts
      /\ q.calm => /\ q.asks = dialled
                   /\ \A r \in Repos : q.found[r] = "unknown" => r \in q.todo \/ NotThere(r)
  BY DEF ResolveRepoRegistry, RegistryInv, Honest, InFlight
<1>4. ASSUME NEW r \in q.todo, NEW says \in Told, says # "unknown"
      PROVE  /\ told(r, says) \in AskerRecord /\ Honest(told(r, says))
             /\ [told(r, says) EXCEPT !.calm = FALSE] \in AskerRecord
             /\ Honest([told(r, says) EXCEPT !.calm = FALSE])
  <2> DEFINE p == told(r, says)
             u == [p EXCEPT !.calm = FALSE]
  <2>1. r \in Repos /\ q.todo \ {r} \in SUBSET Repos /\ found(r, says) \in [Repos -> Told]
        /\ \A x \in Repos : found(r, says)[x] = "unknown" => q.found[x] = "unknown" /\ x # r
    BY <1>3, <1>4 DEF AskerRecord
  <2>2. p = [q EXCEPT !.todo = q.todo \ {r}, !.found = found(r, says), !.asks = dialled,
                      !.stage = stage(r)]
    BY <1>3 DEF AskerRecord
  <2>3. stage(r) = "storing" <=> q.todo \ {r} = {}
    BY <1>3
  <2>4. stage(r) \in {"storing", "details"}
    BY <1>3
  <2> HIDE DEF p, found, stage
  <2>8. /\ p \in AskerRecord /\ p.stage = stage(r) /\ p.todo = q.todo \ {r} /\ p.asks = dialled
        /\ p.judged = "none" /\ p.host = q.host /\ p.late = q.late /\ p.found = found(r, says)
        /\ p.calm = q.calm
    BY <1>3, <2>1, <2>2, <2>4 DEF AskerRecord, RegistryInv, InFlight
  <2>5. Honest(p)
    BY <1>3, <2>1, <2>8, <2>3, <2>4 DEF Honest, RegistryInv
  <2>6. /\ u \in AskerRecord /\ ~u.calm /\ u.stage = p.stage /\ u.todo = p.todo /\ u.asks = p.asks
        /\ u.judged = p.judged /\ u.host = p.host /\ u.late = p.late
    BY <2>8 DEF AskerRecord
  <2>7. Honest(u)
    BY <2>5, <2>6 DEF Honest
  <2>. QED  BY <2>8, <2>5, <2>6, <2>7 DEF p
<1>5. PICK r \in q.todo :
        \/ /\ declared[q.asks][r] # "absent"
           /\ Set(a, told(r, RegistryFromDockerBlock(declared[q.asks][r])))
        \/ Set(a, [told(r, "unresolved") EXCEPT !.calm = FALSE])
  BY Zenon DEF ResolveRepoRegistry
<1>6. CASE /\ declared[q.asks][r] # "absent"
           /\ Set(a, told(r, RegistryFromDockerBlock(declared[q.asks][r])))
  <2> DEFINE says == RegistryFromDockerBlock(declared[q.asks][r])
  <2>1. declared[q.asks][r] \in Connector
    BY <1>3 DEF RegistryInv, AskerRecord
  <2>2. says \in Told /\ says # "unknown"
    BY <1>6, <2>1, BlockTold
  <2> HIDE DEF says
  <2>3. Set(a, told(r, says))
    BY <1>6 DEF says
  <2> HIDE DEF told
  <2>. QED  BY <1>2, <1>4, <2>2, <2>3
<1>7. CASE Set(a, [told(r, "unresolved") EXCEPT !.calm = FALSE])
  <2>1. "unresolved" \in Told
    BY DEF Told
  <2> HIDE DEF told
  <2>. QED  BY <1>2, <1>4, <1>7, <2>1
<1>. QED  BY <1>5, <1>6, <1>7

LEMMA StoreKeeps ==
    ASSUME RegistryInv, NEW a \in Askers, StoreMap(a)
    PROVE  RegistryInv'
<1> DEFINE q == asker[a]
           m == [host |-> q.host, found |-> q.found, left |-> q.late]
<1>1. AskerOnly /\ Set(a, Judge(q)) /\ known' \in {known, m}
  BY DEF StoreMap
<1>2. /\ q \in AskerRecord /\ q.todo = {} /\ q.judged = "none" /\ (q.host = dialled \/ q.late)
      /\ q.calm => \A r \in Repos : q.found[r] = "unknown" => NotThere(r)
  BY DEF StoreMap, RegistryInv, Honest, InFlight
<1>3. m \in MapRecord /\ m.host = q.host /\ m.left = q.late
  BY <1>2 DEF MapRecord, AskerRecord
<1>4. MapHolds(m)
  BY <1>2, <1>3 DEF MapHolds
<1>5. known' \in MapRecord /\ (settings # "switched" => MapHolds(known'))
  BY <1>1, <1>3, <1>4 DEF RegistryInv
<1>6. Judge(q) \in AskerRecord /\ Honest(Judge(q))
  <2>1. q.calm /\ q.repo # "none" /\ q.found[q.repo] = "unknown" => NotThere(q.repo)
    BY <1>2 DEF AskerRecord
  <2>. QED  BY <1>2, <2>1, JudgeHonest
<1>. QED  BY <1>1, <1>5, <1>6, AskerMoves

\* What happens behind the askers' backs.
LEMMA AllDisturbed ==
    ASSUME RegistryInv, NEW b \in Askers
    PROVE  /\ Disturbed[b] \in AskerRecord /\ ~Disturbed[b].calm
           /\ Disturbed[b].stage = asker[b].stage /\ Disturbed[b].todo = asker[b].todo
           /\ Disturbed[b].asks = asker[b].asks /\ Disturbed[b].judged = asker[b].judged
           /\ Disturbed[b].host = asker[b].host /\ Disturbed[b].late = asker[b].late
<1>1. Disturbed[b] = [asker[b] EXCEPT !.calm = FALSE] /\ asker[b] \in AskerRecord
  BY DEF Disturbed, RegistryInv
<1>. QED  BY <1>1 DEF AskerRecord

LEMMA EditKeeps ==
    ASSUME RegistryInv, EditNexus
    PROVE  RegistryInv'
<1>1. UNCHANGED <<saved, dialled, settings, known>> /\ asker' = Disturbed
  BY DEF EditNexus
<1>2. declared' \in [Hosts -> [Repos -> Connector]]
  <2>1. PICK h \in Hosts, r \in Repos, c \in Connector : declared' = [declared EXCEPT ![h][r] = c]
    BY DEF EditNexus
  <2>2. [declared[h] EXCEPT ![r] = c] \in [Repos -> Connector]
    BY DEF RegistryInv
  <2>. QED  BY <2>1, <2>2 DEF RegistryInv
<1>3. asker' \in [Askers -> AskerRecord]
  <2>1. Disturbed = [b \in Askers |-> Disturbed[b]]
    BY DEF Disturbed
  <2>. QED  BY <1>1, <2>1, AllDisturbed
<1>4. \A b \in Askers : Honest(asker[b])'
  <2> SUFFICES ASSUME NEW b \in Askers PROVE Honest(asker[b])'
    OBVIOUS
  <2>1. asker'[b] = Disturbed[b] /\ Honest(asker[b])
    BY <1>1 DEF RegistryInv
  <2>. QED  BY <1>1, <2>1, AllDisturbed DEF Honest
<1>5. settings' # "switched" => MapHolds(known)'
  BY <1>1 DEF RegistryInv, MapHolds
<1>. QED  BY <1>1, <1>2, <1>3, <1>4, <1>5 DEF RegistryInv

LEMMA SwitchKeeps ==
    ASSUME RegistryInv, Reconfigure
    PROVE  RegistryInv'
<1>1. /\ UNCHANGED <<declared, saved, known>> /\ dialled' = saved /\ settings' = "switched"
      /\ asker' = [b \in Askers |-> [Disturbed[b] EXCEPT !.late = @ \/ asker[b].host # saved]]
  BY DEF Reconfigure
<1>2. ASSUME NEW b \in Askers PROVE asker'[b] \in AskerRecord /\ Honest(asker[b])'
  <2> DEFINE d == Disturbed[b]
             late == d.late \/ asker[b].host # saved
             p == [d EXCEPT !.late = late]
  <2>1. asker'[b] = p
    BY <1>1
  <2>2. late \in BOOLEAN
    BY Zenon
  <2>3. late <=> asker[b].late \/ asker[b].host # saved
    BY AllDisturbed
  <2> HIDE DEF late
  <2>4. /\ p \in AskerRecord /\ ~p.calm /\ p.stage = asker[b].stage /\ p.todo = asker[b].todo
        /\ p.asks = asker[b].asks /\ p.judged = asker[b].judged /\ p.host = asker[b].host
        /\ p.late = late
    BY <2>2, AllDisturbed DEF AskerRecord
  <2>5. Honest(asker[b])
    BY DEF RegistryInv
  <2>6. Honest(asker[b])'
    BY <1>1, <2>1, <2>3, <2>4, <2>5 DEF Honest
  <2>. QED  BY <2>1, <2>4, <2>6
<1>3. asker' \in [Askers -> AskerRecord]
  BY <1>1, <1>2
<1>. QED  BY <1>1, <1>2, <1>3 DEF RegistryInv

LEMMA RestartKeeps ==
    ASSUME RegistryInv, RestartConnected
    PROVE  RegistryInv'
<1>1. /\ UNCHANGED <<declared, saved>> /\ dialled' = saved /\ settings' = "idle"
      /\ known' = IF known # NoMap /\ known.host # saved THEN [known EXCEPT !.left = TRUE] ELSE known
      /\ asker' = [b \in Askers |-> Unasked]
  BY DEF RestartConnected
<1>2. asker' \in [Askers -> AskerRecord]
  BY <1>1, UnaskedHonest
<1>3. \A b \in Askers : Honest(asker[b])'
  <2>1. \A b \in Askers : asker'[b] = Unasked
    BY <1>1
  <2>. QED  BY <2>1 DEF Honest, Unasked, InFlight
<1>4. known' \in MapRecord /\ MapHolds(known)'
  BY <1>1 DEF RegistryInv, MapRecord, MapHolds
<1>. QED  BY <1>1, <1>2, <1>3, <1>4 DEF RegistryInv

LEMMA RegistryStep == RegistryInv /\ [RegistryNext]_registryVars => RegistryInv'
<1> SUFFICES ASSUME RegistryInv, [RegistryNext]_registryVars PROVE RegistryInv'
  OBVIOUS
<1>1. NoMap \in MapRecord
  BY NothingFound DEF NoMap, MapRecord
<1>2. ASSUME UNCHANGED <<declared, dialled, asker>>, known' \in MapRecord,
             saved' \in Hosts, settings' \in {"idle", "saved", "switched"},
             settings' # "saved" => saved' = dialled',
             settings' # "switched" => MapHolds(known')
      PROVE  RegistryInv'
  <2>1. \A b \in Askers : Honest(asker[b])'
    BY <1>2 DEF RegistryInv, Honest, NotThere
  <2>2. settings' # "switched" => MapHolds(known)'
    BY <1>2 DEF MapHolds
  <2>. QED  BY <1>2, <2>1, <2>2 DEF RegistryInv
<1>3. CASE SaveSettings
  BY <1>2, <1>3 DEF SaveSettings, RegistryInv
<1>4. CASE Invalidate
  <2>1. known' \in MapRecord /\ MapHolds(known')
    BY <1>1, <1>4 DEF Invalidate, Left, RegistryInv, MapRecord, MapHolds
  <2>. QED  BY <1>2, <1>4, <2>1 DEF Invalidate, RegistryInv
<1>5. CASE MapExpires
  BY <1>1, <1>2, <1>5 DEF MapExpires, RegistryInv, MapHolds
<1>6. CASE UNCHANGED registryVars
  BY <1>2, <1>6 DEF registryVars, RegistryInv
<1>7. CASE EditNexus \/ Reconfigure \/ RestartConnected
  BY <1>7, EditKeeps, SwitchKeeps, RestartKeeps
<1>8. CASE \E a \in Askers : HandleScanImage(a) \/ RegistryMap(a) \/ Discover(a)
  BY <1>8, AsksKeeps
<1>9. CASE \E a \in Askers : \/ FromRepositorySettings(a) \/ FromPerRepoApi(a)
                             \/ ResolveRepoRegistry(a) \/ StoreMap(a)
  BY <1>9, BulkKeeps, ListingKeeps, DetailsKeeps, StoreKeeps
<1>. QED  BY <1>3, <1>4, <1>5, <1>6, <1>7, <1>8, <1>9 DEF RegistryNext

LEMMA RegistryStart == RegistryInit => RegistryInv
<1> SUFFICES ASSUME RegistryInit PROVE RegistryInv
  OBVIOUS
<1>1. known \in MapRecord /\ MapHolds(known)
  BY NothingFound DEF RegistryInit, NoMap, MapRecord, MapHolds
<1>. QED  BY <1>1, UnaskedHonest DEF RegistryInit, RegistryInv, Connector

LEMMA RegistrySound == RegistryInv => EndpointsHold /\ RegistryTyped
<1>1. RegistryInv => EndpointsHold
  BY DEF RegistryInv, EndpointsHold, MapHolds, Honest, NotThere
<1>2. RegistryInv => RegistryTyped
  BY DEF RegistryInv, RegistryTyped, MapRecord, AskerRecord, Honest, Told, InFlight
<1>. QED  BY <1>1, <1>2

-----------------------------------------------------------------------------
(* The replicas.  A slot is free, held, given up to a thread that outlived *)
(* its job, or lost, and never two of these; the lock names who copies or  *)
(* writes.                                                                 *)

ScanRecord == [stage : {"new", "slot", "lock", "copying", "scanning", "ended"}, slot : 0..Slots]

SlotInv ==
    /\ free \in Seq(SlotIds) /\ abandoned \subseteq SlotIds
    /\ scan \in [Scans -> ScanRecord]
    /\ \A j \in Scans : scan[j].slot = 0 <=> scan[j].stage \in {"new", "slot", "ended"}
    /\ \A i, j \in Held : i # j => scan[i].slot # scan[j].slot
    /\ \A j \in Held, n \in DOMAIN free : free[n] # scan[j].slot
    /\ \A m, n \in DOMAIN free : m # n => free[m] # free[n]
    /\ \A j \in Held : scan[j].slot \notin abandoned
    /\ \A n \in DOMAIN free : free[n] \notin abandoned

LockInv ==
    /\ lock \in {Nobody} \union Scans \union Writers
    /\ writer \in [Writers -> {"idle", "writing"}]
    /\ \A j \in Scans : scan[j].stage = "copying" => lock = j
    /\ \A w \in Writers : writer[w] = "writing" => lock = w

\* A job moves on with the slot it has, or has not.
LEMMA StageMoves ==
    ASSUME SlotInv, NEW j \in Scans, NEW s \in {"new", "slot", "lock", "copying", "scanning", "ended"},
           ScanTo(j, s), UNCHANGED <<free, abandoned>>,
           scan[j].slot = 0 <=> s \in {"new", "slot", "ended"}
    PROVE  SlotInv'
<1>1. scan' \in [Scans -> ScanRecord]
  BY DEF SlotInv, ScanTo, ScanRecord
<1>2. /\ scan'[j].stage = s /\ scan'[j].slot = scan[j].slot
      /\ \A i \in Scans \ {j} : scan'[i] = scan[i]
  BY DEF SlotInv, ScanTo, ScanRecord
<1>3. \A i \in Scans : scan'[i].slot = scan[i].slot
  BY <1>2
<1>4. Held' = Held /\ Held \subseteq Scans
  BY <1>3 DEF Held
<1>5. \A i \in Scans : scan'[i].slot = 0 <=> scan'[i].stage \in {"new", "slot", "ended"}
  BY <1>2 DEF SlotInv
<1>6. \A i \in Held' : i \in Held /\ scan'[i].slot = scan[i].slot
  BY <1>3, <1>4
<1>. QED  BY <1>1, <1>5, <1>6 DEF SlotInv

\* A slot is put back when its job ends.
LEMMA SlotReturns ==
    ASSUME SlotInv, NEW j \in Scans, scan[j].slot # 0, UNCHANGED abandoned,
           free' = Append(free, scan[j].slot),
           scan' = [scan EXCEPT ![j] = [stage |-> "ended", slot |-> 0]]
    PROVE  SlotInv'
<1> DEFINE s == scan[j].slot
<1>1. scan[j] \in ScanRecord /\ s \in SlotIds /\ 0 \in 0..Slots
  BY PoolAssumption DEF SlotInv, ScanRecord, SlotIds
<1>2. scan' \in [Scans -> ScanRecord]
  BY <1>1 DEF SlotInv, ScanRecord
<1>3. /\ scan'[j].slot = 0 /\ scan'[j].stage = "ended"
      /\ \A i \in Scans \ {j} : scan'[i] = scan[i]
  BY DEF SlotInv
<1>4. Held' = Held \ {j} /\ j \in Held
  BY <1>3 DEF Held
<1>5. /\ free' \in Seq(SlotIds) /\ DOMAIN free = 1..Len(free) /\ DOMAIN free' = 1..(Len(free) + 1)
      /\ free'[Len(free) + 1] = s /\ Len(free) \in Nat
      /\ \A n \in 1..Len(free) : free'[n] = free[n]
  BY <1>1 DEF SlotInv
<1>6. \A n \in DOMAIN free' : n \in DOMAIN free \/ n = Len(free) + 1
  BY <1>5
<1>7. \A n \in DOMAIN free : free[n] # s
  BY <1>4 DEF SlotInv
<1>8. \A i \in Held' : scan'[i].slot # s /\ scan'[i].slot = scan[i].slot /\ i \in Held
  BY <1>3, <1>4 DEF SlotInv, Held
<1>9. \A m, n \in DOMAIN free' : m # n => free'[m] # free'[n]
  BY <1>5, <1>6, <1>7 DEF SlotInv
<1>10. \A i \in Held', n \in DOMAIN free' : free'[n] # scan'[i].slot
  BY <1>5, <1>6, <1>8 DEF SlotInv
<1>11. \A n \in DOMAIN free' : free'[n] \notin abandoned'
  BY <1>4, <1>5, <1>6 DEF SlotInv
<1>12. \A i \in Scans : scan'[i].slot = 0 <=> scan'[i].stage \in {"new", "slot", "ended"}
  BY <1>3 DEF SlotInv
<1>13. \A i, k \in Held' : i # k => scan'[i].slot # scan'[k].slot
  BY <1>8 DEF SlotInv
<1>14. \A i \in Held' : scan'[i].slot \notin abandoned'
  BY <1>8 DEF SlotInv
<1>15. abandoned' \subseteq SlotIds
  BY DEF SlotInv
<1>. QED  BY <1>2, <1>5, <1>9, <1>10, <1>11, <1>12, <1>13, <1>14, <1>15 DEF SlotInv

\* A slot is lost, or left to a thread, when its job ends.
LEMMA SlotLeft ==
    ASSUME SlotInv, NEW j \in Scans, UNCHANGED free,
           scan' = [scan EXCEPT ![j] = [stage |-> "ended", slot |-> 0]],
           abandoned' \in {abandoned, abandoned \union {scan[j].slot}},
           abandoned' # abandoned => scan[j].slot # 0
    PROVE  SlotInv'
<1>1. scan[j] \in ScanRecord /\ 0 \in 0..Slots
  BY PoolAssumption DEF SlotInv
<1>2. scan' \in [Scans -> ScanRecord]
  BY <1>1 DEF SlotInv, ScanRecord
<1>3. /\ scan'[j].slot = 0 /\ scan'[j].stage = "ended"
      /\ \A i \in Scans \ {j} : scan'[i] = scan[i]
  BY DEF SlotInv
<1>4. Held' = Held \ {j}
  BY <1>3 DEF Held
<1>5. \A i \in Held' : scan'[i].slot = scan[i].slot /\ i \in Held /\ scan'[i].slot # scan[j].slot
  BY <1>3, <1>4 DEF SlotInv, Held
<1>6. abandoned' \subseteq SlotIds
  BY <1>1 DEF SlotInv, ScanRecord, SlotIds
<1>7. \A i \in Held' : scan'[i].slot \notin abandoned'
  BY <1>5 DEF SlotInv
<1>8. \A n \in DOMAIN free : free[n] \notin abandoned'
  <2>1. CASE abandoned' = abandoned
    BY <2>1 DEF SlotInv
  <2>2. CASE abandoned' # abandoned
    <3>1. j \in Held
      BY <2>2 DEF Held
    <3>. QED  BY <2>2, <3>1 DEF SlotInv
  <2>. QED  BY <2>1, <2>2
<1>9. \A i \in Scans : scan'[i].slot = 0 <=> scan'[i].stage \in {"new", "slot", "ended"}
  BY <1>3 DEF SlotInv
<1>. QED  BY <1>2, <1>5, <1>6, <1>7, <1>8, <1>9 DEF SlotInv

LEMMA SlotTaken ==
    ASSUME SlotInv, NEW j \in Scans, CheckoutReplica(j)
    PROVE  SlotInv'
<1> DEFINE s == Head(free)
<1>1. /\ s \in SlotIds /\ Tail(free) \in Seq(SlotIds) /\ Len(Tail(free)) = Len(free) - 1
      /\ \A n \in 1..Len(Tail(free)) : Tail(free)[n] = free[n + 1]
  BY HeadTailProperties DEF SlotInv, CheckoutReplica
<1>2. /\ DOMAIN free = 1..Len(free) /\ Len(free) \in Nat \ {0} /\ s = free[1]
      /\ DOMAIN Tail(free) = 1..(Len(free) - 1)
  BY <1>1 DEF SlotInv, CheckoutReplica
<1>3. PICK g \in {"lock", "scanning"} : scan' = [scan EXCEPT ![j] = [stage |-> g, slot |-> s]]
  BY DEF CheckoutReplica
<1>4. free' = Tail(free) /\ abandoned' = abandoned /\ scan[j].slot = 0
  BY DEF CheckoutReplica, SlotInv
<1>5. s # 0 /\ s \in 0..Slots
  BY <1>1, PoolAssumption DEF SlotIds
<1>6. scan' \in [Scans -> ScanRecord]
  BY <1>3, <1>5 DEF SlotInv, ScanRecord
<1>7. /\ scan'[j].slot = s /\ scan'[j].stage = g
      /\ \A i \in Scans \ {j} : scan'[i] = scan[i]
  BY <1>3 DEF SlotInv
<1>8. Held' = Held \union {j} /\ j \notin Held
  BY <1>4, <1>5, <1>7 DEF Held
<1> HIDE DEF s
<1>9. \A n \in DOMAIN free' : /\ n \in DOMAIN free /\ n + 1 \in DOMAIN free /\ free'[n] = free[n + 1]
                              /\ free'[n] # s
  BY <1>1, <1>2, <1>4 DEF SlotInv
<1>10. \A i \in Held : i # j /\ scan'[i] = scan[i] /\ scan[i].slot # s
  BY <1>2, <1>7, <1>8 DEF SlotInv, Held
<1>11. \A i, k \in Held' : i # k => scan'[i].slot # scan'[k].slot
  BY <1>7, <1>8, <1>10 DEF SlotInv
<1>12. \A i \in Held', n \in DOMAIN free' : free'[n] # scan'[i].slot
  BY <1>7, <1>8, <1>9, <1>10 DEF SlotInv
<1>13. \A m, n \in DOMAIN free' : m # n => free'[m] # free'[n]
  BY <1>2, <1>4, <1>9 DEF SlotInv
<1>14. \A i \in Held' : scan'[i].slot \notin abandoned'
  BY <1>2, <1>4, <1>7, <1>8, <1>10 DEF SlotInv
<1>15. \A n \in DOMAIN free' : free'[n] \notin abandoned'
  BY <1>4, <1>9 DEF SlotInv
<1>16. \A i \in Scans : scan'[i].slot = 0 <=> scan'[i].stage \in {"new", "slot", "ended"}
  BY <1>5, <1>7 DEF SlotInv
<1>17. free' \in Seq(SlotIds) /\ abandoned' \subseteq SlotIds
  BY <1>1, <1>4 DEF SlotInv
<1>. QED  BY <1>6, <1>11, <1>12, <1>13, <1>14, <1>15, <1>16, <1>17 DEF SlotInv

LEMMA CancelKeepsSlots ==
    ASSUME SlotInv, NEW j \in Scans, CancelScan(j)
    PROVE  SlotInv'
<1>1. j \in Busy /\ scan' = [scan EXCEPT ![j] = [stage |-> "ended", slot |-> 0]]
  BY DEF CancelScan
<1>2. CASE scan[j].stage = "scanning"
  <2>1. scan[j].slot # 0 /\ free' = Append(free, scan[j].slot) /\ UNCHANGED abandoned
    BY <1>2 DEF CancelScan, ReturnedOnCancel, SlotInv
  <2>. QED  BY <1>1, <2>1, SlotReturns
<1>3. CASE scan[j].stage # "scanning"
  <2>1. UNCHANGED free
    BY <1>3 DEF CancelScan, ReturnedOnCancel
  <2>2. abandoned' = IF scan[j].stage = "copying" THEN abandoned \union {scan[j].slot} ELSE abandoned
    BY DEF CancelScan
  <2>3. scan[j].stage = "copying" => scan[j].slot # 0
    BY DEF SlotInv
  <2>. QED  BY <1>1, <2>1, <2>2, <2>3, SlotLeft
<1>. QED  BY <1>2, <1>3

LEMMA AllSlotsFree == free = AllSlots /\ abandoned = {} /\ scan = [j \in Scans |-> Fresh] => SlotInv
<1> SUFFICES ASSUME free = AllSlots, abandoned = {}, scan = [j \in Scans |-> Fresh] PROVE SlotInv
  OBVIOUS
<1>1. /\ AllSlots \in Seq(SlotIds) /\ DOMAIN AllSlots = SlotIds
      /\ \A n \in SlotIds : AllSlots[n] = n
  BY PoolAssumption DEF AllSlots, SlotIds
<1>2. \A j \in Scans : scan[j].slot = 0 /\ scan[j].stage = "new"
  BY DEF Fresh
<1>3. scan \in [Scans -> ScanRecord] /\ Held = {}
  BY <1>2, PoolAssumption DEF Fresh, ScanRecord, Held
<1>. QED  BY <1>1, <1>2, <1>3 DEF SlotInv

LEMMA AllSlotsFreeNext ==
    (free = AllSlots /\ abandoned = {} /\ scan = [j \in Scans |-> Fresh])' => SlotInv'
  BY AllSlotsFree, PTL

LEMMA SlotsStep == SlotInv /\ [ReplicasNext]_replicaVars => SlotInv'
<1> SUFFICES ASSUME SlotInv, [ReplicasNext]_replicaVars PROVE SlotInv'
  OBVIOUS
<1>1. ASSUME NEW j \in Scans,
             ScanImage(j) \/ RefreshReplica(j) \/ RefreshDone(j)
      PROVE  SlotInv'
  <2>1. PICK s \in {"slot", "copying", "scanning"} : ScanTo(j, s)
    BY <1>1 DEF ScanImage, RefreshReplica, RefreshDone
  <2>2. scan[j].slot = 0 <=> scan[j].stage \in {"new", "slot", "ended"}
    BY DEF SlotInv
  <2>3. scan[j].slot = 0 <=> s \in {"new", "slot", "ended"}
    <3>1. scan' = [scan EXCEPT ![j].stage = s] /\ scan[j] \in ScanRecord
      BY <2>1 DEF ScanTo, SlotInv
    <3>2. scan'[j].stage = s
      BY <3>1 DEF ScanRecord, SlotInv
    <3>3. ScanImage(j) => scan[j].stage = "new" /\ scan'[j].stage = "slot"
      BY <3>1 DEF ScanImage, ScanTo, ScanRecord, SlotInv
    <3>4. RefreshReplica(j) => scan[j].stage = "lock" /\ scan'[j].stage \in {"copying", "scanning"}
      BY <3>1 DEF RefreshReplica, ScanTo, ScanRecord, SlotInv
    <3>5. RefreshDone(j) => scan[j].stage = "copying" /\ scan'[j].stage = "scanning"
      BY <3>1 DEF RefreshDone, ScanTo, ScanRecord, SlotInv
    <3>. QED  BY <1>1, <2>2, <3>2, <3>3, <3>4, <3>5
  <2>4. UNCHANGED <<free, abandoned>>
    BY <1>1 DEF ScanImage, RefreshReplica, RefreshDone
  <2>. QED  BY <2>1, <2>3, <2>4, StageMoves
<1>2. ASSUME NEW j \in Scans, AskScan(j) PROVE SlotInv'
  <2>1. scan[j] \in ScanRecord /\ scan[j].stage = "ended" /\ scan[j].slot = 0
    BY <1>2 DEF AskScan, SlotInv
  <2>2. Fresh = [scan[j] EXCEPT !.stage = "new"]
    BY <2>1 DEF Fresh, ScanRecord
  <2>3. ScanTo(j, "new") /\ UNCHANGED <<free, abandoned>>
    BY <1>2, <2>2 DEF AskScan, ScanTo
  <2>. QED  BY <2>1, <2>3, StageMoves
<1>3. ASSUME NEW j \in Scans, RefreshFails(j) \/ CheckinReplica(j) PROVE SlotInv'
  <2>1. scan[j].stage \in {"copying", "scanning"}
    BY <1>3 DEF RefreshFails, CheckinReplica
  <2>2. scan[j].slot # 0
    BY <2>1 DEF SlotInv
  <2>3. /\ UNCHANGED abandoned /\ free' = Append(free, scan[j].slot)
        /\ scan' = [scan EXCEPT ![j] = [stage |-> "ended", slot |-> 0]]
    BY <1>3 DEF RefreshFails, CheckinReplica
  <2>. QED  BY <2>2, <2>3, SlotReturns
<1>4. CASE \E j \in Scans : CheckoutReplica(j) \/ CancelScan(j)
  BY <1>4, SlotTaken, CancelKeepsSlots
<1>5. CASE Restart
  <2>1. free' = AllSlots /\ abandoned' = {} /\ scan' = [j \in Scans |-> Fresh]
    BY <1>5 DEF Restart
  <2>. QED  BY <2>1, AllSlotsFreeNext
<1>6. CASE \/ \E w \in Writers : BeginWrite(w) \/ EndWrite(w)
           \/ \E s \in SlotIds : OrphanExits(s)
           \/ UNCHANGED replicaVars
  <2>1. UNCHANGED <<free, scan, abandoned>>
    BY <1>6 DEF BeginWrite, EndWrite, OrphanExits, replicaVars
  <2>. QED  BY <2>1 DEF SlotInv, Held
<1>7. CASE \E s \in SlotIds : AbandonedCopyEnds(s)
  <2>1. UNCHANGED <<free, scan>> /\ abandoned' \subseteq abandoned
    BY <1>7 DEF AbandonedCopyEnds
  <2>. QED  BY <2>1 DEF SlotInv, Held
<1>. QED  BY <1>1, <1>2, <1>3, <1>4, <1>5, <1>6, <1>7 DEF ReplicasNext

LEMMA LockStep == SlotInv /\ LockInv /\ [ReplicasNext]_replicaVars => LockInv'
<1> SUFFICES ASSUME SlotInv, LockInv, [ReplicasNext]_replicaVars PROVE LockInv'
  OBVIOUS
<1>1. ASSUME NEW j \in Scans, NEW s \in {"slot", "scanning", "ended", "new", "lock"}, NEW n,
             scan' = [scan EXCEPT ![j] = [stage |-> s, slot |-> n]] \/ ScanTo(j, s),
             UNCHANGED writer, lock' \in {lock, Nobody}, lock' # lock => lock = j
      PROVE  LockInv'
  <2>1. \A i \in Scans : scan'[i].stage = "copying" => i # j /\ scan[i].stage = "copying"
    BY <1>1 DEF ScanTo, SlotInv, ScanRecord
  <2>2. \A i \in Scans : scan'[i].stage = "copying" => lock' = i
    BY <1>1, <2>1 DEF LockInv
  <2>3. \A w \in Writers : writer'[w] = "writing" => lock' = w
    BY <1>1, NobodyAssumption DEF LockInv
  <2>. QED  BY <1>1, <2>2, <2>3 DEF LockInv
<1>2. ASSUME NEW j \in Scans, ScanImage(j) \/ CheckoutReplica(j) \/ CheckinReplica(j) \/ AskScan(j)
      PROVE  LockInv'
  <2>1. UNCHANGED <<writer, lock>>
    BY <1>2 DEF ScanImage, CheckoutReplica, CheckinReplica, AskScan
  <2>2. \E s \in {"slot", "scanning", "ended", "new", "lock"} :
          (\E n : scan' = [scan EXCEPT ![j] = [stage |-> s, slot |-> n]]) \/ ScanTo(j, s)
    BY <1>2 DEF ScanImage, CheckoutReplica, CheckinReplica, AskScan, Fresh
  <2>. QED  BY <1>1, <2>1, <2>2
<1>3. ASSUME NEW j \in Scans, RefreshReplica(j) PROVE LockInv'
  <2>1. CASE ReplicaStale(scan[j].slot)
    <3>1. lock = Nobody /\ lock' = j /\ ScanTo(j, "copying") /\ UNCHANGED writer
      BY <1>3, <2>1 DEF RefreshReplica
    <3>2. \A i \in Scans \ {j} : scan'[i].stage # "copying"
      BY <3>1, NobodyAssumption DEF LockInv, ScanTo, SlotInv
    <3>3. \A w \in Writers : writer[w] # "writing"
      BY <3>1, NobodyAssumption DEF LockInv
    <3>. QED  BY <3>1, <3>2, <3>3 DEF LockInv
  <2>2. CASE ~ReplicaStale(scan[j].slot)
    <3>1. ScanTo(j, "scanning") /\ UNCHANGED <<lock, writer>>
      BY <1>3, <2>2 DEF RefreshReplica
    <3>. QED  BY <1>1, <3>1
  <2>. QED  BY <2>1, <2>2
<1>4. ASSUME NEW j \in Scans, RefreshDone(j) \/ RefreshFails(j) PROVE LockInv'
  <2>1. scan[j].stage = "copying" /\ lock' = Nobody /\ UNCHANGED writer
    BY <1>4 DEF RefreshDone, RefreshFails
  <2>2. lock = j
    BY <2>1 DEF LockInv
  <2>3. ScanTo(j, "scanning") \/ scan' = [scan EXCEPT ![j] = [stage |-> "ended", slot |-> 0]]
    BY <1>4 DEF RefreshDone, RefreshFails
  <2>. QED  BY <1>1, <2>1, <2>2, <2>3
<1>5. ASSUME NEW j \in Scans, CancelScan(j) PROVE LockInv'
  <2>1. /\ scan' = [scan EXCEPT ![j] = [stage |-> "ended", slot |-> 0]] /\ UNCHANGED writer
        /\ lock' = IF lock = j THEN Nobody ELSE lock
    BY <1>5 DEF CancelScan
  <2>. QED  BY <1>1, <2>1
<1>6. ASSUME NEW w \in Writers, BeginWrite(w) PROVE LockInv'
  <2>1. /\ lock = Nobody /\ lock' = w /\ writer' = [writer EXCEPT ![w] = "writing"] /\ UNCHANGED scan
    BY <1>6 DEF BeginWrite, LockForWrite
  <2>2. (\A i \in Scans : scan[i].stage # "copying") /\ (\A v \in Writers : writer[v] # "writing")
    BY <2>1, NobodyAssumption DEF LockInv
  <2>. QED  BY <2>1, <2>2 DEF LockInv
<1>7. ASSUME NEW w \in Writers, EndWrite(w) PROVE LockInv'
  <2>1. /\ lock = w /\ lock' = Nobody /\ writer' = [writer EXCEPT ![w] = "idle"] /\ UNCHANGED scan
    BY <1>7 DEF EndWrite, LockInv
  <2>2. \A i \in Scans : scan[i].stage # "copying"
    BY <2>1, NobodyAssumption DEF LockInv
  <2>3. \A v \in Writers \ {w} : writer[v] # "writing"
    BY <2>1 DEF LockInv
  <2>. QED  BY <2>1, <2>2, <2>3 DEF LockInv
<1>8. CASE Restart
  BY <1>8 DEF Restart, LockInv, Fresh
<1>9. CASE \/ \E s \in SlotIds : AbandonedCopyEnds(s) \/ OrphanExits(s)
           \/ UNCHANGED replicaVars
  <2>1. UNCHANGED <<lock, scan, writer>>
    BY <1>9 DEF AbandonedCopyEnds, OrphanExits, replicaVars
  <2>. QED  BY <2>1 DEF LockInv
<1>. QED  BY <1>2, <1>3, <1>4, <1>5, <1>6, <1>7, <1>8, <1>9 DEF ReplicasNext

LEMMA ReplicasStart == ReplicasInit => SlotInv /\ LockInv
<1> SUFFICES ASSUME ReplicasInit PROVE SlotInv /\ LockInv
  OBVIOUS
<1>1. SlotInv
  BY AllSlotsFree DEF ReplicasInit
<1>2. LockInv
  BY DEF ReplicasInit, LockInv, Fresh
<1>. QED  BY <1>1, <1>2

LEMMA ReplicasSound == SlotInv /\ LockInv => FilesAreExclusive
<1> SUFFICES ASSUME SlotInv, LockInv PROVE FilesAreExclusive
  OBVIOUS
<1>1. ReplicaIsPrivate
  <2>1. ASSUME NEW j \in Held, scan[j].stage = "scanning"
        PROVE  scan[j].slot \notin Copying \union abandoned
    <3>1. ASSUME NEW i \in Scans, scan[i].stage = "copying" PROVE scan[i].slot # scan[j].slot
      BY <2>1, <3>1 DEF SlotInv, Held
    <3>. QED  BY <3>1 DEF Copying, SlotInv
  <2>. QED  BY <2>1 DEF ReplicaIsPrivate, SlotInv
<1>2. WritesExcludeCopies
  BY NobodyAssumption DEF WritesExcludeCopies, LockInv
<1>. QED  BY <1>1, <1>2 DEF FilesAreExclusive

-----------------------------------------------------------------------------
(* The download.  A file that is there has bytes of its own registry only, *)
(* and a handle that is open on a name is open on a file that is there.    *)

PieceOf(m) == {Hole} \union ({m} \X Nat \X Nat)
Sound(f, m) == f = Absent \/ f \in Seq(PieceOf(m))

PullRecord ==
    [stage : {"idle", "resolving", "pulling", "streaming", "pulled"}, try : DOMAIN Mirrors,
     build : Nat, done : Nat, pos : Nat, on : {"none", "partial", "archive", "gone"},
     mode : {"none", "write", "append"}]

Handle(q, part0, arch0) ==
    /\ q.on # "none" => q.stage = "streaming"
    /\ q.on = "partial" => part0[Mirrors[q.try]] # Absent
    /\ q.on = "archive" => arch0[Mirrors[q.try]] # Absent

FilesInv ==
    /\ DOMAIN partial = Registries /\ DOMAIN archive = Registries
    /\ partial = [m \in Registries |-> partial[m]] /\ archive = [m \in Registries |-> archive[m]]
    /\ \A m \in Registries : Sound(partial[m], m) /\ Sound(archive[m], m)
PullsInv ==
    /\ published \in Nat
    /\ pull \in [Pullers -> PullRecord]
    /\ \A p \in Pullers : Handle(pull[p], partial, archive)
DownloadInv == FilesInv /\ PullsInv

LEMMA PieceIsNotAbsent ==
    ASSUME NEW m, NEW f \in Seq(PieceOf(m))
    PROVE  f # Absent
<1> SUFFICES ASSUME f = Absent PROVE FALSE
  OBVIOUS
<1>1. Len(f) = 1 /\ f[1] = <<"absent">>
  BY DEF Absent
<1>2. f[1] \in PieceOf(m)
  BY <1>1
<1>3. <<"absent">> # Hole
  BY DEF Hole
<1>4. <<"absent">> \notin {m} \X Nat \X Nat
  OBVIOUS
<1>. QED  BY <1>1, <1>2, <1>3, <1>4 DEF PieceOf

\* Where a job is, is a registry.
LEMMA HereIsARegistry ==
    ASSUME DownloadInv, NEW p \in Pullers
    PROVE  /\ Here(p) \in Registries /\ Dest(p) = Here(p) /\ pull[p] \in PullRecord
           /\ Handle(pull[p], partial, archive) /\ Here(p) = Mirrors[pull[p].try]
  BY DEF DownloadInv, PullsInv, PullRecord, Here, Dest, FileOf, Registries

LEMMA MirrorsAreThere == 1 \in DOMAIN Mirrors /\ DOMAIN Mirrors = 1..Len(Mirrors) /\ Len(Mirrors) \in Nat
  BY MirrorsAssumption

LEMMA IdleRecord == Idle \in PullRecord /\ \A s, t : Handle(Idle, s, t)
  BY MirrorsAreThere DEF Idle, PullRecord, Handle

\* Only the job itself moves, and the files stay.
LEMMA PullMoves ==
    ASSUME DownloadInv, NEW p \in Pullers, NEW q \in PullRecord, pull' = [pull EXCEPT ![p] = q],
           Handle(q, partial, archive), UNCHANGED <<partial, archive>>, published' \in Nat
    PROVE  DownloadInv'
<1>1. pull' \in [Pullers -> PullRecord]
  BY DEF DownloadInv, PullsInv
<1>2. \A x \in Pullers : Handle(pull'[x], partial', archive')
  BY DEF DownloadInv, PullsInv
<1>3. FilesInv'
  BY DEF DownloadInv, FilesInv, Sound
<1>. QED  BY <1>1, <1>2, <1>3 DEF DownloadInv, PullsInv

LEMMA NextMirrorKeeps ==
    ASSUME DownloadInv, NEW p \in Pullers, NextMirror(p), UNCHANGED <<partial, archive, published>>
    PROVE  DownloadInv'
<1>1. pull[p].try \in 1..Len(Mirrors) /\ Len(Mirrors) \in Nat
  BY HereIsARegistry, MirrorsAreThere DEF PullRecord
<1>2. published' \in Nat
  BY DEF DownloadInv, PullsInv
<1>3. CASE pull[p].try < Len(Mirrors)
  <2> DEFINE q == [Idle EXCEPT !.stage = "resolving", !.try = pull[p].try + 1]
  <2>1. pull[p].try + 1 \in DOMAIN Mirrors
    BY <1>1, <1>3, MirrorsAreThere
  <2>2. q \in PullRecord /\ q.on = "none"
    BY <2>1, IdleRecord DEF PullRecord, Idle
  <2>3. pull' = [pull EXCEPT ![p] = q]
    BY <1>3 DEF NextMirror
  <2>. QED  BY <1>2, <2>2, <2>3, PullMoves DEF Handle
<1>4. CASE ~(pull[p].try < Len(Mirrors))
  BY <1>2, <1>4, IdleRecord, PullMoves DEF NextMirror
<1>. QED  BY <1>3, <1>4

\* Steps that leave the files alone.
LEMMA QuietKeeps ==
    ASSUME DownloadInv, NEW p \in Pullers,
           \/ StartPull(p) \/ ResolveFails(p) \/ ChunkDone(p) \/ Dropped(p) \/ DeadlinePassed(p)
           \/ CancelPull(p)
    PROVE  DownloadInv'
<1> DEFINE q == pull[p]
<1>1. /\ UNCHANGED <<partial, archive, published>> /\ published' \in Nat /\ q \in PullRecord
      /\ Handle(q, partial, archive)
  BY HereIsARegistry DEF DownloadInv, PullsInv, StartPull, ResolveFails, ChunkDone, Dropped,
     DeadlinePassed, CancelPull
<1>2. CASE StartPull(p)
  <2> DEFINE n == [Idle EXCEPT !.stage = "resolving"]
  <2>1. n \in PullRecord /\ n.on = "none"
    BY IdleRecord DEF PullRecord, Idle
  <2>. QED  BY <1>1, <1>2, <2>1, PullMoves DEF StartPull, Handle
<1>3. CASE ResolveFails(p) \/ DeadlinePassed(p)
  BY <1>1, <1>3, NextMirrorKeeps DEF ResolveFails, DeadlinePassed
<1>4. CASE ChunkDone(p)
  <2> DEFINE n == [q EXCEPT !.stage = "pulling", !.done = q.pos, !.on = "none"]
  <2>1. n \in PullRecord /\ n.on = "none"
    BY <1>1 DEF PullRecord
  <2>2. pull' = [pull EXCEPT ![p] = n]
    BY <1>4 DEF ChunkDone
  <2>. QED  BY <1>1, <2>1, <2>2, PullMoves DEF Handle
<1>5. CASE Dropped(p)
  <2> DEFINE n == [q EXCEPT !.stage = "pulling", !.on = "none"]
  <2>1. n \in PullRecord /\ n.on = "none"
    BY <1>1 DEF PullRecord
  <2>2. pull' = [pull EXCEPT ![p] = n]
    BY <1>5 DEF Dropped, Goto
  <2>. QED  BY <1>1, <2>1, <2>2, PullMoves DEF Handle
<1>6. CASE CancelPull(p)
  BY <1>1, <1>6, IdleRecord, PullMoves DEF CancelPull
<1>. QED  BY <1>2, <1>3, <1>4, <1>5, <1>6

LEMMA RenamedFacts ==
    ASSUME NEW q \in PullRecord, NEW f, NEW from \in {"partial", "archive"},
           NEW to \in {"archive", "gone"}
    PROVE  /\ Renamed(q, f, from, to) \in PullRecord
           /\ Renamed(q, f, from, to).stage = q.stage /\ Renamed(q, f, from, to).try = q.try
           /\ Renamed(q, f, from, to).on = IF q.on = from /\ Mirrors[q.try] = f THEN to ELSE q.on
<1>1. CASE q.on = from /\ Mirrors[q.try] = f
  <2>1. Renamed(q, f, from, to) = [q EXCEPT !.on = to]
    BY <1>1 DEF Renamed
  <2>. QED  BY <1>1, <2>1 DEF PullRecord
<1>2. CASE ~(q.on = from /\ Mirrors[q.try] = f)
  <2>1. Renamed(q, f, from, to) = q
    BY <1>2, Zenon DEF Renamed
  <2>. QED  BY <1>2, <2>1
<1>. QED  BY <1>1, <1>2

\* New files under the same names.
LEMMA FilesStored ==
    ASSUME DownloadInv, NEW f \in Registries, NEW a1, NEW a2, Sound(a1, f), Sound(a2, f),
           partial' = [partial EXCEPT ![f] = a1], archive' = [archive EXCEPT ![f] = a2]
    PROVE  /\ FilesInv' /\ partial'[f] = a1 /\ archive'[f] = a2
           /\ \A m \in Registries : m # f => partial'[m] = partial[m] /\ archive'[m] = archive[m]
<1>1. /\ DOMAIN partial' = Registries /\ DOMAIN archive' = Registries
      /\ partial' = [m \in Registries |-> partial'[m]] /\ archive' = [m \in Registries |-> archive'[m]]
      /\ partial'[f] = a1 /\ archive'[f] = a2
      /\ \A m \in Registries : m # f => partial'[m] = partial[m] /\ archive'[m] = archive[m]
  BY DEF DownloadInv, FilesInv
<1>2. \A m \in Registries : Sound(partial'[m], m) /\ Sound(archive'[m], m)
  BY <1>1 DEF DownloadInv, FilesInv
<1>. QED  BY <1>1, <1>2 DEF FilesInv, Sound

LEMMA SameFile == ASSUME DownloadInv, NEW f \in Registries
                  PROVE  /\ partial = [partial EXCEPT ![f] = partial[f]]
                         /\ archive = [archive EXCEPT ![f] = archive[f]]
                         /\ Sound(partial[f], f) /\ Sound(archive[f], f) /\ Sound(Absent, f)
  BY DEF DownloadInv, FilesInv, Sound

LEMMA LengthIsNat == ASSUME NEW m, NEW f, Sound(f, m) PROVE Length(f) \in Nat
  BY DEF Sound, Length

\* All handles as they are after the step, given the files as they are then.
LEMMA PullsStored ==
    ASSUME DownloadInv, FilesInv', published' \in Nat, pull' = [x \in Pullers |-> pull'[x]],
           \A x \in Pullers : pull'[x] \in PullRecord /\ Handle(pull'[x], partial', archive')
    PROVE  DownloadInv'
<1>1. pull' \in [Pullers -> PullRecord]
  OBVIOUS
<1>2. PullsInv'
  BY <1>1 DEF PullsInv
<1>. QED  BY <1>2 DEF DownloadInv

LEMMA ResolveKeeps ==
    ASSUME DownloadInv, NEW p \in Pullers, ResolveOciBlob(p)
    PROVE  DownloadInv'
<1> DEFINE f == Dest(p)
           held == Length(partial[f])
           stale == held > SizeOf(published)
           mine == [pull[p] EXCEPT !.stage = "pulling", !.build = published,
                                   !.done = IF stale THEN 0 ELSE held]
<1>1. /\ f \in Registries /\ f = Here(p) /\ pull[p] \in PullRecord /\ published \in Nat
      /\ pull[p].on = "none" /\ held \in Nat /\ Mirrors[pull[p].try] = f
  <2>1. pull[p].stage = "resolving"
    BY DEF ResolveOciBlob
  <2>2. f \in Registries /\ f = Here(p) /\ pull[p] \in PullRecord /\ Handle(pull[p], partial, archive)
    BY HereIsARegistry
  <2>3. pull[p].on = "none"
    BY <2>1, <2>2 DEF Handle
  <2>. QED  BY <2>2, <2>3, HereIsARegistry, SameFile, LengthIsNat DEF DownloadInv, PullsInv
<1>2. /\ UNCHANGED <<published, archive>>
      /\ partial' = IF stale THEN [partial EXCEPT ![f] = Absent] ELSE partial
      /\ pull' = [q \in Pullers |->
             IF q = p THEN mine
             ELSE IF stale THEN Renamed(pull[q], f, "partial", "gone") ELSE pull[q]]
  BY DEF ResolveOciBlob
<1>3. mine \in PullRecord /\ mine.on = "none"
  <2>1. (IF stale THEN 0 ELSE held) \in Nat
    BY <1>1
  <2>. QED  BY <1>1, <2>1 DEF PullRecord
<1> HIDE DEF mine
<1>4. CASE stale
  <2> HIDE DEF f, stale
  <2>1. /\ FilesInv' /\ partial'[f] = Absent /\ archive' = archive
        /\ \A m \in Registries : m # f => partial'[m] = partial[m]
    BY <1>1, <1>2, <1>4, FilesStored, SameFile
  <2>2. ASSUME NEW x \in Pullers PROVE pull'[x] \in PullRecord /\ Handle(pull'[x], partial', archive')
    <3>1. CASE x = p
      BY <1>2, <1>3, <3>1 DEF Handle
    <3>2. CASE x # p
      <4>1. pull'[x] = Renamed(pull[x], f, "partial", "gone")
        BY <1>2, <1>4, <3>2
      <4>2. /\ pull[x] \in PullRecord /\ Handle(pull[x], partial, archive)
            /\ Mirrors[pull[x].try] \in Registries
        BY HereIsARegistry
      <4>. QED  BY <2>1, <4>1, <4>2, RenamedFacts DEF Handle
    <3>. QED  BY <3>1, <3>2
  <2>3. pull' = [x \in Pullers |-> pull'[x]]
    BY <1>2
  <2>. QED  BY <1>1, <1>2, <2>1, <2>2, <2>3, PullsStored
<1>5. CASE ~stale
  <2>1. pull' = [pull EXCEPT ![p] = mine] /\ UNCHANGED <<partial, archive>>
    BY <1>2, <1>5 DEF DownloadInv, PullsInv
  <2>. QED  BY <1>1, <1>2, <1>3, <2>1, PullMoves DEF Handle
<1>. QED  BY <1>4, <1>5

LEMMA OpenKeeps ==
    ASSUME DownloadInv, NEW p \in Pullers, OpenStream(p)
    PROVE  DownloadInv'
<1> DEFINE f == Dest(p)
<1>1. /\ f \in Registries /\ pull[p] \in PullRecord /\ Mirrors[pull[p].try] = f
  BY HereIsARegistry
<1>2. PICK start \in {0, pull[p].done} :
        /\ partial' = IF start = 0 \/ partial[f] = Absent THEN [partial EXCEPT ![f] = <<>>] ELSE partial
        /\ pull' = [pull EXCEPT ![p].stage = "streaming", ![p].pos = start, ![p].on = "partial",
                                ![p].mode = IF start = 0 THEN "write" ELSE "append"]
  BY Zenon DEF OpenStream
<1> DEFINE mode == IF start = 0 THEN "write" ELSE "append"
           mine == [pull[p] EXCEPT !.stage = "streaming", !.pos = start, !.on = "partial", !.mode = mode]
<1>3. /\ mine \in PullRecord /\ mine.on = "partial" /\ mine.stage = "streaming" /\ mine.try = pull[p].try
  <2>1. mode \in {"none", "write", "append"}
    OBVIOUS
  <2>2. start \in Nat
    BY <1>1, <1>2 DEF PullRecord
  <2> HIDE DEF mode
  <2>. QED  BY <1>1, <2>1, <2>2 DEF PullRecord
<1>4. pull' = [pull EXCEPT ![p] = mine]
  BY <1>2
<1>5. UNCHANGED <<published, archive>> /\ published' \in Nat
  BY DEF OpenStream, DownloadInv, PullsInv
<1> HIDE DEF mine
<1>6. CASE start = 0 \/ partial[f] = Absent
  <2>1. Sound(<<>>, f) /\ <<>> # Absent
    <3>1. <<>> \in Seq(PieceOf(f))
      OBVIOUS
    <3>2. Sound(<<>>, f)
      BY <3>1 DEF Sound
    <3>. QED  BY <3>1, <3>2, PieceIsNotAbsent
  <2> HIDE DEF f
  <2>2. /\ FilesInv' /\ partial'[f] = <<>> /\ archive' = archive
        /\ \A m \in Registries : m # f => partial'[m] = partial[m]
    BY <1>1, <1>2, <1>5, <1>6, <2>1, FilesStored, SameFile
  <2>3. ASSUME NEW x \in Pullers PROVE pull'[x] \in PullRecord /\ Handle(pull'[x], partial', archive')
    <3>1. CASE x = p
      <4>1. pull'[x] = mine
        BY <1>4, <3>1 DEF DownloadInv, PullsInv
      <4>. QED  BY <1>1, <1>3, <2>1, <2>2, <4>1 DEF Handle
    <3>2. CASE x # p
      <4>1. pull'[x] = pull[x]
        BY <1>4, <3>2 DEF DownloadInv, PullsInv
      <4>2. /\ pull[x] \in PullRecord /\ Handle(pull[x], partial, archive)
            /\ Mirrors[pull[x].try] \in Registries
        BY HereIsARegistry
      <4>. QED  BY <2>1, <2>2, <4>1, <4>2 DEF Handle
    <3>. QED  BY <3>1, <3>2
  <2>4. pull' = [x \in Pullers |-> pull'[x]]
    BY <1>4 DEF DownloadInv, PullsInv
  <2>. QED  BY <1>5, <2>2, <2>3, <2>4, PullsStored
<1>7. CASE ~(start = 0 \/ partial[f] = Absent)
  <2>1. UNCHANGED <<partial, archive>> /\ partial[f] # Absent
    BY <1>2, <1>5, <1>7
  <2>2. Handle(mine, partial, archive)
    BY <1>1, <1>3, <2>1 DEF Handle
  <2>. QED  BY <1>3, <1>4, <1>5, <2>1, <2>2, PullMoves
<1>. QED  BY <1>6, <1>7

\* What is written is the registry's own.
LEMMA WrittenIsSound ==
    ASSUME NEW m, NEW f \in Seq(PieceOf(m)), NEW b \in Nat, NEW q, q.pos \in Nat,
           NEW k \in Nat
    PROVE  Written(f, q, <<m, b, k>>) \in Seq(PieceOf(m))
<1>1. <<m, b, k>> \in PieceOf(m) /\ Hole \in PieceOf(m)
  BY DEF PieceOf
<1>2. Append(f, <<m, b, k>>) \in Seq(PieceOf(m))
  BY <1>1
<1>3. WriteAt(f, q.pos + 1, <<m, b, k>>) \in Seq(PieceOf(m))
  <2> DEFINE i == q.pos + 1
             piece == <<m, b, k>>
             n == IF i > Len(f) THEN i ELSE Len(f)
             e(x) == IF x = i THEN piece ELSE IF x <= Len(f) THEN f[x] ELSE Hole
  <2>1. n \in Nat /\ Len(f) \in Nat /\ i \in Nat
    OBVIOUS
  <2>2. WriteAt(f, i, piece) = [x \in 1..n |-> e(x)]
    BY DEF WriteAt
  <2>3. \A x \in 1..n : e(x) \in PieceOf(m)
    <3> SUFFICES ASSUME NEW x \in 1..n PROVE e(x) \in PieceOf(m)
      OBVIOUS
    <3>1. x <= Len(f) => x \in 1..Len(f)
      BY <2>1
    <3>2. x <= Len(f) => f[x] \in PieceOf(m)
      BY <3>1
    <3> HIDE DEF piece, i
    <3>. QED  BY <1>1, <3>2 DEF piece
  <2> HIDE DEF n, e
  <2>4. [x \in 1..n |-> e(x)] \in Seq(PieceOf(m))
    BY <2>1, <2>3
  <2>. QED  BY <2>2, <2>4
<1>. QED  BY <1>2, <1>3 DEF Written

LEMMA ReceiveKeeps ==
    ASSUME DownloadInv, NEW p \in Pullers, ReceiveChunk(p)
    PROVE  DownloadInv'
<1> DEFINE q == pull[p]
           f == Dest(p)
           piece == <<Here(p), q.build, q.pos + 1>>
           mine == [q EXCEPT !.pos = @ + 1]
           part0 == IF q.on = "partial" THEN Written(partial[f], q, piece) ELSE partial[f]
           arch0 == IF q.on = "archive" THEN Written(archive[f], q, piece) ELSE archive[f]
<1>1. /\ f \in Registries /\ q \in PullRecord /\ Handle(q, partial, archive) /\ Mirrors[q.try] = f
      /\ Here(p) = f
  BY HereIsARegistry
<1>2. /\ UNCHANGED published /\ published' \in Nat /\ pull' = [pull EXCEPT ![p] = mine]
      /\ partial' = IF q.on = "partial" THEN [partial EXCEPT ![f] = Written(@, q, piece)] ELSE partial
      /\ archive' = IF q.on = "archive" THEN [archive EXCEPT ![f] = Written(@, q, piece)] ELSE archive
  BY DEF ReceiveChunk, DownloadInv, PullsInv
<1>3. /\ mine \in PullRecord /\ mine.on = q.on /\ mine.stage = q.stage /\ mine.try = q.try
  BY <1>1 DEF PullRecord
<1>4. /\ Sound(partial[f], f) /\ Sound(archive[f], f)
      /\ partial = [partial EXCEPT ![f] = partial[f]] /\ archive = [archive EXCEPT ![f] = archive[f]]
  BY <1>1, SameFile
<1>5. q.build \in Nat /\ q.pos \in Nat /\ q.pos + 1 \in Nat
  BY <1>1 DEF PullRecord
<1>6. q.on = "partial" => part0 \in Seq(PieceOf(f))
  BY <1>1, <1>4, <1>5, WrittenIsSound DEF Handle, Sound
<1>7. q.on = "archive" => arch0 \in Seq(PieceOf(f))
  BY <1>1, <1>4, <1>5, WrittenIsSound DEF Handle, Sound
<1>8. partial' = [partial EXCEPT ![f] = part0] /\ archive' = [archive EXCEPT ![f] = arch0]
  BY <1>2, <1>4
<1>9. /\ Sound(part0, f) /\ (partial[f] # Absent => part0 # Absent)
      /\ Sound(arch0, f) /\ (archive[f] # Absent => arch0 # Absent)
  BY <1>4, <1>6, <1>7, PieceIsNotAbsent DEF Sound
<1> HIDE DEF mine, part0, arch0, f, piece
<1>10. /\ FilesInv' /\ partial'[f] = part0 /\ archive'[f] = arch0
       /\ \A m \in Registries : m # f => partial'[m] = partial[m] /\ archive'[m] = archive[m]
  BY <1>1, <1>8, <1>9, FilesStored
<1>11. ASSUME NEW x \in Pullers PROVE pull'[x] \in PullRecord /\ Handle(pull'[x], partial', archive')
  <2>1. /\ pull[x] \in PullRecord /\ Handle(pull[x], partial, archive)
        /\ Mirrors[pull[x].try] \in Registries
    BY HereIsARegistry
  <2>2. Handle(pull[x], partial', archive')
    BY <1>9, <1>10, <2>1 DEF Handle
  <2>3. pull'[x] = IF x = p THEN mine ELSE pull[x]
    BY <1>2 DEF DownloadInv, PullsInv
  <2>. QED  BY <1>3, <2>1, <2>2, <2>3 DEF Handle
<1>12. pull' = [x \in Pullers |-> pull'[x]]
  BY <1>2 DEF DownloadInv, PullsInv
<1>. QED  BY <1>2, <1>10, <1>11, <1>12, PullsStored

LEMMA RenameKeeps ==
    ASSUME DownloadInv, NEW p \in Pullers, RenameIntoPlace(p)
    PROVE  DownloadInv'
<1> DEFINE f == Dest(p)
           mine == [pull[p] EXCEPT !.stage = "pulled"]
           moved(x) == Renamed(Renamed(pull[x], f, "archive", "gone"), f, "partial", "archive")
<1>1. /\ f \in Registries /\ pull[p] \in PullRecord /\ pull[p].on = "none" /\ mine \in PullRecord
      /\ mine.on = "none"
  <2>1. f \in Registries /\ pull[p] \in PullRecord /\ Handle(pull[p], partial, archive)
    BY HereIsARegistry
  <2>2. pull[p].stage = "pulling"
    BY DEF RenameIntoPlace
  <2>. QED  BY <2>1, <2>2 DEF Handle, PullRecord
<1>2. UNCHANGED published /\ published' \in Nat
  BY DEF RenameIntoPlace, DownloadInv, PullsInv
<1>3. CASE NextMirror(p) /\ UNCHANGED <<partial, archive>>
  BY <1>2, <1>3, NextMirrorKeeps
<1>4. CASE pull' = [pull EXCEPT ![p] = Idle] /\ UNCHANGED <<partial, archive>>
  BY <1>2, <1>4, IdleRecord, PullMoves
<1>5. CASE /\ partial[f] # Absent
           /\ archive' = [archive EXCEPT ![f] = partial[f]]
           /\ partial' = [partial EXCEPT ![f] = Absent]
           /\ pull' = [q \in Pullers |-> IF q = p THEN mine ELSE moved(q)]
  <2> HIDE DEF f, mine
  <2>1. /\ FilesInv' /\ partial'[f] = Absent /\ archive'[f] = partial[f]
        /\ \A m \in Registries : m # f => partial'[m] = partial[m] /\ archive'[m] = archive[m]
    BY <1>1, <1>5, FilesStored, SameFile
  <2>2. ASSUME NEW x \in Pullers PROVE pull'[x] \in PullRecord /\ Handle(pull'[x], partial', archive')
    <3>1. CASE x = p
      BY <1>1, <1>5, <3>1 DEF Handle
    <3>2. CASE x # p
      <4> DEFINE r1 == Renamed(pull[x], f, "archive", "gone")
                 r2 == Renamed(r1, f, "partial", "archive")
      <4>1. pull'[x] = r2
        BY <1>5, <3>2
      <4>2. /\ pull[x] \in PullRecord /\ Handle(pull[x], partial, archive)
            /\ Mirrors[pull[x].try] \in Registries
        BY HereIsARegistry
      <4>3. /\ r1 \in PullRecord /\ r1.stage = pull[x].stage /\ r1.try = pull[x].try
            /\ r1.on = IF pull[x].on = "archive" /\ Mirrors[pull[x].try] = f THEN "gone"
                       ELSE pull[x].on
        BY <4>2, RenamedFacts
      <4> HIDE DEF r1
      <4>4. /\ r2 \in PullRecord /\ r2.stage = r1.stage /\ r2.try = r1.try
            /\ r2.on = IF r1.on = "partial" /\ Mirrors[r1.try] = f THEN "archive" ELSE r1.on
        BY <4>3, RenamedFacts
      <4> HIDE DEF r2
      <4>5. Handle(r2, partial', archive')
        BY <1>5, <2>1, <4>2, <4>3, <4>4 DEF Handle
      <4>. QED  BY <4>1, <4>4, <4>5
    <3>. QED  BY <3>1, <3>2
  <2>3. pull' = [x \in Pullers |-> pull'[x]]
    BY <1>5
  <2>. QED  BY <1>2, <2>1, <2>2, <2>3, PullsStored
<1>6. \/ NextMirror(p) /\ UNCHANGED <<partial, archive>>
      \/ pull' = [pull EXCEPT ![p] = Idle] /\ UNCHANGED <<partial, archive>>
      \/ /\ partial[f] # Absent
         /\ archive' = [archive EXCEPT ![f] = partial[f]]
         /\ partial' = [partial EXCEPT ![f] = Absent]
         /\ pull' = [q \in Pullers |-> IF q = p THEN mine ELSE moved(q)]
  <2> HIDE DEF f
  <2>. QED  BY DEF RenameIntoPlace, f
<1>. QED  BY <1>3, <1>4, <1>5, <1>6

LEMMA InstallKeeps ==
    ASSUME DownloadInv, NEW p \in Pullers, InstallJava(p)
    PROVE  DownloadInv'
<1> DEFINE f == Dest(p)
<1>1. f \in Registries /\ UNCHANGED <<published, partial>> /\ published' \in Nat
  BY HereIsARegistry DEF InstallJava, DownloadInv, PullsInv
<1>2. CASE Whole(archive[f])
  <2>1. /\ archive' = [archive EXCEPT ![f] = Absent]
        /\ pull' = [q \in Pullers |-> IF q = p THEN Idle ELSE Renamed(pull[q], f, "archive", "gone")]
    BY <1>2 DEF InstallJava
  <2> HIDE DEF f
  <2>2. /\ FilesInv' /\ archive'[f] = Absent /\ partial' = partial
        /\ \A m \in Registries : m # f => archive'[m] = archive[m]
    BY <1>1, <2>1, FilesStored, SameFile
  <2>3. ASSUME NEW x \in Pullers PROVE pull'[x] \in PullRecord /\ Handle(pull'[x], partial', archive')
    <3>1. CASE x = p
      BY <2>1, <3>1, IdleRecord
    <3>2. CASE x # p
      <4>1. pull'[x] = Renamed(pull[x], f, "archive", "gone")
        BY <2>1, <3>2
      <4>2. /\ pull[x] \in PullRecord /\ Handle(pull[x], partial, archive)
            /\ Mirrors[pull[x].try] \in Registries
        BY HereIsARegistry
      <4>. QED  BY <2>2, <4>1, <4>2, RenamedFacts DEF Handle
    <3>. QED  BY <3>1, <3>2
  <2>4. pull' = [x \in Pullers |-> pull'[x]]
    BY <2>1
  <2>. QED  BY <1>1, <2>2, <2>3, <2>4, PullsStored
<1>3. CASE ~Whole(archive[f])
  <2>1. UNCHANGED archive /\ pull' = [pull EXCEPT ![p] = Idle]
    BY <1>3 DEF InstallJava
  <2>. QED  BY <1>1, <2>1, IdleRecord, PullMoves
<1>. QED  BY <1>2, <1>3

LEMMA DownloadStep == DownloadInv /\ [DownloadNext]_downloadVars => DownloadInv'
<1> SUFFICES ASSUME DownloadInv, [DownloadNext]_downloadVars PROVE DownloadInv'
  OBVIOUS
<1>1. CASE Publish \/ UNCHANGED downloadVars
  <2>1. UNCHANGED <<partial, archive, pull>> /\ published' \in Nat
    BY <1>1 DEF Publish, downloadVars, DownloadInv, PullsInv
  <2>. QED  BY <2>1 DEF DownloadInv, FilesInv, PullsInv, Sound
<1>. QED
  BY <1>1, QuietKeeps, ResolveKeeps, OpenKeeps, ReceiveKeeps, RenameKeeps, InstallKeeps
  DEF DownloadNext

LEMMA DownloadStart == DownloadInit => DownloadInv
  BY IdleRecord DEF DownloadInit, DownloadInv, FilesInv, PullsInv, Sound

LEMMA OneOrigin ==
    ASSUME NEW m, NEW f, Sound(f, m)
    PROVE  Cardinality(Origins(f)) <= 1
<1>1. Origins(f) \subseteq {m}
  <2>1. CASE f = Absent
    BY <2>1 DEF Origins
  <2>2. CASE f # Absent
    <3>1. f \in Seq(PieceOf(m))
      BY <2>2 DEF Sound
    <3>2. \A j \in DOMAIN f : f[j] # Hole => f[j][1] = m
      BY <3>1 DEF PieceOf
    <3>. QED  BY <2>2, <3>2 DEF Origins
  <2>. QED  BY <2>1, <2>2
<1>2. IsFiniteSet({m}) /\ Cardinality({m}) = 1
  BY FS_Singleton
<1>3. Cardinality(Origins(f)) <= Cardinality({m})
  BY <1>1, <1>2, FS_Subset
<1>. QED  BY <1>2, <1>3

LEMMA DownloadSound == DownloadInv => NoMirrorSplice
  BY OneOrigin DEF DownloadInv, FilesInv, NoMirrorSplice

-----------------------------------------------------------------------------
(* Storage analysis.  Sums over finite sets first: SumFunctionOnSet takes   *)
(* one element after another from a set; that there is such a function of   *)
(* the subsets, and what it comes to, is shown for the smallest subset it   *)
(* could fail on.                                                           *)

\* A set of numbers has a least one.
LEMMA LeastNat == ASSUME NEW T \in SUBSET Nat, T # {} PROVE \E x \in T : \A y \in T : x <= y
<1> DEFINE R == {p \in Nat \X Nat : p[1] < p[2]}
<1>1. R = OpToRel(<, Nat)
  BY Zenon DEF OpToRel
<1>2. IsWellFoundedOn(R, Nat)
  BY <1>1, NatLessThanWellFounded, Zenon
<1> HIDE DEF R
<1>3. PICK x \in T : \A y \in T : ~(<<y, x>> \in R)
  BY <1>2, WFMin
<1>4. x \in Nat /\ \A y \in T : y \in Nat /\ ~(y < x)
  BY <1>3 DEF R
<1>5. \A y \in T : x <= y
  BY <1>4
<1>. QED  BY <1>5

\* What holds of a set whenever it holds of every smaller one holds of them all.
LEMMA SmallerFirst ==
    ASSUME NEW S, IsFiniteSet(S), NEW P,
           \A s \in SUBSET S : (\A t \in SUBSET s : t # s => t \in P) => s \in P
    PROVE  \A s \in SUBSET S : s \in P
<1> DEFINE T == {k \in Nat : \E s \in SUBSET S : Cardinality(s) = k /\ s \notin P}
<1>1. ASSUME NEW k \in T, \A j \in T : k <= j PROVE FALSE
  <2>1. PICK s \in SUBSET S : Cardinality(s) = k /\ s \notin P
    BY <1>1
  <2>2. k \in Nat /\ IsFiniteSet(s)
    BY FS_Subset
  <2>3. PICK t \in SUBSET s : t # s /\ t \notin P
    BY <2>1
  <2>4. Cardinality(t) \in Nat /\ Cardinality(t) <= k /\ Cardinality(t) # k
    BY <2>1, <2>2, <2>3, FS_Subset, FS_CardinalityType
  <2>5. Cardinality(t) \in T
    BY <2>3, <2>4
  <2>. QED  BY <1>1, <2>2, <2>4, <2>5
<1>2. T = {}
  <2>1. T \in SUBSET Nat
    OBVIOUS
  <2> HIDE DEF T
  <2>. QED  BY <1>1, <2>1, LeastNat
<1>3. ASSUME NEW s \in SUBSET S PROVE Cardinality(s) \in Nat
  BY FS_Subset, FS_CardinalityType
<1>. QED  BY <1>2, <1>3

AnyOf(s)      == CHOOSE x \in s : TRUE
Sums(g, S, iter) == iter = [s \in S |-> IF s = {} THEN 0 ELSE g[AnyOf(s)] + iter[s \ {AnyOf(s)}]]
Smaller(S, n) == {s \in SUBSET S : Cardinality(s) <= n}

LEMMA AnyLess ==
    ASSUME NEW S, IsFiniteSet(S), NEW s \in SUBSET S, s # {}
    PROVE  /\ AnyOf(s) \in s /\ s \ {AnyOf(s)} \in SUBSET S
           /\ Cardinality(s) \in Nat \ {0} /\ Cardinality(s \ {AnyOf(s)}) = Cardinality(s) - 1
<1>1. AnyOf(s) \in s
  BY DEF AnyOf
<1>2. IsFiniteSet(s)
  BY FS_Subset
<1>3. Cardinality(s) \in Nat /\ Cardinality(s \ {AnyOf(s)}) = Cardinality(s) - 1
      /\ Cardinality(s) # 0
  BY <1>1, <1>2, FS_CardinalityType, FS_RemoveElement, FS_EmptySet
<1>. QED  BY <1>1, <1>3

LEMMA SumsTo ==
    ASSUME NEW S, IsFiniteSet(S), NEW g, NEW n \in Nat
    PROVE  \E iter : Sums(g, Smaller(S, n), iter)
<1> DEFINE T == {k \in Nat : ~ \E iter : Sums(g, Smaller(S, k), iter)}
<1>1. ASSUME NEW k \in T, \A j \in T : k <= j PROVE FALSE
  <2>1. CASE k = 0
    <3>1. Smaller(S, k) = {{}}
      BY <2>1, FS_EmptySet, FS_Subset, FS_CardinalityType DEF Smaller
    <3> DEFINE iter == [s \in {{}} |-> 0]
    <3>2. Sums(g, Smaller(S, k), iter)
      BY <3>1 DEF Sums
    <3>. QED  BY <1>1, <3>2
  <2>2. CASE k # 0
    <3>1. k \in Nat /\ k - 1 \in Nat /\ k - 1 \notin T
      BY <1>1, <2>2
    <3>2. PICK old : Sums(g, Smaller(S, k - 1), old)
      BY <3>1
    <3> DEFINE new == [s \in Smaller(S, k) |-> IF s = {} THEN 0 ELSE g[AnyOf(s)] + old[s \ {AnyOf(s)}]]
    <3>3. \A s \in Smaller(S, k) : s # {} => s \ {AnyOf(s)} \in Smaller(S, k - 1)
      BY <3>1, AnyLess DEF Smaller
    <3>4. \A s \in Smaller(S, k - 1) : s \in Smaller(S, k)
      <4> SUFFICES ASSUME NEW s \in Smaller(S, k - 1) PROVE s \in Smaller(S, k)
        OBVIOUS
      <4>1. s \in SUBSET S /\ Cardinality(s) \in Nat /\ Cardinality(s) <= k - 1
        BY FS_Subset, FS_CardinalityType DEF Smaller
      <4>. QED  BY <3>1, <4>1 DEF Smaller
    <3>5. \A s \in Smaller(S, k - 1) : new[s] = old[s]
      BY <3>2, <3>4 DEF Sums
    <3>6. \A s \in Smaller(S, k) : s # {} => new[s \ {AnyOf(s)}] = old[s \ {AnyOf(s)}]
      BY <3>3, <3>5
    <3>7. Sums(g, Smaller(S, k), new)
      BY <3>6 DEF Sums
    <3>. QED  BY <1>1, <3>7
  <2>. QED  BY <2>1, <2>2
<1>2. T = {}
  <2>1. T \in SUBSET Nat
    OBVIOUS
  <2> HIDE DEF T
  <2>. QED  BY <1>1, <2>1, LeastNat
<1>. QED  BY <1>2

LEMMA SumExists ==
    ASSUME NEW S, IsFiniteSet(S), NEW g
    PROVE  \E iter : Sums(g, SUBSET S, iter)
<1>1. Cardinality(S) \in Nat
  BY FS_CardinalityType
<1>2. Smaller(S, Cardinality(S)) = SUBSET S
  BY FS_Subset DEF Smaller
<1>3. \E iter : Sums(g, Smaller(S, Cardinality(S)), iter)
  BY <1>1, SumsTo
<1>. QED  BY <1>2, <1>3

SumOf(g, S) == (CHOOSE iter : Sums(g, SUBSET S, iter))[S]

LEMMA SumIs == ASSUME NEW g, NEW S PROVE SumFunctionOnSet(g, S) = SumOf(g, S)
BY Zenon DEF SumFunctionOnSet, FoldFunctionOnSet, MapThenFoldSet, SumOf, Sums, AnyOf

\* Two such functions agree on what both are about.
LEMMA SumsAgree ==
    ASSUME NEW S, IsFiniteSet(S), NEW R, S \subseteq R, NEW g, NEW h, \A x \in S : g[x] = h[x],
           NEW f1, Sums(g, SUBSET R, f1), NEW f2, Sums(h, SUBSET S, f2)
    PROVE  f1[S] = f2[S]
<1> DEFINE P == {s \in SUBSET S : f1[s] = f2[s]}
<1>1. ASSUME NEW s \in SUBSET S, \A t \in SUBSET s : t # s => t \in P PROVE f1[s] = f2[s]
  <2>1. CASE s = {}
    BY <2>1 DEF Sums
  <2>2. CASE s # {}
    <3> DEFINE x == AnyOf(s)
               t == s \ {x}
    <3>1. x \in s /\ t \in SUBSET s /\ t # s /\ t \in SUBSET S
      BY <2>2, AnyLess
    <3>2. s \in SUBSET R /\ f1[s] = g[x] + f1[t] /\ f2[s] = h[x] + f2[t] /\ g[x] = h[x]
      BY <2>2, <3>1 DEF Sums
    <3>3. f1[t] = f2[t]
      BY <1>1, <3>1
    <3>. QED  BY <3>2, <3>3
  <2>. QED  BY <2>1, <2>2
<1>2. \A s \in SUBSET S : s \in P
  <2>1. \A s \in SUBSET S : (\A t \in SUBSET s : t # s => t \in P) => s \in P
    BY <1>1
  <2> HIDE DEF P
  <2>. QED  BY <2>1, SmallerFirst
<1>. QED  BY <1>2

LEMMA SumChosen == ASSUME NEW S, IsFiniteSet(S), NEW g PROVE \E f : Sums(g, SUBSET S, f) /\ SumOf(g, S) = f[S]
<1>1. PICK f : f = CHOOSE iter : Sums(g, SUBSET S, iter)
  OBVIOUS
<1>2. Sums(g, SUBSET S, f)
  BY <1>1, SumExists
<1>. QED  BY <1>1, <1>2 DEF SumOf

LEMMA SumSame ==
    ASSUME NEW S, IsFiniteSet(S), NEW g, NEW h, \A x \in S : g[x] = h[x]
    PROVE  SumOf(g, S) = SumOf(h, S)
<1>1. PICK f1 : Sums(g, SUBSET S, f1) /\ SumOf(g, S) = f1[S]
  BY SumChosen
<1>2. PICK f2 : Sums(h, SUBSET S, f2) /\ SumOf(h, S) = f2[S]
  BY SumChosen
<1>3. f1[S] = f2[S]
  BY <1>1, <1>2, SumsAgree
<1>. QED  BY <1>1, <1>2, <1>3

\* The sum over a subset is what the function chosen for the whole set says of it.
LEMMA SumWithin ==
    ASSUME NEW S, IsFiniteSet(S), NEW g, NEW f, Sums(g, SUBSET S, f), NEW s, s \subseteq S
    PROVE  SumOf(g, s) = f[s]
<1>1. IsFiniteSet(s)
  BY FS_Subset
<1>2. PICK f2 : Sums(g, SUBSET s, f2) /\ SumOf(g, s) = f2[s]
  BY <1>1, SumChosen
<1>3. f[s] = f2[s]
  BY <1>1, <1>2, SumsAgree
<1>. QED  BY <1>2, <1>3

LEMMA SumOfNone == ASSUME NEW g PROVE SumOf(g, {}) = 0
<1>1. PICK f : Sums(g, SUBSET {}, f) /\ SumOf(g, {}) = f[{}]
  BY FS_EmptySet, SumChosen
<1>. QED  BY <1>1 DEF Sums

LEMMA SumStep ==
    ASSUME NEW S, IsFiniteSet(S), NEW g, S # {}
    PROVE  SumOf(g, S) = g[AnyOf(S)] + SumOf(g, S \ {AnyOf(S)})
<1>1. PICK f : Sums(g, SUBSET S, f)
  BY SumExists
<1>2. SumOf(g, S) = f[S] /\ SumOf(g, S \ {AnyOf(S)}) = f[S \ {AnyOf(S)}]
  BY <1>1, SumWithin
<1>3. f[S] = g[AnyOf(S)] + f[S \ {AnyOf(S)}]
  BY <1>1 DEF Sums
<1>. QED  BY <1>2, <1>3

\* The order does not matter, for natural numbers.
LEMMA SumLess ==
    ASSUME NEW S, IsFiniteSet(S), NEW g, \A y \in S : g[y] \in Nat
    PROVE  SumOf(g, S) \in Nat /\ \A x \in S : SumOf(g, S) = g[x] + SumOf(g, S \ {x})
<1> DEFINE Adds(s) == SumOf(g, s) \in Nat /\ \A x \in s : SumOf(g, s) = g[x] + SumOf(g, s \ {x})
           P == {s \in SUBSET S : Adds(s)}
<1>1. ASSUME NEW s \in SUBSET S, \A t \in SUBSET s : t # s => t \in P PROVE Adds(s)
  <2>1. CASE s = {}
    BY <2>1, SumOfNone
  <2>2. CASE s # {}
    <3> DEFINE a == AnyOf(s)
    <3>1. a \in s /\ IsFiniteSet(s)
      BY <2>2, FS_Subset DEF AnyOf
    <3>2. SumOf(g, s) = g[a] + SumOf(g, s \ {a})
      BY <2>2, <3>1, SumStep
    <3> HIDE DEF a
    <3>3. \A t \in SUBSET s : t # s => Adds(t)
      BY <1>1
    <3>4. Adds(s \ {a}) /\ g[a] \in Nat
      BY <3>1, <3>3
    <3>5. SumOf(g, s) \in Nat
      BY <3>2, <3>4
    <3>6. ASSUME NEW x \in s PROVE SumOf(g, s) = g[x] + SumOf(g, s \ {x})
      <4>1. CASE x = a
        BY <3>2, <4>1
      <4>2. CASE x # a
        <5> DEFINE u == (s \ {a}) \ {x}
        <5>1. x \in s \ {a} /\ a \in s \ {x} /\ u = (s \ {x}) \ {a} /\ u \in SUBSET s /\ u # s
          BY <3>1, <4>2
        <5>2. SumOf(g, s \ {a}) = g[x] + SumOf(g, u)
          BY <3>4, <5>1
        <5>3. Adds(s \ {x}) /\ Adds(u)
          BY <3>3, <5>1
        <5>4. SumOf(g, s \ {x}) = g[a] + SumOf(g, u)
          BY <5>1, <5>3
        <5>5. g[x] \in Nat /\ SumOf(g, u) \in Nat
          BY <5>3
        <5> HIDE DEF u
        <5>. QED  BY <3>2, <3>4, <5>2, <5>4, <5>5
      <4>. QED  BY <4>1, <4>2
    <3>. QED  BY <3>5, <3>6
  <2>. QED  BY <2>1, <2>2
<1>2. \A s \in SUBSET S : s \in P
  <2>1. \A s \in SUBSET S : (\A t \in SUBSET s : t # s => t \in P) => s \in P
    BY <1>1
  <2> HIDE DEF P
  <2>. QED  BY <2>1, SmallerFirst
<1>3. Adds(S)
  BY <1>2
<1>. QED  BY <1>3

LEMMA SumOfUnion ==
    ASSUME NEW A, IsFiniteSet(A), NEW B, IsFiniteSet(B), A \intersect B = {}, NEW g,
           \A y \in A \union B : g[y] \in Nat
    PROVE  SumOf(g, A \union B) = SumOf(g, A) + SumOf(g, B)
<1> DEFINE Adds(s) == SumOf(g, s \union B) = SumOf(g, s) + SumOf(g, B)
           P == {s \in SUBSET A : Adds(s)}
<1>0. SumOf(g, B) \in Nat
  BY SumLess
<1>1. ASSUME NEW s \in SUBSET A, \A t \in SUBSET s : t # s => t \in P PROVE Adds(s)
  <2>1. CASE s = {}
    <3>1. SumOf(g, s) = 0 /\ s \union B = B
      BY <2>1, SumOfNone
    <3>2. SumOf(g, s \union B) = SumOf(g, B)
      BY <3>1, Zenon
    <3> DEFINE n == SumOf(g, B)
    <3>3. n = 0 + n
      BY <1>0
    <3>. QED  BY <3>1, <3>2, <3>3, Zenon
  <2>2. CASE s # {}
    <3>1. PICK a : a \in s
      BY <2>2
    <3> DEFINE t == s \ {a}
    <3>2. t \in SUBSET s /\ t # s /\ IsFiniteSet(s) /\ IsFiniteSet(t)
      BY <3>1, FS_Subset
    <3>3. Adds(t)
      BY <1>1, <3>2
    <3>4. SumOf(g, s) = g[a] + SumOf(g, t)
      BY <3>1, <3>2, SumLess
    <3>5. IsFiniteSet(s \union B) /\ a \in s \union B /\ (s \union B) \ {a} = t \union B
          /\ \A y \in s \union B : g[y] \in Nat
      BY <3>1, <3>2, FS_Union
    <3>6. SumOf(g, s \union B) = g[a] + SumOf(g, t \union B)
      BY <3>5, SumLess
    <3>7. SumOf(g, t) \in Nat /\ g[a] \in Nat
      BY <3>1, <3>2, SumLess
    <3> HIDE DEF t
    <3>. QED  BY <1>0, <3>3, <3>4, <3>6, <3>7
  <2>. QED  BY <2>1, <2>2
<1>2. \A s \in SUBSET A : s \in P
  <2>1. \A s \in SUBSET A : (\A t \in SUBSET s : t # s => t \in P) => s \in P
    BY <1>1
  <2> HIDE DEF P
  <2>. QED  BY <2>1, SmallerFirst
<1>. QED  BY <1>2

\* What several places name is added once.
LEMMA SumOfImage ==
    ASSUME NEW D, IsFiniteSet(D), NEW q, NEW g, \A i \in D : g[q[i]] \in Nat,
           NEW h, \A i \in D : h[i] = g[q[i]]
    PROVE  /\ IsFiniteSet({q[i] : i \in D})
           /\ SumOf(g, {q[i] : i \in D}) <= SumOf(h, D)
<1> DEFINE Image(s) == {q[i] : i \in s}
           Adds(s) == IsFiniteSet(Image(s)) /\ SumOf(g, Image(s)) <= SumOf(h, s)
           P == {s \in SUBSET D : Adds(s)}
<1>1. ASSUME NEW s \in SUBSET D, \A t \in SUBSET s : t # s => t \in P PROVE Adds(s)
  <2>1. CASE s = {}
    <3>1. SumOf(h, s) = 0 /\ Image(s) = {}
      BY <2>1, SumOfNone
    <3>2. IsFiniteSet({}) /\ SumOf(g, {}) = 0
      BY FS_EmptySet, SumOfNone
    <3>. QED  BY <3>1, <3>2
  <2>2. CASE s # {}
    <3>1. PICK a : a \in s
      BY <2>2
    <3> DEFINE t == s \ {a}
    <3>2. t \in SUBSET s /\ t # s /\ IsFiniteSet(s) /\ IsFiniteSet(t)
      BY <3>1, FS_Subset
    <3>3. Adds(t)
      BY <1>1, <3>2
    <3>4. SumOf(h, s) = h[a] + SumOf(h, t) /\ SumOf(h, t) \in Nat /\ h[a] = g[q[a]] /\ h[a] \in Nat
      <4>1. \A i \in s : h[i] \in Nat
        OBVIOUS
      <4>2. SumOf(h, s) = h[a] + SumOf(h, t)
        BY <3>1, <3>2, <4>1, SumLess
      <4>3. SumOf(h, t) \in Nat
        BY <3>2, <4>1, SumLess
      <4>. QED  BY <3>1, <4>1, <4>2, <4>3
    <3>5. \A x \in Image(s) : g[x] \in Nat
      OBVIOUS
    <3>6. Image(s) = Image(t) \union {q[a]} /\ Image(t) \subseteq Image(s)
      BY <3>1
    <3>7. IsFiniteSet(Image(s)) /\ SumOf(g, Image(t)) <= SumOf(h, t)
      <4>1. IsFiniteSet(Image(t) \union {q[a]})
        BY <3>3, FS_AddElement
      <4>2. IsFiniteSet(Image(s))
        BY <3>6, <4>1, Zenon
      <4>. QED  BY <3>3, <4>2
    <3>8. SumOf(g, Image(t)) \in Nat
      <4>1. IsFiniteSet(Image(t)) /\ \A x \in Image(t) : g[x] \in Nat
        BY <3>3, <3>5, <3>6
      <4>. QED  BY <4>1, SumLess
    <3>9. SumOf(g, Image(s)) \in {SumOf(g, Image(t)), g[q[a]] + SumOf(g, Image(t))}
      <4>1. CASE q[a] \in Image(t)
        BY <3>6, <4>1
      <4>2. CASE q[a] \notin Image(t)
        <5>1. q[a] \in Image(s) /\ Image(s) \ {q[a]} = Image(t)
          BY <3>6, <4>2
        <5>2. SumOf(g, Image(s)) = g[q[a]] + SumOf(g, Image(s) \ {q[a]})
          BY <3>5, <3>7, <5>1, SumLess
        <5>. QED  BY <5>1, <5>2
      <4>. QED  BY <4>1, <4>2
    <3> HIDE DEF Image, t
    <3>. QED  BY <3>4, <3>7, <3>8, <3>9
  <2>. QED  BY <2>1, <2>2
<1>2. \A s \in SUBSET D : s \in P
  <2>1. \A s \in SUBSET D : (\A t \in SUBSET s : t # s => t \in P) => s \in P
    BY <1>1
  <2> HIDE DEF P
  <2>. QED  BY <2>1, SmallerFirst
<1>. QED  BY <1>2

-----------------------------------------------------------------------------
(* What a worker has brought and what is still to come of its tag make up   *)
(* what the tag reaches; what is counted is covered by the sizes.           *)

Positive      == {b \in Blobs : BytesOf[b] > 0}
Manifests     == [path : Seq(Nat), ref : Digests \union {NoTag}]
Tagged        == {t \in Tags : repo.tags[t] # NoTag}
WorkerRecords == [stage : {"waits", "works", "done"}, todo : SUBSET Manifests, size : Nat,
                  blobs : SUBSET Positive]
Both          == {"assets", "components"}

\* What a manifest reaches, from the deepest level up.
Under(f, d) == UNION {f[Lists[d][i]] : i \in DOMAIN Lists[d]}
Over(f)     == [d \in Digests |-> Elements(Layers[d]) \union Under(f, d)]
Third       == [d \in Digests |-> Elements(Layers[d])]
Second      == Over(Third)
First       == Over(Second)
Reach(n, d) == IF n = 0 THEN First[d] ELSE IF n = 1 THEN Second[d] ELSE IF n = 2 THEN Third[d] ELSE {}

\* What is still to come of the manifests a tag's worker has not fetched yet.
Below(top, m)    == {b \in Reach(Depth(m), IF m = Top THEN top ELSE m.ref) : BytesOf[b] > 0}
Still(top, todo) == UNION {Below(top, m) : m \in todo}
Counts(d)        == {b \in First[d] : BytesOf[b] > 0}

ScanTypes ==
    /\ phase \in {"idle", "listing", "scanning", "over"}
    /\ repo \in [tags : [Tags -> Digests \union {NoTag}], blobs : SUBSET Blobs]
    /\ totals \in [raw : Nat, tags : SUBSET Tags, listed : SUBSET Both]
    /\ worker \in [Tags -> WorkerRecords]
    /\ counted \in SUBSET Positive /\ active \in Nat /\ sizes \in [Tags -> Nat]
    /\ calm \in BOOLEAN

\* Each tag's size covers the blobs it brought, and has been set only once.
Bytes ==
    /\ active = TotalOf(counted) /\ active <= SumFunction(sizes)
    /\ \A t \in Tags : /\ TotalOf(worker[t].blobs) <= worker[t].size
                       /\ worker[t].stage # "done" => sizes[t] = 0

\* How far the analysis has come.
Progress ==
    /\ phase = "idle" => totals.listed = {}
    /\ phase \in {"scanning", "over"} => totals.listed = Both
    /\ \A t \in Tags : worker[t].stage # "waits" => t \in totals.tags /\ phase \in {"scanning", "over"}
    /\ phase = "over" => \A t \in totals.tags : worker[t].stage = "done"
    /\ \A t \in Tags : \A m \in worker[t].todo : m = Top \/ m.ref # NoTag

\* Of a repository nobody changed nothing is lost and nothing is added.
NothingLost ==
    /\ Stored(repo.tags) \subseteq repo.blobs
    /\ calm =>
         /\ "assets" \in totals.listed => totals.raw = TotalOf(repo.blobs)
         /\ "components" \in totals.listed => totals.tags = Tagged
         /\ counted \subseteq Stored(repo.tags)
         /\ \A t \in Tagged :
              /\ worker[t].stage = "works" =>
                   worker[t].blobs \union Still(repo.tags[t], worker[t].todo) = Counts(repo.tags[t])
              /\ worker[t].stage = "done" => Counts(repo.tags[t]) \subseteq counted

ScanInv == ScanTypes /\ Bytes /\ Progress /\ NothingLost
LEMMA ReachedIs == Reached = First
<1> DEFINE Def(at) ==
      at = [n \in 0..MaxManifestDepth |->
              [d \in Digests |-> Elements(Layers[d]) \union
                 IF n = MaxManifestDepth THEN {} ELSE Under(at[n + 1], d)]]
           all == [n \in 0..2 |-> IF n = 0 THEN First ELSE IF n = 1 THEN Second ELSE Third]
<1>1. Reached = (CHOOSE at : Def(at))[0]
  BY Zenon DEF Reached, Under
<1>2. ASSUME NEW at, Def(at) PROVE at[0] = First
  <2>1. at[2] = Third
    BY <1>2 DEF MaxManifestDepth, Third
  <2>2. ASSUME NEW n \in 0..1 PROVE at[n] = Over(at[n + 1])
    <3>1. n \in 0..MaxManifestDepth /\ n # MaxManifestDepth
      BY DEF MaxManifestDepth
    <3>2. at[n] = [d \in Digests |-> Elements(Layers[d]) \union
                   IF n = MaxManifestDepth THEN {} ELSE Under(at[n + 1], d)]
      BY <1>2, <3>1
    <3>3. \A d \in Digests : (Elements(Layers[d]) \union IF n = MaxManifestDepth THEN {} ELSE Under(at[n + 1], d))
                             = Elements(Layers[d]) \union Under(at[n + 1], d)
      BY <3>1
    <3>. QED  BY <3>2, <3>3 DEF Over
  <2>3. at[1] = Over(at[2])
    BY <2>2
  <2>4. at[0] = Over(at[1])
    BY <2>2
  <2>. QED  BY <2>1, <2>3, <2>4 DEF First, Second
<1>3. Def(all)
  <2> DEFINE f == [n \in 0..MaxManifestDepth |->
              [d \in Digests |-> Elements(Layers[d]) \union
                 IF n = MaxManifestDepth THEN {} ELSE Under(all[n + 1], d)]]
  <2>1. all[0] = First /\ all[1] = Second /\ all[2] = Third
    OBVIOUS
  <2> HIDE DEF all
  <2>2. f[2] = all[2]
    BY <2>1 DEF MaxManifestDepth, Third
  <2>3. ASSUME NEW n \in 0..1 PROVE f[n] = Over(all[n + 1])
    <3>1. n \in 0..MaxManifestDepth /\ n # MaxManifestDepth
      BY DEF MaxManifestDepth
    <3>2. f[n] = [d \in Digests |-> Elements(Layers[d]) \union
                   IF n = MaxManifestDepth THEN {} ELSE Under(all[n + 1], d)]
      BY <3>1
    <3>3. \A d \in Digests : (Elements(Layers[d]) \union IF n = MaxManifestDepth THEN {} ELSE Under(all[n + 1], d))
                             = Elements(Layers[d]) \union Under(all[n + 1], d)
      BY <3>1
    <3>. QED  BY <3>2, <3>3 DEF Over
  <2>4. f[1] = Over(all[2]) /\ f[0] = Over(all[1])
    <3> HIDE DEF f
    <3>. QED  BY <2>3
  <2>5. f[1] = all[1] /\ f[0] = all[0]
    <3> HIDE DEF f
    <3>. QED  BY <2>1, <2>4 DEF First, Second
  <2>6. f = [n \in 0..2 |-> f[n]] /\ all = [n \in 0..2 |-> all[n]]
    BY DEF all, MaxManifestDepth
  <2>7. \A n \in 0..2 : f[n] = all[n]
    <3>1. \A n \in 0..2 : n = 0 \/ n = 1 \/ n = 2
      OBVIOUS
    <3> HIDE DEF f
    <3>. QED  BY <2>2, <2>5, <3>1
  <2>8. f = all
    <3> HIDE DEF f
    <3>. QED  BY <2>6, <2>7
  <2>. QED  BY <2>8
<1>4. Def(CHOOSE at : Def(at))
  <2> HIDE DEF Def
  <2>. QED  BY <1>3
<1> HIDE DEF Def
<1>. QED  BY <1>1, <1>2, <1>4

\* What a digest names.
LEMMA Content ==
    ASSUME NEW d \in Digests
    PROVE  /\ Third[d] \subseteq Blobs /\ Second[d] \subseteq Blobs /\ First[d] \subseteq Blobs
           /\ \A i \in DOMAIN Lists[d] : Lists[d][i] \in Digests
           /\ \A i \in DOMAIN Layers[d] : Layers[d][i] \in Blobs
           /\ DOMAIN Layers[d] = 1..Len(Layers[d]) /\ Len(Layers[d]) \in Nat
           /\ DOMAIN Lists[d] = 1..Len(Lists[d]) /\ Len(Lists[d]) \in Nat
           /\ d # NoTag
<1>1. ASSUME NEW c \in Digests
      PROVE  /\ Lists[c] \in Seq(Digests) /\ Layers[c] \in Seq(Blobs)
             /\ \A i \in DOMAIN Lists[c] : Lists[c][i] \in Digests
             /\ \A i \in DOMAIN Layers[c] : Layers[c][i] \in Blobs
  BY ContentAssumption
<1>2. \A c \in Digests : Third[c] \subseteq Blobs
  BY <1>1 DEF Third, Elements
<1>3. \A c \in Digests : Second[c] \subseteq Blobs
  BY <1>1, <1>2 DEF Second, Over, Under, Elements
<1>4. \A c \in Digests : First[c] \subseteq Blobs
  BY <1>1, <1>3 DEF First, Over, Under, Elements
<1>5. d # NoTag
  BY ContentAssumption DEF NoTag
<1>6. /\ DOMAIN Layers[d] = 1..Len(Layers[d]) /\ Len(Layers[d]) \in Nat
      /\ DOMAIN Lists[d] = 1..Len(Lists[d]) /\ Len(Lists[d]) \in Nat
  BY <1>1
<1>. QED  BY <1>1, <1>2, <1>3, <1>4, <1>5, <1>6

LEMMA StoredIs ==
    ASSUME NEW tags \in [Tags -> Digests \union {NoTag}]
    PROVE  /\ Stored(tags) \subseteq Blobs
           /\ \A b : b \in Stored(tags) <=> \E t \in Tags : tags[t] # NoTag /\ b \in First[tags[t]]
<1>1. \A b : b \in Stored(tags) <=> \E t \in Tags : tags[t] # NoTag /\ b \in First[tags[t]]
  BY ReachedIs, Zenon DEF Stored
<1>2. \A t \in Tags : tags[t] # NoTag => First[tags[t]] \subseteq Blobs
  BY Content
<1>. QED  BY <1>1, <1>2

LEMMA Total ==
    ASSUME NEW S, S \subseteq Blobs
    PROVE  IsFiniteSet(S) /\ TotalOf(S) = SumOf(BytesOf, S) /\ TotalOf(S) \in Nat
           /\ \A b \in S : BytesOf[b] \in Nat
<1>1. IsFiniteSet(S)
  BY BytesAssumption, FS_Subset
<1>2. TotalOf(S) = SumOf(BytesOf, S)
  BY SumIs, Zenon DEF TotalOf
<1>3. \A b \in S : BytesOf[b] \in Nat
  BY BytesAssumption
<1>. QED  BY <1>1, <1>2, <1>3, SumLess

LEMMA TotalSplit ==
    ASSUME NEW A, A \subseteq Blobs, NEW B, B \subseteq A
    PROVE  TotalOf(A) = TotalOf(B) + TotalOf(A \ B)
<1>1. B \subseteq Blobs /\ A \ B \subseteq Blobs /\ B \intersect (A \ B) = {} /\ B \union (A \ B) = A
  OBVIOUS
<1>2. \A b \in B \union (A \ B) : BytesOf[b] \in Nat
  BY <1>1, Total
<1>3. IsFiniteSet(B) /\ IsFiniteSet(A \ B) /\ TotalOf(B) = SumOf(BytesOf, B) /\ TotalOf(A \ B) = SumOf(BytesOf, A \ B)
      /\ TotalOf(A) = SumOf(BytesOf, A)
  BY <1>1, Total
<1>4. SumOf(BytesOf, B \union (A \ B)) = SumOf(BytesOf, B) + SumOf(BytesOf, A \ B)
  BY <1>1, <1>2, <1>3, SumOfUnion
<1>. QED  BY <1>1, <1>3, <1>4

\* A blob without bytes adds none.
LEMMA TotalOfSized ==
    ASSUME NEW A, A \subseteq Blobs
    PROVE  TotalOf(A) = TotalOf({b \in A : BytesOf[b] > 0})
<1> DEFINE Z == {b \in A : ~(BytesOf[b] > 0)}
           Adds(s) == SumOf(BytesOf, s) = 0
           P == {s \in SUBSET Z : Adds(s)}
<1>0. IsFiniteSet(Z) /\ \A b \in Z : BytesOf[b] = 0
  <2>1. Z \subseteq Blobs
    OBVIOUS
  <2>. QED  BY <2>1, Total
<1>1. ASSUME NEW s \in SUBSET Z, \A t \in SUBSET s : t # s => t \in P PROVE Adds(s)
  <2>1. CASE s = {}
    BY <2>1, SumOfNone
  <2>2. CASE s # {}
    <3>1. AnyOf(s) \in s /\ IsFiniteSet(s)
      BY <1>0, <2>2, FS_Subset DEF AnyOf
    <3>2. SumOf(BytesOf, s) = BytesOf[AnyOf(s)] + SumOf(BytesOf, s \ {AnyOf(s)})
      BY <2>2, <3>1, SumStep
    <3>3. s \ {AnyOf(s)} \in SUBSET s /\ s \ {AnyOf(s)} # s
      BY <3>1
    <3>4. SumOf(BytesOf, s \ {AnyOf(s)}) = 0
      BY <1>1, <3>3
    <3>5. BytesOf[AnyOf(s)] = 0
      BY <1>0, <3>1
    <3>. QED  BY <3>2, <3>4, <3>5
  <2>. QED  BY <2>1, <2>2
<1>2. \A s \in SUBSET Z : s \in P
  <2>1. \A s \in SUBSET Z : (\A t \in SUBSET s : t # s => t \in P) => s \in P
    BY <1>1
  <2> HIDE DEF P, Z
  <2>. QED  BY <1>0, <2>1, SmallerFirst
<1>3. SumOf(BytesOf, Z) = 0
  BY <1>2
<1> DEFINE B == {b \in A : BytesOf[b] > 0}
<1>4. B \subseteq A /\ A \ B = Z /\ Z \subseteq Blobs /\ B \subseteq Blobs
  OBVIOUS
<1> HIDE DEF B, Z
<1>5. TotalOf(A) = TotalOf(B) + TotalOf(Z)
  BY <1>4, TotalSplit
<1>6. TotalOf(B) \in Nat /\ TotalOf(Z) = 0
  BY <1>3, <1>4, Total
<1>. QED  BY <1>5, <1>6 DEF B

\* A manifest's size covers its blobs.
LEMMA Local ==
    ASSUME NEW d \in Digests
    PROVE  /\ LocalBlobs(d) = {b \in Third[d] : BytesOf[b] > 0} /\ LocalBlobs(d) \subseteq Positive
           /\ LocalSize(d) \in Nat /\ TotalOf(LocalBlobs(d)) <= LocalSize(d)
<1> DEFINE D == ManifestLayerBlobs(d)
           q == Layers[d]
           h == [i \in DOMAIN q |-> BytesOf[q[i]]]
<1>1. D \subseteq 1..Len(q) /\ Len(q) \in Nat
  BY Content DEF ManifestLayerBlobs
<1>2. IsFiniteSet(D)
  <2>1. IsFiniteSet(1..Len(q))
    BY <1>1, FS_Interval
  <2>. QED  BY <1>1, <2>1, FS_Subset
<1>3. \A i \in D : BytesOf[q[i]] \in Nat /\ h[i] = BytesOf[q[i]]
  <2>1. \A i \in D : i \in DOMAIN q
    BY DEF ManifestLayerBlobs
  <2>. QED  BY <2>1, Content, BytesAssumption
<1>4. LocalBlobs(d) = {q[i] : i \in D}
  BY DEF LocalBlobs
<1>5. LocalSize(d) = SumOf(h, D)
  BY SumIs, Zenon DEF LocalSize
<1>6. LocalBlobs(d) = {b \in Third[d] : BytesOf[b] > 0}
  BY <1>4 DEF ManifestLayerBlobs, Third, Elements
<1>7. LocalBlobs(d) \subseteq Blobs
  BY <1>6, Content
<1>8. TotalOf(LocalBlobs(d)) = SumOf(BytesOf, LocalBlobs(d))
  BY <1>7, Total
<1> HIDE DEF D, q, h
<1>9. SumOf(BytesOf, {q[i] : i \in D}) <= SumOf(h, D)
  BY <1>2, <1>3, SumOfImage
<1>10. SumOf(h, D) \in Nat
  BY <1>2, <1>3, SumLess
<1>. QED  BY <1>4, <1>5, <1>6, <1>7, <1>8, <1>9, <1>10 DEF Positive

\* Fetching a manifest brings its own blobs and leaves those of its children.
LEMMA Fetched ==
    ASSUME NEW top, NEW m \in Manifests, NEW d \in Digests, d = (IF m = Top THEN top ELSE m.ref),
           Depth(m) <= MaxManifestDepth
    PROVE  /\ Children(m, d) \subseteq Manifests /\ \A c \in Children(m, d) : c.ref # NoTag
           /\ Below(top, m) = LocalBlobs(d) \union Still(top, Children(m, d))
<1> DEFINE n == Depth(m)
           kid(i) == [path |-> Append(m.path, i), ref |-> Lists[d][i]]
<1>1. n \in 0..2 /\ m.path \in Seq(Nat)
  <2>1. m.path \in Seq(Nat)
    BY DEF Manifests
  <2>2. n = Len(m.path)
    BY DEF Depth
  <2>3. n \in Nat /\ n <= 2
    BY <2>1, <2>2 DEF Depth, MaxManifestDepth
  <2>. QED  BY <2>1, <2>3
<1>2. ASSUME NEW i \in DOMAIN Lists[d]
      PROVE  /\ Append(m.path, i) \in Seq(Nat) /\ Len(Append(m.path, i)) = n + 1 /\ Lists[d][i] \in Digests
             /\ kid(i) \in Manifests /\ kid(i) # Top /\ Lists[d][i] # NoTag
  <2>1. i \in Nat /\ Lists[d][i] \in Digests
    BY Content
  <2>2. Append(m.path, i) \in Seq(Nat) /\ Len(Append(m.path, i)) = n + 1
    BY <1>1, <2>1 DEF Depth
  <2>3. Append(m.path, i) # <<>>
    <3>1. Len(Append(m.path, i)) # 0 /\ Len(<<>>) = 0
      BY <1>1, <2>2
    <3>. QED  BY <3>1
  <2>. QED  BY <2>1, <2>2, <2>3, Content DEF Manifests, Top
<1>3. Children(m, d) \subseteq Manifests /\ \A c \in Children(m, d) : c.ref # NoTag
  BY <1>2 DEF Children
<1>4. ASSUME NEW i \in DOMAIN Lists[d]
      PROVE  Below(top, kid(i)) = {b \in Reach(n + 1, Lists[d][i]) : BytesOf[b] > 0}
  BY <1>2 DEF Below, Depth
<1>5. Still(top, Children(m, d)) = UNION {Below(top, kid(i)) : i \in DOMAIN Lists[d]}
  <2>1. \A c : c \in Children(m, d) <=> \E i \in DOMAIN Lists[d] : c = kid(i)
    BY DEF Children
  <2> HIDE DEF kid
  <2>. QED  BY <2>1 DEF Still
<1>6. Below(top, m) = {b \in Reach(n, d) : BytesOf[b] > 0}
  BY DEF Below
<1>7. \A b : b \in Reach(n, d) <=> b \in Third[d] \/ \E i \in DOMAIN Lists[d] : b \in Reach(n + 1, Lists[d][i])
  <2>1. CASE n = 0
    BY <2>1 DEF Reach, First, Over, Under, Third
  <2>2. CASE n = 1
    BY <2>2 DEF Reach, Second, Over, Under, Third
  <2>3. CASE n = 2
    BY <2>3 DEF Reach
  <2>. QED  BY <1>1, <2>1, <2>2, <2>3
<1>8. LocalBlobs(d) = {b \in Third[d] : BytesOf[b] > 0}
  BY Local
<1>9. Below(top, m) = LocalBlobs(d) \union Still(top, Children(m, d))
  <2> HIDE DEF n, kid
  <2>. QED  BY <1>4, <1>5, <1>6, <1>7, <1>8
<1>. QED  BY <1>3, <1>9
LEMMA TotalOfNone == TotalOf({}) = 0
BY SumIs, SumOfNone, Zenon DEF TotalOf

LEMMA TotalOfBoth ==
    ASSUME NEW A, A \subseteq Blobs, NEW B, B \subseteq Blobs
    PROVE  /\ TotalOf(A \union B) = TotalOf(A) + TotalOf(B \ A)
           /\ TotalOf(B \ A) <= TotalOf(B)
<1>1. A \union B \subseteq Blobs /\ A \subseteq A \union B /\ (A \union B) \ A = B \ A
  OBVIOUS
<1>2. TotalOf(A \union B) = TotalOf(A) + TotalOf(B \ A)
  BY <1>1, TotalSplit
<1> DEFINE C == B \intersect A
<1>3. C \subseteq B /\ B \ C = B \ A /\ C \subseteq Blobs /\ B \ A \subseteq Blobs
  OBVIOUS
<1> HIDE DEF C
<1>4. TotalOf(B) = TotalOf(C) + TotalOf(B \ C)
  BY <1>3, TotalSplit
<1>5. TotalOf(C) \in Nat /\ TotalOf(B \ A) \in Nat
  BY <1>3, Total
<1>. QED  BY <1>2, <1>3, <1>4, <1>5

LEMMA SizesSum ==
    ASSUME NEW s \in [Tags -> Nat]
    PROVE  /\ SumFunction(s) \in Nat
           /\ \A t \in Tags : SumOf(s, Tags \ {t}) \in Nat /\ SumFunction(s) = s[t] + SumOf(s, Tags \ {t})
<1>1. SumFunction(s) = SumOf(s, Tags)
  <2>1. DOMAIN s = Tags
    OBVIOUS
  <2>. QED  BY <2>1, SumIs, Zenon DEF SumFunction
<1>2. IsFiniteSet(Tags) /\ \A t \in Tags : s[t] \in Nat
  BY BytesAssumption
<1>3. ASSUME NEW t \in Tags PROVE IsFiniteSet(Tags \ {t}) /\ \A u \in Tags \ {t} : s[u] \in Nat
  BY <1>2, FS_Subset
<1>4. SumOf(s, Tags) \in Nat /\ \A t \in Tags : SumOf(s, Tags) = s[t] + SumOf(s, Tags \ {t})
  BY <1>2, SumLess
<1>5. \A t \in Tags : SumOf(s, Tags \ {t}) \in Nat
  BY <1>3, SumLess
<1>. QED  BY <1>1, <1>4, <1>5

\* A worker's record as it is changed.
LEMMA TodoChanged ==
    ASSUME NEW w \in WorkerRecords, NEW x \in SUBSET Manifests
    PROVE  LET new == [w EXCEPT !.todo = x]
           IN  new \in WorkerRecords /\ new.stage = w.stage /\ new.todo = x /\ new.size = w.size /\ new.blobs = w.blobs
BY DEF WorkerRecords

LEMMA Begins ==
    ASSUME NEW x \in SUBSET Manifests
    PROVE  LET new == [Waits EXCEPT !.stage = "works", !.todo = x]
           IN  new \in WorkerRecords /\ new.stage = "works" /\ new.todo = x /\ new.size = 0 /\ new.blobs = {}
BY DEF WorkerRecords, Waits

LEMMA Ended ==
    LET new == [Waits EXCEPT !.stage = "done"]
    IN  new \in WorkerRecords /\ new.stage = "done" /\ new.todo = {} /\ new.size = 0 /\ new.blobs = {}
BY DEF WorkerRecords, Waits

LEMMA ScanStarts == ASSUME StorageInit PROVE ScanInv
<1>1. PICK tags \in [Tags -> Digests \union {NoTag}], more \in SUBSET Blobs :
        repo = [tags |-> tags, blobs |-> Stored(tags) \union more]
  BY DEF StorageInit
<1>2. Stored(tags) \subseteq Blobs /\ repo.tags = tags /\ Stored(tags) \subseteq repo.blobs
  BY <1>1, StoredIs
<1>3. /\ phase = "idle" /\ totals = Unlisted /\ worker = [t \in Tags |-> Waits]
      /\ counted = {} /\ active = 0 /\ sizes = [t \in Tags |-> 0] /\ calm = TRUE
  BY DEF StorageInit
<1>4. /\ Waits \in WorkerRecords /\ Waits.stage = "waits" /\ Waits.todo = {}
      /\ Waits.size = 0 /\ Waits.blobs = {}
  BY DEF Waits, WorkerRecords
<1>5. worker \in [Tags -> WorkerRecords] /\ \A t \in Tags : worker[t] = Waits
  BY <1>3, <1>4
<1>6. totals \in [raw : Nat, tags : SUBSET Tags, listed : SUBSET Both] /\ totals.listed = {}
  BY <1>3 DEF Unlisted
<1>7. ScanTypes
  BY <1>1, <1>2, <1>3, <1>5, <1>6 DEF ScanTypes
<1>8. Bytes
  <2>1. SumFunction(sizes) \in Nat
    BY <1>3, SizesSum
  <2>2. \A t \in Tags : TotalOf(worker[t].blobs) <= worker[t].size /\ sizes[t] = 0
    BY <1>3, <1>4, <1>5, TotalOfNone
  <2>. QED  BY <1>3, <2>1, <2>2, TotalOfNone DEF Bytes
<1>9. Progress
  BY <1>3, <1>4, <1>5, <1>6 DEF Progress
<1>10. NothingLost
  BY <1>2, <1>3, <1>4, <1>5, <1>6 DEF NothingLost, Tagged
<1>. QED  BY <1>7, <1>8, <1>9, <1>10 DEF ScanInv

\* The listings, and the phases.
LEMMA ScanAdvances ==
    ASSUME ScanInv, AnalyzeDocker \/ TotalPhysicalUsage \/ CollectDockerComponents \/ DeepScan \/ Finish
    PROVE  ScanInv'
<1>1. UNCHANGED <<repo, worker, counted, active, sizes, calm>>
  BY DEF AnalyzeDocker, TotalPhysicalUsage, CollectDockerComponents, DeepScan, Finish
<1>2. Bytes'
  BY <1>1 DEF ScanInv, Bytes
<1>3. repo.blobs \subseteq Blobs /\ TotalOf(repo.blobs) \in Nat
  BY Total DEF ScanInv, ScanTypes
<1>4. CASE AnalyzeDocker
  <2>1. phase = "idle" /\ phase' = "listing" /\ UNCHANGED totals
    BY <1>4 DEF AnalyzeDocker
  <2>. QED  BY <1>1, <1>2, <2>1 DEF ScanInv, ScanTypes, Progress, NothingLost, Tagged
<1>5. CASE TotalPhysicalUsage
  <2>1. /\ phase = "listing" /\ UNCHANGED phase
        /\ totals' = [totals EXCEPT !.raw = TotalOf(repo.blobs), !.listed = @ \union {"assets"}]
    BY <1>5 DEF TotalPhysicalUsage
  <2>2. /\ totals'.raw = TotalOf(repo.blobs) /\ totals'.tags = totals.tags
        /\ totals'.listed = totals.listed \union {"assets"}
        /\ totals' \in [raw : Nat, tags : SUBSET Tags, listed : SUBSET Both]
    BY <1>3, <2>1 DEF ScanInv, ScanTypes, Both
  <2>3. ScanTypes'
    BY <1>1, <2>1, <2>2 DEF ScanInv, ScanTypes
  <2>4. Progress'
    BY <1>1, <2>1, <2>2 DEF ScanInv, Progress
  <2>5. NothingLost'
    BY <1>1, <2>2 DEF ScanInv, NothingLost, Tagged
  <2>. QED  BY <1>2, <2>3, <2>4, <2>5 DEF ScanInv
<1>6. CASE CollectDockerComponents
  <2>1. /\ phase = "listing" /\ UNCHANGED phase
        /\ totals' = [totals EXCEPT !.tags = Tagged, !.listed = @ \union {"components"}]
    BY <1>6 DEF CollectDockerComponents, Tagged
  <2>2. /\ totals'.raw = totals.raw /\ totals'.tags = Tagged
        /\ totals'.listed = totals.listed \union {"components"}
        /\ totals' \in [raw : Nat, tags : SUBSET Tags, listed : SUBSET Both]
    BY <2>1 DEF ScanInv, ScanTypes, Both, Tagged
  <2>3. ScanTypes'
    BY <1>1, <2>1, <2>2 DEF ScanInv, ScanTypes
  <2>4. Progress'
    BY <1>1, <2>1, <2>2 DEF ScanInv, Progress
  <2>5. NothingLost'
    BY <1>1, <2>2 DEF ScanInv, NothingLost, Tagged
  <2>. QED  BY <1>2, <2>3, <2>4, <2>5 DEF ScanInv
<1>7. CASE DeepScan
  <2>1. /\ phase = "listing" /\ totals.listed = Both /\ UNCHANGED totals
        /\ phase' = IF totals.tags = {} THEN "over" ELSE "scanning"
    BY <1>7 DEF DeepScan, Both
  <2>2. ScanTypes'
    BY <1>1, <2>1 DEF ScanInv, ScanTypes
  <2>3. Progress'
    BY <1>1, <2>1 DEF ScanInv, Progress
  <2>4. NothingLost'
    BY <1>1, <2>1 DEF ScanInv, NothingLost, Tagged
  <2>. QED  BY <1>2, <2>2, <2>3, <2>4 DEF ScanInv
<1>8. CASE Finish
  <2>1. /\ phase = "scanning" /\ phase' = "over" /\ UNCHANGED totals
        /\ \A t \in totals.tags : worker[t].stage = "done"
    BY <1>8 DEF Finish
  <2>2. ScanTypes'
    BY <1>1, <2>1 DEF ScanInv, ScanTypes
  <2>3. Progress'
    BY <1>1, <2>1 DEF ScanInv, Progress
  <2>4. NothingLost'
    BY <1>1, <2>1 DEF ScanInv, NothingLost, Tagged
  <2>. QED  BY <1>2, <2>2, <2>3, <2>4 DEF ScanInv
<1>. QED  BY <1>4, <1>5, <1>6, <1>7, <1>8

LEMMA ScanDisturbed == ASSUME ScanInv, NEW t \in Tags, PushOrDelete(t) PROVE ScanInv'
<1>1. /\ phase # "idle" /\ calm' = FALSE
      /\ UNCHANGED <<phase, totals, worker, counted, active, sizes>>
  BY DEF PushOrDelete, Happens
<1>2. PICK d \in Digests \union {NoTag} :
        repo' = [tags |-> [repo.tags EXCEPT ![t] = d],
                 blobs |-> repo.blobs \union Stored([repo.tags EXCEPT ![t] = d])]
  BY DEF PushOrDelete
<1> DEFINE tags == [repo.tags EXCEPT ![t] = d]
<1>3. tags \in [Tags -> Digests \union {NoTag}] /\ repo.blobs \subseteq Blobs
  BY DEF ScanInv, ScanTypes
<1>4. Stored(tags) \subseteq Blobs
  BY <1>3, StoredIs
<1>5. repo'.tags = tags /\ repo'.blobs = repo.blobs \union Stored(tags) /\ repo' = [tags |-> tags, blobs |-> repo'.blobs]
  BY <1>2
<1> HIDE DEF tags
<1>6. ScanTypes'
  BY <1>1, <1>3, <1>4, <1>5 DEF ScanInv, ScanTypes
<1>7. Bytes' /\ Progress'
  BY <1>1 DEF ScanInv, Bytes, Progress
<1>8. NothingLost'
  BY <1>1, <1>5 DEF NothingLost
<1>. QED  BY <1>6, <1>7, <1>8 DEF ScanInv

\* A worker that moves within its tag.
LEMMA WorkerMoves ==
    ASSUME ScanInv, NEW t \in Tags, NEW w \in WorkerRecords, WorkerIs(t, w),
           UNCHANGED <<repo, phase, totals, counted, active, sizes>>,
           calm' \in BOOLEAN, calm' => calm,
           worker[t].stage # "done", w.stage = "works", TotalOf(w.blobs) <= w.size,
           phase = "scanning", t \in totals.tags, \A m \in w.todo : m = Top \/ m.ref # NoTag,
           calm' => w.blobs \union Still(repo.tags[t], w.todo) = Counts(repo.tags[t])
    PROVE  ScanInv'
<1>1. worker \in [Tags -> WorkerRecords] /\ worker' = [worker EXCEPT ![t] = w]
  BY DEF ScanInv, ScanTypes, WorkerIs
<1>2. worker' \in [Tags -> WorkerRecords] /\ worker'[t] = w /\ \A u \in Tags : u # t => worker'[u] = worker[u]
  BY <1>1
<1>3. ScanTypes'
  BY <1>2 DEF ScanInv, ScanTypes
<1>4. Bytes'
  <2>1. \A u \in Tags : /\ TotalOf(worker'[u].blobs) <= worker'[u].size
                        /\ worker'[u].stage # "done" => sizes[u] = 0
    BY <1>2 DEF ScanInv, Bytes
  <2>. QED  BY <2>1 DEF ScanInv, Bytes
<1>5. Progress'
  BY <1>2 DEF ScanInv, Progress
<1>6. NothingLost'
  <2>1. ASSUME calm', NEW u \in Tagged
        PROVE  /\ worker'[u].stage = "works" =>
                    worker'[u].blobs \union Still(repo.tags[u], worker'[u].todo) = Counts(repo.tags[u])
               /\ worker'[u].stage = "done" => Counts(repo.tags[u]) \subseteq counted
    <3>1. CASE u = t
      BY <1>2, <2>1, <3>1
    <3>2. CASE u # t
      <4>1. worker'[u] = worker[u] /\ calm
        BY <1>2, <2>1, <3>2 DEF Tagged
      <4>. QED  BY <4>1 DEF ScanInv, NothingLost
    <3>. QED  BY <3>1, <3>2
  <2>2. Tagged' = Tagged
    BY DEF Tagged
  <2>. QED  BY <2>1, <2>2 DEF ScanInv, NothingLost
<1>. QED  BY <1>3, <1>4, <1>5, <1>6 DEF ScanInv

LEMMA ScanBegins == ASSUME ScanInv, NEW t \in Tags, Bounded(t) PROVE ScanInv'
<1> DEFINE w == [Waits EXCEPT !.stage = "works", !.todo = {Top}]
<1>1. /\ phase = "scanning" /\ t \in totals.tags /\ worker[t].stage = "waits" /\ WorkerIs(t, w)
      /\ UNCHANGED <<repo, phase, totals, counted, active, sizes, calm>>
  BY DEF Bounded
<1>3. Top \in Manifests /\ Depth(Top) = 0
  BY DEF Top, Manifests, Depth
<1>4. w \in WorkerRecords /\ w.stage = "works" /\ w.todo = {Top} /\ w.size = 0 /\ w.blobs = {}
  <2>1. {Top} \in SUBSET Manifests
    BY <1>3
  <2>. QED  BY <2>1, Begins
<1>5. TotalOf(w.blobs) <= w.size
  BY <1>4, TotalOfNone
<1>6. Still(repo.tags[t], {Top}) = Counts(repo.tags[t])
  BY <1>3 DEF Still, Below, Reach, Counts
<1>7. calm \in BOOLEAN
  BY DEF ScanInv, ScanTypes
<1> HIDE DEF w
<1>. QED  BY <1>1, <1>4, <1>5, <1>6, <1>7, WorkerMoves

\* What a worker at work may rely on.
LEMMA AtWork ==
    ASSUME ScanInv, NEW t \in Tags, worker[t].stage = "works"
    PROVE  /\ phase = "scanning" /\ t \in totals.tags /\ worker[t] \in WorkerRecords
           /\ TotalOf(worker[t].blobs) <= worker[t].size /\ worker[t].blobs \subseteq Positive
           /\ \A m \in worker[t].todo : m \in Manifests /\ (m = Top \/ m.ref # NoTag)
           /\ calm => /\ t \in Tagged
                      /\ worker[t].blobs \union Still(repo.tags[t], worker[t].todo) = Counts(repo.tags[t])
           /\ repo.tags[t] \in Digests \union {NoTag} /\ calm \in BOOLEAN
<1>1. t \in totals.tags /\ phase \in {"scanning", "over"}
  BY DEF ScanInv, Progress
<1>2. phase = "scanning"
  BY <1>1 DEF ScanInv, Progress
<1>3. worker[t] \in WorkerRecords /\ repo.tags[t] \in Digests \union {NoTag} /\ calm \in BOOLEAN
  BY DEF ScanInv, ScanTypes
<1>4. calm => t \in Tagged
  BY <1>1, <1>2 DEF ScanInv, Progress, NothingLost, Both
<1>5. calm => worker[t].blobs \union Still(repo.tags[t], worker[t].todo) = Counts(repo.tags[t])
  BY <1>4 DEF ScanInv, NothingLost
<1>6. worker[t].blobs \subseteq Positive /\ \A m \in worker[t].todo : m \in Manifests
  BY <1>3 DEF WorkerRecords
<1>7. \A m \in worker[t].todo : m = Top \/ m.ref # NoTag
  BY DEF ScanInv, Progress
<1>. QED  BY <1>1, <1>2, <1>3, <1>4, <1>5, <1>6, <1>7 DEF ScanInv, Bytes

LEMMA ScanFetches ==
    ASSUME ScanInv, NEW t \in Tags, NEW m \in worker[t].todo, ProcessManifest(t, m)
    PROVE  ScanInv'
<1> DEFINE d    == Manifest(t, m)
           w    == worker[t]
           top  == repo.tags[t]
           rest == w.todo \ {m}
<1>1. w.stage = "works" /\ d # NoTag /\ UNCHANGED <<repo, phase, totals, counted, active, sizes, calm>>
  BY DEF ProcessManifest
<1>2. /\ phase = "scanning" /\ t \in totals.tags /\ w \in WorkerRecords
      /\ TotalOf(w.blobs) <= w.size /\ w.blobs \subseteq Positive
      /\ \A x \in w.todo : x \in Manifests /\ (x = Top \/ x.ref # NoTag)
      /\ calm => w.blobs \union Still(top, w.todo) = Counts(top)
      /\ top \in Digests \union {NoTag} /\ calm \in BOOLEAN
  BY <1>1, AtWork
<1>3. m \in Manifests /\ d = (IF m = Top THEN top ELSE m.ref) /\ d \in Digests
  BY <1>1, <1>2 DEF Manifest, Manifests
<1>4. Still(top, w.todo) = Below(top, m) \union Still(top, rest)
  BY DEF Still
<1>5. CASE Depth(m) > MaxManifestDepth
  <2> DEFINE new == [w EXCEPT !.todo = rest]
  <2>1. WorkerIs(t, new)
    BY <1>5 DEF ProcessManifest
  <2>2. Below(top, m) = {}
    BY <1>5 DEF Below, Reach, MaxManifestDepth
  <2>3. rest \in SUBSET Manifests
    BY <1>2
  <2>4. new \in WorkerRecords /\ new.stage = w.stage /\ new.todo = rest /\ new.size = w.size /\ new.blobs = w.blobs
    BY <1>2, <2>3, TodoChanged
  <2>5. new.stage = "works"
    BY <1>1, <2>4
  <2>6. calm => new.blobs \union Still(top, new.todo) = Counts(top)
    BY <1>2, <1>4, <2>2, <2>4
  <2>7. \A x \in new.todo : x = Top \/ x.ref # NoTag
    BY <1>2, <2>4
  <2> HIDE DEF new
  <2>. QED  BY <1>1, <1>2, <2>1, <2>4, <2>5, <2>6, <2>7, WorkerMoves
<1>6. CASE ~(Depth(m) > MaxManifestDepth)
  <2> DEFINE kids == Children(m, d)
             left == rest \union kids
             n    == w.size + LocalSize(d)
             b    == w.blobs \union LocalBlobs(d)
             new  == [w EXCEPT !.todo = left, !.size = n, !.blobs = b]
  <2>1. WorkerIs(t, new)
    BY <1>6 DEF ProcessManifest
  <2>2. Depth(m) <= MaxManifestDepth
    BY <1>3, <1>6 DEF Depth, Manifests, MaxManifestDepth
  <2>3. /\ kids \subseteq Manifests /\ \A c \in kids : c.ref # NoTag
        /\ Below(top, m) = LocalBlobs(d) \union Still(top, kids)
    BY <1>3, <2>2, Fetched
  <2>4. LocalBlobs(d) \subseteq Positive /\ LocalSize(d) \in Nat /\ TotalOf(LocalBlobs(d)) <= LocalSize(d)
    BY <1>3, Local
  <2>5. w.size \in Nat /\ rest \subseteq Manifests /\ Positive \subseteq Blobs
    BY <1>2 DEF WorkerRecords, Positive
  <2> HIDE DEF kids
  <2>6. w.size + LocalSize(d) \in Nat /\ rest \union kids \in SUBSET Manifests
    BY <2>3, <2>4, <2>5
  <2>7. w.blobs \union LocalBlobs(d) \in SUBSET Positive
    BY <1>2, <2>4
  <2>8. /\ new \in WorkerRecords /\ new.stage = w.stage /\ new.blobs = w.blobs \union LocalBlobs(d)
        /\ new.size = w.size + LocalSize(d) /\ new.todo = rest \union kids
    <3>1. left \in SUBSET Manifests /\ n \in Nat /\ b \in SUBSET Positive
      BY <2>6, <2>7
    <3> HIDE DEF left, n, b, w
    <3>2. new = [w EXCEPT !.todo = left, !.size = n, !.blobs = b]
      OBVIOUS
    <3> HIDE DEF new
    <3>3. /\ new \in WorkerRecords /\ new.stage = w.stage /\ new.blobs = b /\ new.size = n
          /\ new.todo = left
      <4>1. w \in WorkerRecords
        BY <1>2
      <4>2. left \in SUBSET Manifests
        BY <3>1
      <4>3. n \in Nat
        BY <3>1
      <4>4. b \in SUBSET Positive
        BY <3>1
      <4>. QED  BY <3>2, <4>1, <4>2, <4>3, <4>4 DEF WorkerRecords
    <3>. QED  BY <3>3 DEF left, n, b
  <2>9. /\ new.stage = "works" /\ new.blobs = w.blobs \union LocalBlobs(d)
        /\ new.size = w.size + LocalSize(d) /\ new.todo = rest \union kids
    BY <1>1, <2>8
  <2>10. TotalOf(new.blobs) <= new.size
    <3>1. w.blobs \subseteq Blobs /\ LocalBlobs(d) \subseteq Blobs /\ LocalBlobs(d) \ w.blobs \subseteq Blobs
      BY <1>2, <2>4, <2>5
    <3>2. /\ TotalOf(new.blobs) = TotalOf(w.blobs) + TotalOf(LocalBlobs(d) \ w.blobs)
          /\ TotalOf(LocalBlobs(d) \ w.blobs) <= TotalOf(LocalBlobs(d))
      BY <2>9, <3>1, TotalOfBoth
    <3>3. TotalOf(w.blobs) \in Nat /\ TotalOf(LocalBlobs(d)) \in Nat /\ TotalOf(LocalBlobs(d) \ w.blobs) \in Nat
      BY <3>1, Total
    <3> HIDE DEF w, d, new
    <3>. QED  BY <1>2, <2>4, <2>5, <2>9, <3>2, <3>3
  <2>11. Still(top, rest \union kids) = Still(top, rest) \union Still(top, kids)
    BY DEF Still
  <2>12. calm => new.blobs \union Still(top, new.todo) = Counts(top)
    <3> HIDE DEF w, d, new, rest, top
    <3>. QED  BY <1>2, <1>4, <2>3, <2>9, <2>11
  <2>13. \A x \in new.todo : x = Top \/ x.ref # NoTag
    BY <1>2, <2>3, <2>9
  <2> HIDE DEF new
  <2>. QED  BY <1>1, <1>2, <2>1, <2>8, <2>9, <2>10, <2>12, <2>13, WorkerMoves
<1>. QED  BY <1>5, <1>6

LEMMA ScanFails ==
    ASSUME ScanInv, NEW t \in Tags, NEW m \in worker[t].todo, FetchFails(t, m)
    PROVE  ScanInv'
<1> DEFINE w   == worker[t]
           new == [w EXCEPT !.todo = @ \ {m}]
<1>1. w.stage = "works" /\ WorkerIs(t, new) /\ UNCHANGED <<repo, phase, totals, counted, active, sizes>>
  BY DEF FetchFails
<1>2. /\ phase = "scanning" /\ t \in totals.tags /\ w \in WorkerRecords
      /\ TotalOf(w.blobs) <= w.size
      /\ \A x \in w.todo : x \in Manifests /\ (x = Top \/ x.ref # NoTag)
      /\ calm => t \in Tagged
      /\ calm \in BOOLEAN
  BY <1>1, AtWork
<1>3. /\ calm' \in BOOLEAN
      /\ \/ ~calm'
         \/ (calm' = calm /\ Manifest(t, m) = NoTag)
  BY <1>2 DEF FetchFails, Happens
<1>4. Manifest(t, m) = NoTag => ~calm
  BY <1>2 DEF Manifest, Tagged
<1>5. w.todo \ {m} \in SUBSET Manifests
  BY <1>2
<1>6. /\ new \in WorkerRecords /\ new.stage = w.stage /\ new.blobs = w.blobs /\ new.size = w.size
      /\ new.todo = w.todo \ {m}
  BY <1>2, <1>5, TodoChanged
<1>7. new.stage = "works"
  BY <1>1, <1>6
<1>8. \A x \in new.todo : x = Top \/ x.ref # NoTag
  BY <1>2, <1>6
<1>9. calm' \in BOOLEAN /\ ~calm'
  BY <1>2, <1>3, <1>4
<1> HIDE DEF new
<1>. QED  BY <1>1, <1>2, <1>6, <1>7, <1>8, <1>9, WorkerMoves

LEMMA ScanCounts == ASSUME ScanInv, NEW t \in Tags, AccumulateBlobs(t) PROVE ScanInv'
<1> DEFINE w == worker[t]
<1>1. /\ w.stage = "works" /\ w.todo = {} /\ sizes' = [sizes EXCEPT ![t] = w.size]
      /\ active' = active + TotalOf(w.blobs \ counted) /\ counted' = counted \union w.blobs
      /\ WorkerIs(t, [Waits EXCEPT !.stage = "done"]) /\ UNCHANGED <<repo, phase, totals, calm>>
  BY DEF AccumulateBlobs, Added
<1>2. /\ phase = "scanning" /\ t \in totals.tags /\ w \in WorkerRecords
      /\ TotalOf(w.blobs) <= w.size /\ w.blobs \subseteq Positive
      /\ calm => t \in Tagged /\ w.blobs \union Still(repo.tags[t], w.todo) = Counts(repo.tags[t])
  BY <1>1, AtWork
<1>3. /\ worker \in [Tags -> WorkerRecords] /\ counted \subseteq Positive /\ sizes \in [Tags -> Nat]
      /\ active \in Nat /\ active = TotalOf(counted) /\ active <= SumFunction(sizes) /\ sizes[t] = 0
      /\ w.size \in Nat
  BY <1>1, <1>2 DEF ScanInv, ScanTypes, Bytes, WorkerRecords
<1>4. w.blobs \subseteq Blobs /\ counted \subseteq Blobs /\ w.blobs \ counted \subseteq Blobs
  BY <1>2, <1>3 DEF Positive
<1>5. TotalOf(w.blobs \ counted) \in Nat /\ TotalOf(w.blobs) \in Nat
  BY <1>4, Total
<1>6. /\ TotalOf(counted') = TotalOf(counted) + TotalOf(w.blobs \ counted)
      /\ TotalOf(w.blobs \ counted) <= TotalOf(w.blobs)
  BY <1>1, <1>4, TotalOfBoth
<1> DEFINE done == [Waits EXCEPT !.stage = "done"]
<1>7. done \in WorkerRecords /\ worker' = [worker EXCEPT ![t] = done]
  BY <1>1, Ended DEF WorkerIs
<1>8. /\ worker' \in [Tags -> WorkerRecords] /\ worker'[t] = done
      /\ \A u \in Tags : u # t => worker'[u] = worker[u]
  BY <1>3, <1>7
<1>9. /\ done.stage = "done" /\ done.todo = {} /\ done.blobs = {} /\ done.size = 0
      /\ TotalOf(done.blobs) <= done.size
  BY TotalOfNone, Ended
<1>10. sizes' \in [Tags -> Nat] /\ sizes'[t] = w.size /\ \A u \in Tags \ {t} : sizes'[u] = sizes[u]
  BY <1>1, <1>3
<1> HIDE DEF done, w
<1>11. ScanTypes'
  BY <1>1, <1>2, <1>3, <1>5, <1>8, <1>10 DEF ScanInv, ScanTypes
<1>12. Bytes'
  <2>1. active' <= SumFunction(sizes')
    <3>1. /\ SumFunction(sizes) = sizes[t] + SumOf(sizes, Tags \ {t})
          /\ SumFunction(sizes') = sizes'[t] + SumOf(sizes', Tags \ {t})
          /\ SumOf(sizes, Tags \ {t}) \in Nat
      BY <1>3, <1>10, SizesSum
    <3>2. IsFiniteSet(Tags \ {t})
      BY BytesAssumption, FS_Subset
    <3>3. SumOf(sizes', Tags \ {t}) = SumOf(sizes, Tags \ {t})
      BY <1>10, <3>2, SumSame
    <3>. QED  BY <1>1, <1>2, <1>3, <1>5, <1>6, <1>10, <3>1, <3>3
  <2>2. active' = TotalOf(counted')
    BY <1>1, <1>3, <1>6
  <2>3. \A u \in Tags : /\ TotalOf(worker'[u].blobs) <= worker'[u].size
                        /\ worker'[u].stage # "done" => sizes'[u] = 0
    BY <1>8, <1>9, <1>10 DEF ScanInv, Bytes
  <2>. QED  BY <2>1, <2>2, <2>3 DEF Bytes
<1>13. Progress'
  BY <1>1, <1>2, <1>8, <1>9 DEF ScanInv, Progress
<1>14. NothingLost'
  <2>1. Tagged' = Tagged
    BY <1>1 DEF Tagged
  <2>2. calm => w.blobs = Counts(repo.tags[t])
    BY <1>1, <1>2 DEF Still
  <2>3. ASSUME calm PROVE counted' \subseteq Stored(repo.tags)
    <3>1. repo.tags \in [Tags -> Digests \union {NoTag}] /\ repo.tags[t] # NoTag
      BY <1>2, <2>3 DEF ScanInv, ScanTypes, Tagged
    <3>2. \A b \in Counts(repo.tags[t]) : b \in Stored(repo.tags)
      BY <3>1, StoredIs DEF Counts
    <3>3. counted \subseteq Stored(repo.tags)
      BY <2>3 DEF ScanInv, NothingLost
    <3>. QED  BY <1>1, <2>2, <2>3, <3>2, <3>3
  <2>4. ASSUME calm, NEW u \in Tagged
        PROVE  /\ worker'[u].stage = "works" =>
                    worker'[u].blobs \union Still(repo.tags[u], worker'[u].todo) = Counts(repo.tags[u])
               /\ worker'[u].stage = "done" => Counts(repo.tags[u]) \subseteq counted'
    <3>1. CASE u = t
      BY <1>1, <1>8, <1>9, <2>2, <2>4, <3>1
    <3>2. CASE u # t
      <4>1. worker'[u] = worker[u] /\ counted \subseteq counted'
        BY <1>1, <1>8, <3>2 DEF Tagged
      <4>. QED  BY <2>4, <4>1 DEF ScanInv, NothingLost
    <3>. QED  BY <3>1, <3>2
  <2>5. calm => /\ "assets" \in totals.listed => totals.raw = TotalOf(repo.blobs)
                /\ "components" \in totals.listed => totals.tags = Tagged
    BY DEF ScanInv, NothingLost
  <2>6. Stored(repo.tags) \subseteq repo.blobs
    BY DEF ScanInv, NothingLost
  <2>. QED  BY <1>1, <2>1, <2>3, <2>4, <2>5, <2>6 DEF NothingLost
<1>. QED  BY <1>11, <1>12, <1>13, <1>14 DEF ScanInv

LEMMA ScanGoesOn == ASSUME ScanInv, [StorageNext]_scanVars PROVE ScanInv'
<1>1. CASE StorageNext
  BY <1>1, ScanAdvances, ScanDisturbed, ScanBegins, ScanFetches, ScanFails, ScanCounts DEF StorageNext
<1>2. CASE UNCHANGED scanVars
  BY <1>2 DEF scanVars, ScanInv, ScanTypes, Bytes, Progress, NothingLost, Tagged
<1>. QED  BY <1>1, <1>2

LEMMA ScanMeans == ASSUME ScanInv PROVE StorageTyped /\ ActiveIsWhatTagsUse
<1>1. StorageTyped
  BY DEF ScanInv, ScanTypes, StorageTyped, Positive, WorkerRecords
<1>2. active = TotalOf(counted) /\ active <= SumFunction(sizes)
  BY DEF ScanInv, Bytes
<1>3. ASSUME phase = "over", calm
      PROVE  /\ counted = {b \in Stored(repo.tags) : BytesOf[b] > 0}
             /\ Wasted = TotalOf(repo.blobs \ Stored(repo.tags))
  <2> DEFINE used == Stored(repo.tags)
  <2>1. /\ totals.listed = Both /\ \A t \in totals.tags : worker[t].stage = "done"
    BY <1>3 DEF ScanInv, Progress
  <2>2. totals.tags = Tagged /\ totals.raw = TotalOf(repo.blobs)
    BY <1>3, <2>1 DEF ScanInv, NothingLost, Both
  <2>3. repo.tags \in [Tags -> Digests \union {NoTag}] /\ repo.blobs \subseteq Blobs
        /\ counted \subseteq Positive /\ counted \subseteq used /\ used \subseteq repo.blobs
    BY <1>3 DEF ScanInv, ScanTypes, NothingLost
  <2>4. \A t \in Tagged : Counts(repo.tags[t]) \subseteq counted
    BY <1>3, <2>1, <2>2 DEF ScanInv, NothingLost
  <2>5. \A b \in used : BytesOf[b] > 0 => b \in counted
    BY <2>3, <2>4, StoredIs DEF Tagged, Counts
  <2>6. counted = {b \in used : BytesOf[b] > 0}
    BY <2>3, <2>5 DEF Positive
  <2>7. used \subseteq Blobs /\ repo.blobs \ used \subseteq Blobs
    BY <2>3
  <2> HIDE DEF used
  <2>8. TotalOf(used) = active
    BY <1>2, <2>6, <2>7, TotalOfSized
  <2>9. TotalOf(repo.blobs) = TotalOf(used) + TotalOf(repo.blobs \ used)
    BY <2>3, TotalSplit
  <2>10. TotalOf(used) \in Nat /\ TotalOf(repo.blobs \ used) \in Nat
    BY <2>7, Total
  <2>11. Wasted = TotalOf(repo.blobs \ used)
    BY <2>2, <2>8, <2>9, <2>10 DEF Wasted
  <2>. QED  BY <2>6, <2>11 DEF used
<1>. QED  BY <1>1, <1>2, <1>3 DEF ActiveIsWhatTagsUse

-----------------------------------------------------------------------------
(* The types of all parts: what the invariants above do not say yet.       *)

Databases == [Scanners -> [present : BOOLEAN, current : BOOLEAN, loads : BOOLEAN]]

DatabasesInv ==
    /\ booted \in BOOLEAN /\ currentJob \in DbJobs \union {NoJob}
    /\ database \in Databases /\ verdict \in {"none", "usable", "unusable"}

LEMMA GoodDatabase ==
    /\ Good \in [present : BOOLEAN, current : BOOLEAN, loads : BOOLEAN]
    /\ Missing \in [present : BOOLEAN, current : BOOLEAN, loads : BOOLEAN]
    /\ [Good EXCEPT !.current = FALSE] \in [present : BOOLEAN, current : BOOLEAN, loads : BOOLEAN]
    /\ \A b \in BOOLEAN : [Good EXCEPT !.loads = b] \in [present : BOOLEAN, current : BOOLEAN, loads : BOOLEAN]
BY DEF Good, Missing

LEMMA DatabasesStart == UpdatesInit => DatabasesInv
BY GoodDatabase DEF UpdatesInit, DatabasesInv, Databases

LEMMA DatabaseSet ==
    ASSUME database \in Databases, NEW s, NEW d \in [present : BOOLEAN, current : BOOLEAN, loads : BOOLEAN],
           database' = [database EXCEPT ![s] = d]
    PROVE  database' \in Databases
BY DEF Databases

LEMMA DatabasesStep == JobsInv /\ DatabasesInv /\ [UpdatesNext]_updateVars => DatabasesInv'
<1> SUFFICES ASSUME JobsInv, DatabasesInv, [UpdatesNext]_updateVars PROVE DatabasesInv'
  OBVIOUS
<1>1. CASE SetEnabledScanners \/ UNCHANGED updateVars
  BY <1>1 DEF SetEnabledScanners, updateVars, DatabasesInv
<1>2. CASE Readiness \/ VerdictExpires
  BY <1>2 DEF Readiness, VerdictExpires, Remembered, DatabasesInv
<1>3. CASE BuildPublished
  BY <1>3 DEF BuildPublished, DatabasesInv, Databases
<1>4. ASSUME NEW j \in DbJobs, EnqueueDbUpdate(j) \/ EnqueueDbImport(j) PROVE DatabasesInv'
  BY <1>4 DEF EnqueueDbUpdate, EnqueueDbImport, EnqueueDbJob, DatabasesInv
<1>5. ASSUME NEW j \in DbJobs, FetchMissingAtStartup(j) PROVE DatabasesInv'
  BY <1>5 DEF FetchMissingAtStartup, EnqueueDbJob, Remembered, DatabasesInv
<1>6. ASSUME NEW j \in DbJobs,
             \/ BeginDbJob(j) \/ NextScanner(j) \/ PullResumable(j) \/ OrasPullRetrying(j)
             \/ RunIsolatedUpdate(j) \/ CancelDbJob(j)
      PROVE  DatabasesInv'
  BY <1>6 DEF BeginDbJob, NextScanner, PullResumable, OrasPullRetrying, RunIsolatedUpdate, CancelDbJob,
     DiskUnchanged, DatabasesInv
<1>7. ASSUME NEW j \in DbJobs, InstallTrivyDb(j) \/ OwnDownloader(j) \/ GrypeDbUpdate(j) \/ ImportOffline(j)
      PROVE  DatabasesInv'
  <2>1. UNCHANGED <<verdict, currentJob, booted>>
    BY <1>7 DEF InstallTrivyDb, OwnDownloader, GrypeDbUpdate, ImportOffline
  <2>2. \/ UNCHANGED database
        \/ \E s, d : /\ database' = [database EXCEPT ![s] = d]
                     /\ d = database[s] \/ d = Good \/ \E b \in BOOLEAN : d = [Good EXCEPT !.loads = b]
    <3>1. CASE InstallTrivyDb(j)
      BY <3>1 DEF InstallTrivyDb
    <3>2. CASE OwnDownloader(j)
      BY <3>2 DEF OwnDownloader
    <3>3. CASE GrypeDbUpdate(j)
      BY <3>3 DEF GrypeDbUpdate
    <3>4. CASE ImportOffline(j)
      <4>1. \/ database' = [database EXCEPT ![Scanner(j)] = Good]
            \/ \E left \in {database[Scanner(j)], [Good EXCEPT !.loads = FALSE]} :
                 database' = [database EXCEPT ![Scanner(j)] = left]
        BY <3>4 DEF ImportOffline
      <4>. QED  BY <4>1
    <3>. QED  BY <1>7, <3>1, <3>2, <3>3, <3>4
  <2>3. database' \in Databases
    <3>1. CASE UNCHANGED database
      BY <3>1 DEF DatabasesInv
    <3>2. ASSUME NEW s, NEW d, database' = [database EXCEPT ![s] = d],
                 d = database[s] \/ d = Good \/ \E b \in BOOLEAN : d = [Good EXCEPT !.loads = b]
          PROVE  database' \in Databases
      <4>1. CASE d = database[s]
        BY <3>2, <4>1 DEF DatabasesInv, Databases
      <4>2. CASE d # database[s]
        <5>1. d \in [present : BOOLEAN, current : BOOLEAN, loads : BOOLEAN]
          BY <3>2, <4>2, GoodDatabase
        <5>. QED  BY <3>2, <5>1, DatabaseSet DEF DatabasesInv
      <4>. QED  BY <4>1, <4>2
    <3>. QED  BY <2>2, <3>1, <3>2
  <2>. QED  BY <2>1, <2>3 DEF DatabasesInv
<1>8. ASSUME NEW j \in DbJobs, GrypeUpdateResult(j) PROVE DatabasesInv'
  BY <1>8 DEF GrypeUpdateResult, Remembered, DatabasesInv
<1>. QED  BY <1>1, <1>2, <1>3, <1>4, <1>5, <1>6, <1>7, <1>8 DEF UpdatesNext

LEMMA UpdatesTypes == JobsInv /\ DatabasesInv => UpdatesTyped
<1> SUFFICES ASSUME JobsInv, DatabasesInv PROVE UpdatesTyped
  OBVIOUS
<1>1. ASSUME NEW j \in DbJobs
      PROVE  /\ dbJob[j].stage \in Updating \union {"none", "queued", "next", "import", "done", "cancelled"}
             /\ dbJob[j].attempt \in 1..(Retries + 1)
             /\ \A s \in DOMAIN dbJob[j].answers : s \in Scanners /\ dbJob[j].answers[s] \in Results
             /\ Named(dbJob[j].todo) \intersect DOMAIN dbJob[j].answers = {}
  <2>1. dbJob[j] \in DbJobRecord /\ Accounted(dbJob[j])
    BY DEF JobsInv
  <2>2. PICK S \in SUBSET Scanners : dbJob[j].answers \in [S -> Results]
    BY <2>1 DEF DbJobRecord, Answers
  <2>. QED  BY <2>1, <2>2 DEF DbJobRecord, DbStages, Accounted
<1>. QED  BY <1>1 DEF UpdatesTyped, JobsInv, DatabasesInv, Databases

-----------------------------------------------------------------------------
\* A write that goes on has a build left to install.
BuildsInv ==
    /\ canonical \in [build : 0..MaxBuilds, whole : BOOLEAN]
    /\ replica \in [SlotIds -> [build : 0..MaxBuilds, whole : BOOLEAN, time : 0..MaxBuilds]]
    /\ orphans \subseteq SlotIds /\ restarts \in 0..MaxRestarts
    /\ \A w \in Writers : writer[w] = "writing" => canonical.build < MaxBuilds

LEMMA ReplicaRecords ==
    ASSUME BuildsInv
    PROVE  /\ NoReplica \in [build : 0..MaxBuilds, whole : BOOLEAN, time : 0..MaxBuilds]
           /\ Begun \in [build : 0..MaxBuilds, whole : BOOLEAN, time : 0..MaxBuilds]
           /\ HalfCopy \in [build : 0..MaxBuilds, whole : BOOLEAN, time : 0..MaxBuilds]
           /\ \A s : CopyInto(s) \in [build : 0..MaxBuilds, whole : BOOLEAN, time : 0..MaxBuilds]
<1>1. 0 \in 0..MaxBuilds /\ canonical.build \in 0..MaxBuilds /\ canonical.whole \in BOOLEAN
  BY PoolAssumption DEF BuildsInv
<1>2. \A s : (canonical.whole /\ replica[s].build = canonical.build /\ Writing = {}) \in BOOLEAN
  BY <1>1
<1>. QED  BY <1>1, <1>2 DEF NoReplica, Begun, HalfCopy, CopyInto

LEMMA BuildsStart == ReplicasInit => BuildsInv
<1> SUFFICES ASSUME ReplicasInit PROVE BuildsInv
  OBVIOUS
<1>1. 0 \in 0..MaxBuilds /\ 1 \in 0..MaxBuilds /\ 0 \in 0..MaxRestarts
  BY PoolAssumption
<1>2. NoReplica \in [build : 0..MaxBuilds, whole : BOOLEAN, time : 0..MaxBuilds]
  BY <1>1 DEF NoReplica
<1>. QED  BY <1>1, <1>2 DEF ReplicasInit, BuildsInv

LEMMA ReplicaSet ==
    ASSUME BuildsInv, NEW s, NEW r \in [build : 0..MaxBuilds, whole : BOOLEAN, time : 0..MaxBuilds],
           replica' = [replica EXCEPT ![s] = r], UNCHANGED <<canonical, orphans, restarts, writer>>
    PROVE  BuildsInv'
BY DEF BuildsInv

LEMMA BuildsStep == SlotInv /\ LockInv /\ BuildsInv /\ [ReplicasNext]_replicaVars => BuildsInv'
<1> SUFFICES ASSUME SlotInv, LockInv, BuildsInv, [ReplicasNext]_replicaVars PROVE BuildsInv'
  OBVIOUS
<1>1. CASE UNCHANGED replicaVars
  BY <1>1 DEF replicaVars, BuildsInv
<1>2. ASSUME NEW j \in Scans, ScanImage(j) \/ CheckoutReplica(j) \/ CheckinReplica(j) \/ AskScan(j) PROVE BuildsInv'
  BY <1>2 DEF ScanImage, CheckoutReplica, CheckinReplica, AskScan, BuildsInv
<1>3. ASSUME NEW j \in Scans, RefreshReplica(j) PROVE BuildsInv'
  <2>1. UNCHANGED <<canonical, orphans, restarts, writer>>
        /\ (UNCHANGED replica \/ replica' = [replica EXCEPT ![scan[j].slot] = Begun])
    BY <1>3 DEF RefreshReplica
  <2>2. CASE UNCHANGED replica
    BY <2>1, <2>2 DEF BuildsInv
  <2>3. CASE replica' = [replica EXCEPT ![scan[j].slot] = Begun]
    BY <2>1, <2>3, ReplicaRecords, ReplicaSet
  <2>. QED  BY <2>1, <2>2, <2>3
<1>4. ASSUME NEW j \in Scans, RefreshDone(j) PROVE BuildsInv'
  BY <1>4, ReplicaRecords, ReplicaSet DEF RefreshDone
<1>5. ASSUME NEW j \in Scans, RefreshFails(j) PROVE BuildsInv'
  <2>1. PICK left \in Interrupted : replica' = [replica EXCEPT ![scan[j].slot] = left]
    BY <1>5 DEF RefreshFails
  <2>2. left \in [build : 0..MaxBuilds, whole : BOOLEAN, time : 0..MaxBuilds]
    BY ReplicaRecords DEF Interrupted
  <2>3. UNCHANGED <<canonical, orphans, restarts, writer>>
    BY <1>5 DEF RefreshFails
  <2>. QED  BY <2>1, <2>2, <2>3, ReplicaSet
<1>6. ASSUME NEW j \in Scans, CancelScan(j) PROVE BuildsInv'
  <2>1. scan[j].stage = "scanning" => scan[j].slot \in SlotIds
    <3>1. scan[j] \in ScanRecord /\ (scan[j].stage = "scanning" => scan[j].slot # 0)
      BY DEF SlotInv
    <3>2. scan[j].slot \in 0..Slots
      BY <3>1 DEF ScanRecord
    <3>. QED  BY <3>1, <3>2, PoolAssumption DEF SlotIds
  <2>. QED  BY <1>6, <2>1 DEF CancelScan, BuildsInv
<1>7. ASSUME NEW w \in Writers, BeginWrite(w) PROVE BuildsInv'
  <2>1. /\ canonical.build < MaxBuilds /\ UNCHANGED <<canonical, replica, orphans, restarts>>
    BY <1>7 DEF BeginWrite
  <2>. QED  BY <2>1 DEF BuildsInv
<1>8. ASSUME NEW w \in Writers, EndWrite(w) PROVE BuildsInv'
  <2>1. /\ writer[w] = "writing" /\ UNCHANGED <<replica, orphans, restarts>>
        /\ writer' = [writer EXCEPT ![w] = "idle"]
        /\ canonical' \in {[build |-> canonical.build + 1, whole |-> TRUE],
                           [build |-> canonical.build + 1, whole |-> FALSE], canonical}
    BY <1>8 DEF EndWrite
  <2>2. \A v \in Writers : writer'[v] # "writing"
    BY <2>1, NobodyAssumption DEF LockInv
  <2>3. canonical.build < MaxBuilds /\ canonical.build \in 0..MaxBuilds
    BY <2>1 DEF BuildsInv
  <2>4. canonical.build + 1 \in 0..MaxBuilds
    BY <2>3, PoolAssumption
  <2>5. canonical' \in [build : 0..MaxBuilds, whole : BOOLEAN]
    <3>1. \A b \in BOOLEAN : [build |-> canonical.build + 1, whole |-> b] \in [build : 0..MaxBuilds, whole : BOOLEAN]
      BY <2>4
    <3>2. canonical \in [build : 0..MaxBuilds, whole : BOOLEAN]
      BY DEF BuildsInv
    <3>. QED  BY <2>1, <3>1, <3>2
  <2>. QED  BY <2>1, <2>2, <2>5 DEF BuildsInv
<1>9. ASSUME NEW s \in SlotIds, AbandonedCopyEnds(s) \/ OrphanExits(s) PROVE BuildsInv'
  <2>1. CASE AbandonedCopyEnds(s)
    BY <2>1, ReplicaRecords, ReplicaSet DEF AbandonedCopyEnds
  <2>2. CASE OrphanExits(s)
    BY <2>2 DEF OrphanExits, BuildsInv
  <2>. QED  BY <1>9, <2>1, <2>2
<1>10. CASE Restart
  <2>1. \A w \in Writers : writer'[w] # "writing"
    BY <1>10 DEF Restart
  <2>2. canonical' \in [build : 0..MaxBuilds, whole : BOOLEAN]
    BY <1>10 DEF Restart, BuildsInv
  <2>3. replica' \in [SlotIds -> [build : 0..MaxBuilds, whole : BOOLEAN, time : 0..MaxBuilds]]
    <3>1. PICK left \in Interrupted : replica' = [s \in SlotIds |-> IF s \in Copying \union abandoned THEN left ELSE replica[s]]
      BY <1>10 DEF Restart
    <3>2. left \in [build : 0..MaxBuilds, whole : BOOLEAN, time : 0..MaxBuilds]
      BY ReplicaRecords DEF Interrupted
    <3>. QED  BY <3>1, <3>2 DEF BuildsInv
  <2>4. restarts' \in 0..MaxRestarts /\ orphans' \subseteq SlotIds
    BY <1>10, PoolAssumption DEF Restart, BuildsInv
  <2>. QED  BY <2>1, <2>2, <2>3, <2>4 DEF BuildsInv
<1>. QED  BY <1>1, <1>2, <1>3, <1>4, <1>5, <1>6, <1>7, <1>8, <1>9, <1>10 DEF ReplicasNext

LEMMA ReplicasTypes == SlotInv /\ LockInv /\ BuildsInv => ReplicasTyped
<1> SUFFICES ASSUME SlotInv, LockInv, BuildsInv PROVE ReplicasTyped
  OBVIOUS
<1>1. \A j \in Scans : /\ scan[j].stage \in {"new", "slot", "lock", "copying", "scanning", "ended"}
                       /\ scan[j].slot \in 0..Slots
                       /\ scan[j].slot = 0 <=> scan[j].stage \in {"new", "slot", "ended"}
  BY DEF SlotInv, ScanRecord
<1>. QED  BY <1>1 DEF ReplicasTyped, SlotInv, LockInv, BuildsInv

-----------------------------------------------------------------------------
\* A transfer is of a build that was published, into a file that is open.
Flows(q) ==
    /\ q.stage \in {"pulling", "streaming"} => q.build \in 1..MaxBuild
    /\ q.stage = "streaming" => q.on # "none"

PiecesInv ==
    /\ published \in 1..MaxBuild /\ breaks \in 0..MaxBreaks
    /\ \A m \in Registries : File(partial[m]) /\ File(archive[m])
    /\ \A p \in Pullers : Flows(pull[p])

LEMMA PiecesStart == DownloadInit => PiecesInv
<1> SUFFICES ASSUME DownloadInit PROVE PiecesInv
  OBVIOUS
<1>1. 1 \in 1..MaxBuild /\ 0 \in 0..MaxBreaks
  BY PullBoundsAssumption
<1>2. \A m \in Registries : File(partial[m]) /\ File(archive[m])
  BY DEF DownloadInit, File
<1>3. \A p \in Pullers : Flows(pull[p])
  BY DEF DownloadInit, Flows, Idle
<1>. QED  BY <1>1, <1>2, <1>3 DEF DownloadInit, PiecesInv

\* Only one job moves, and the files stay.
LEMMA OneFlows ==
    ASSUME DownloadInv, PiecesInv, NEW p \in Pullers, NEW q, pull' = [pull EXCEPT ![p] = q], Flows(q),
           UNCHANGED <<partial, archive, published>>, breaks' \in 0..MaxBreaks
    PROVE  PiecesInv'
<1>1. \A x \in Pullers : pull'[x] = IF x = p THEN q ELSE pull[x]
  BY DEF DownloadInv, PullsInv
<1>2. \A x \in Pullers : Flows(pull'[x])
  BY <1>1 DEF PiecesInv
<1>. QED  BY <1>2 DEF PiecesInv, File, Flows

LEMMA IdleFlows == /\ Flows(Idle) /\ \A n : Flows([Idle EXCEPT !.stage = "resolving", !.try = n])
                   /\ Flows([Idle EXCEPT !.stage = "resolving"])
BY DEF Flows, Idle

LEMMA RenamedFlows ==
    ASSUME NEW q \in PullRecord, Flows(q), NEW f, NEW from, NEW to \in {"archive", "gone"}
    PROVE  Flows(Renamed(q, f, from, to))
<1>1. CASE q.on = from /\ Mirrors[q.try] = f
  <2>1. Renamed(q, f, from, to) = [q EXCEPT !.on = to]
    BY <1>1 DEF Renamed
  <2> DEFINE r == [q EXCEPT !.on = to]
  <2>2. r.stage = q.stage /\ r.build = q.build /\ r.on = to
    BY DEF PullRecord
  <2> HIDE DEF r
  <2>3. Flows(r)
    BY <2>2 DEF Flows
  <2>. QED  BY <2>1, <2>3 DEF r
<1>2. CASE ~(q.on = from /\ Mirrors[q.try] = f)
  BY <1>2, Zenon DEF Renamed
<1>. QED  BY <1>1, <1>2

\* New files under the same names.
LEMMA FilesFlow ==
    ASSUME DownloadInv, PiecesInv, NEW f \in Registries, NEW a1, NEW a2, File(a1), File(a2),
           partial' = [partial EXCEPT ![f] = a1], archive' = [archive EXCEPT ![f] = a2],
           \A x \in Pullers : Flows(pull'[x]), UNCHANGED <<published, breaks>>
    PROVE  PiecesInv'
<1>1. \A m \in Registries : /\ partial'[m] = IF m = f THEN a1 ELSE partial[m]
                            /\ archive'[m] = IF m = f THEN a2 ELSE archive[m]
  BY DEF DownloadInv, FilesInv
<1>2. \A m \in Registries : File(partial'[m]) /\ File(archive'[m])
  BY <1>1 DEF PiecesInv
<1>. QED  BY <1>2 DEF PiecesInv, File, Flows

LEMMA QuietFlows ==
    ASSUME DownloadInv, PiecesInv, NEW p \in Pullers,
           \/ StartPull(p) \/ ResolveFails(p) \/ ChunkDone(p) \/ Dropped(p) \/ DeadlinePassed(p)
           \/ CancelPull(p)
    PROVE  PiecesInv'
<1>1. /\ UNCHANGED <<partial, archive, published>> /\ pull[p] \in PullRecord /\ Flows(pull[p])
  BY HereIsARegistry DEF PiecesInv, StartPull, ResolveFails, ChunkDone, Dropped, DeadlinePassed, CancelPull
<1>2. breaks' \in 0..MaxBreaks
  BY PullBoundsAssumption
  DEF PiecesInv, StartPull, ResolveFails, ChunkDone, Dropped, DeadlinePassed, CancelPull
<1>3. CASE StartPull(p) \/ CancelPull(p)
  BY <1>1, <1>2, <1>3, IdleFlows, OneFlows DEF StartPull, CancelPull
<1>4. CASE ResolveFails(p) \/ DeadlinePassed(p)
  BY <1>1, <1>2, <1>4, IdleFlows, OneFlows DEF ResolveFails, DeadlinePassed, NextMirror
<1>5. CASE ChunkDone(p)
  <2> DEFINE n == [pull[p] EXCEPT !.stage = "pulling", !.done = pull[p].pos, !.on = "none"]
  <2>1. pull[p].stage = "streaming" /\ pull' = [pull EXCEPT ![p] = n]
    BY <1>5 DEF ChunkDone
  <2>2. n.stage = "pulling" /\ n.build = pull[p].build
    BY <1>1 DEF PullRecord
  <2> HIDE DEF n
  <2>3. Flows(n)
    BY <1>1, <2>1, <2>2 DEF Flows
  <2>. QED  BY <1>1, <1>2, <2>1, <2>3, OneFlows
<1>6. CASE Dropped(p)
  <2> DEFINE n == [pull[p] EXCEPT !.stage = "pulling", !.on = "none"]
  <2>1. pull[p].stage = "streaming" /\ pull' = [pull EXCEPT ![p] = n]
    BY <1>6 DEF Dropped, Goto
  <2>2. n.stage = "pulling" /\ n.build = pull[p].build
    BY <1>1 DEF PullRecord
  <2> HIDE DEF n
  <2>3. Flows(n)
    BY <1>1, <2>1, <2>2 DEF Flows
  <2>. QED  BY <1>1, <1>2, <2>1, <2>3, OneFlows
<1>. QED  BY <1>3, <1>4, <1>5, <1>6

LEMMA FileAbsent == File(Absent) /\ File(<<>>)
BY DEF File

LEMMA ResolveFlows == ASSUME DownloadInv, PiecesInv, NEW p \in Pullers, ResolveOciBlob(p) PROVE PiecesInv'
<1> DEFINE f == Dest(p)
           held == Length(partial[f])
           stale == held > SizeOf(published)
           mine == [pull[p] EXCEPT !.stage = "pulling", !.build = published,
                                   !.done = IF stale THEN 0 ELSE held]
<1>1. f \in Registries /\ pull[p] \in PullRecord /\ \A x \in Pullers : pull[x] \in PullRecord /\ Flows(pull[x])
  BY HereIsARegistry DEF PiecesInv
<1>2. /\ UNCHANGED <<published, archive, breaks>>
      /\ partial' = IF stale THEN [partial EXCEPT ![f] = Absent] ELSE partial
      /\ pull' = [q \in Pullers |->
             IF q = p THEN mine
             ELSE IF stale THEN Renamed(pull[q], f, "partial", "gone") ELSE pull[q]]
  BY DEF ResolveOciBlob
<1>3. mine.stage = "pulling" /\ mine.build = published
  BY <1>1 DEF PullRecord
<1> HIDE DEF mine, stale, f
<1>4. Flows(mine)
  BY <1>3 DEF Flows, PiecesInv
<1>5. \A x \in Pullers : Flows(Renamed(pull[x], f, "partial", "gone"))
  BY <1>1, RenamedFlows
<1>6. ASSUME NEW x \in Pullers PROVE Flows(pull'[x])
  <2>1. pull'[x] \in {mine, Renamed(pull[x], f, "partial", "gone"), pull[x]}
    BY <1>2
  <2>. QED  BY <1>1, <1>4, <1>5, <2>1
<1>7. \E a : File(a) /\ partial' = [partial EXCEPT ![f] = a]
  <2>1. File(partial[f]) /\ partial = [partial EXCEPT ![f] = partial[f]]
    BY <1>1, SameFile DEF PiecesInv
  <2>. QED  BY <1>2, <2>1, FileAbsent
<1>8. File(archive[f]) /\ archive' = [archive EXCEPT ![f] = archive[f]]
  BY <1>1, <1>2, SameFile DEF PiecesInv
<1>. QED  BY <1>1, <1>2, <1>6, <1>7, <1>8, FilesFlow

LEMMA OpenFlows == ASSUME DownloadInv, PiecesInv, NEW p \in Pullers, OpenStream(p) PROVE PiecesInv'
<1> DEFINE f == Dest(p)
<1>1. /\ f \in Registries /\ pull[p] \in PullRecord /\ Flows(pull[p]) /\ pull[p].stage = "pulling"
      /\ UNCHANGED <<published, archive, breaks>>
  BY HereIsARegistry DEF PiecesInv, OpenStream
<1>2. PICK start \in {0, pull[p].done} :
        /\ partial' = IF start = 0 \/ partial[f] = Absent THEN [partial EXCEPT ![f] = <<>>] ELSE partial
        /\ pull' = [pull EXCEPT ![p].stage = "streaming", ![p].pos = start, ![p].on = "partial",
                                ![p].mode = IF start = 0 THEN "write" ELSE "append"]
  BY Zenon DEF OpenStream
<1> DEFINE mine == [pull[p] EXCEPT !.stage = "streaming", !.pos = start, !.on = "partial",
                                   !.mode = IF start = 0 THEN "write" ELSE "append"]
<1>3. pull' = [pull EXCEPT ![p] = mine]
  BY <1>2
<1>4. mine.stage = "streaming" /\ mine.build = pull[p].build /\ mine.on = "partial"
  BY <1>1 DEF PullRecord
<1> HIDE DEF mine, f
<1>5. Flows(mine)
  BY <1>1, <1>4 DEF Flows
<1>6. ASSUME NEW x \in Pullers PROVE Flows(pull'[x])
  <2>1. pull'[x] = IF x = p THEN mine ELSE pull[x]
    BY <1>3 DEF DownloadInv, PullsInv
  <2>. QED  BY <1>5, <2>1 DEF PiecesInv
<1>7. \E a : File(a) /\ partial' = [partial EXCEPT ![f] = a]
  <2>1. File(partial[f]) /\ partial = [partial EXCEPT ![f] = partial[f]]
    BY <1>1, SameFile DEF PiecesInv
  <2>. QED  BY <1>2, <2>1, FileAbsent
<1>8. File(archive[f]) /\ archive' = [archive EXCEPT ![f] = archive[f]]
  BY <1>1, SameFile DEF PiecesInv
<1>. QED  BY <1>1, <1>6, <1>7, <1>8, FilesFlow

LEMMA WrittenIsTyped ==
    ASSUME NEW m \in Registries, NEW f \in Seq(PieceOf(m)), File(f), NEW b \in 1..MaxBuild, NEW q, q.pos \in Nat,
           NEW k \in Nat
    PROVE  File(Written(f, q, <<m, b, k>>))
<1> DEFINE piece == <<m, b, k>>
<1>1. piece \in Piece /\ Hole \in Piece
  BY DEF Piece
<1>2. \A i \in DOMAIN f : f[i] \in Piece
  <2>1. f # Absent
    BY PieceIsNotAbsent
  <2>. QED  BY <2>1 DEF File
<1>3. DOMAIN f = 1..Len(f) /\ Len(f) \in Nat
  OBVIOUS
<1> HIDE DEF piece
<1>4. File(Append(f, piece))
  <2>1. DOMAIN Append(f, piece) = 1..(Len(f) + 1)
        /\ \A i \in 1..(Len(f) + 1) : Append(f, piece)[i] = IF i <= Len(f) THEN f[i] ELSE piece
    BY <1>3
  <2>2. \A i \in 1..(Len(f) + 1) : i <= Len(f) => i \in DOMAIN f
    BY <1>3
  <2>. QED  BY <1>1, <1>2, <2>1, <2>2 DEF File
<1>5. File(WriteAt(f, q.pos + 1, piece))
  <2> DEFINE i == q.pos + 1
             n == IF i > Len(f) THEN i ELSE Len(f)
             e(x) == IF x = i THEN piece ELSE IF x <= Len(f) THEN f[x] ELSE Hole
  <2>1. n \in Nat
    BY <1>3
  <2>2. WriteAt(f, i, piece) = [x \in 1..n |-> e(x)]
    BY DEF WriteAt
  <2>3. ASSUME NEW x \in 1..n PROVE e(x) \in Piece
    <3>1. x <= Len(f) => x \in DOMAIN f
      BY <1>3, <2>1
    <3> HIDE DEF i
    <3>. QED  BY <1>1, <1>2, <3>1
  <2> HIDE DEF e, n
  <2>. QED  BY <2>2, <2>3 DEF File
<1>. QED  BY <1>4, <1>5 DEF Written, piece

LEMMA ReceiveFlows == ASSUME DownloadInv, PiecesInv, NEW p \in Pullers, ReceiveChunk(p) PROVE PiecesInv'
<1> DEFINE q == pull[p]
           f == Dest(p)
           piece == <<Here(p), q.build, q.pos + 1>>
           mine == [q EXCEPT !.pos = @ + 1]
           part0 == IF q.on = "partial" THEN Written(partial[f], q, piece) ELSE partial[f]
           arch0 == IF q.on = "archive" THEN Written(archive[f], q, piece) ELSE archive[f]
<1>1. /\ f \in Registries /\ q \in PullRecord /\ Handle(q, partial, archive) /\ Mirrors[q.try] = f
      /\ Here(p) = f /\ Flows(q) /\ q.stage = "streaming"
  BY HereIsARegistry DEF PiecesInv, ReceiveChunk
<1>2. /\ UNCHANGED <<published, breaks>> /\ pull' = [pull EXCEPT ![p] = mine]
      /\ partial' = IF q.on = "partial" THEN [partial EXCEPT ![f] = Written(@, q, piece)] ELSE partial
      /\ archive' = IF q.on = "archive" THEN [archive EXCEPT ![f] = Written(@, q, piece)] ELSE archive
  BY DEF ReceiveChunk
<1>3. mine.stage = q.stage /\ mine.build = q.build /\ mine.on = q.on
  BY <1>1 DEF PullRecord
<1>4. /\ Sound(partial[f], f) /\ Sound(archive[f], f) /\ File(partial[f]) /\ File(archive[f])
      /\ partial = [partial EXCEPT ![f] = partial[f]] /\ archive = [archive EXCEPT ![f] = archive[f]]
  BY <1>1, SameFile DEF PiecesInv
<1>5. q.build \in 1..MaxBuild /\ q.pos \in Nat /\ q.pos + 1 \in Nat
  BY <1>1 DEF PullRecord, Flows
<1>6. q.on = "partial" => partial[f] \in Seq(PieceOf(f))
  BY <1>1, <1>4 DEF Handle, Sound
<1>7. q.on = "archive" => archive[f] \in Seq(PieceOf(f))
  BY <1>1, <1>4 DEF Handle, Sound
<1>8. File(part0)
  BY <1>1, <1>4, <1>5, <1>6, WrittenIsTyped
<1>9. File(arch0)
  BY <1>1, <1>4, <1>5, <1>7, WrittenIsTyped
<1>10. partial' = [partial EXCEPT ![f] = part0] /\ archive' = [archive EXCEPT ![f] = arch0]
  BY <1>2, <1>4
<1>11. ASSUME NEW x \in Pullers PROVE Flows(pull'[x])
  <2>1. pull'[x] = IF x = p THEN mine ELSE pull[x]
    BY <1>2 DEF DownloadInv, PullsInv
  <2> HIDE DEF mine
  <2>2. Flows(mine)
    BY <1>1, <1>3 DEF Flows
  <2>. QED  BY <2>1, <2>2 DEF PiecesInv
<1> HIDE DEF part0, arch0, f
<1>. QED  BY <1>1, <1>2, <1>8, <1>9, <1>10, <1>11, FilesFlow

LEMMA RenameFlows == ASSUME DownloadInv, PiecesInv, NEW p \in Pullers, RenameIntoPlace(p) PROVE PiecesInv'
<1> DEFINE f == Dest(p)
           mine == [pull[p] EXCEPT !.stage = "pulled"]
           moved(x) == Renamed(Renamed(pull[x], f, "archive", "gone"), f, "partial", "archive")
<1>1. /\ f \in Registries /\ pull[p] \in PullRecord /\ UNCHANGED <<published, breaks>>
      /\ breaks' \in 0..MaxBreaks
  BY HereIsARegistry DEF RenameIntoPlace, PiecesInv
<1>2. mine.stage = "pulled"
  BY <1>1 DEF PullRecord
<1>3. CASE NextMirror(p) /\ UNCHANGED <<partial, archive>>
  BY <1>1, <1>3, IdleFlows, OneFlows DEF NextMirror
<1>4. CASE pull' = [pull EXCEPT ![p] = Idle] /\ UNCHANGED <<partial, archive>>
  BY <1>1, <1>4, IdleFlows, OneFlows
<1>5. CASE /\ archive' = [archive EXCEPT ![f] = partial[f]]
           /\ partial' = [partial EXCEPT ![f] = Absent]
           /\ pull' = [q \in Pullers |-> IF q = p THEN mine ELSE moved(q)]
  <2> HIDE DEF f, mine
  <2>1. Flows(mine)
    BY <1>2 DEF Flows
  <2>2. ASSUME NEW x \in Pullers PROVE Flows(pull'[x])
    <3> DEFINE r == Renamed(pull[x], f, "archive", "gone")
    <3>1. pull[x] \in PullRecord /\ Flows(pull[x])
      BY HereIsARegistry DEF PiecesInv
    <3>2. r \in PullRecord /\ Flows(r)
      BY <3>1, RenamedFacts, RenamedFlows
    <3> HIDE DEF r
    <3>3. Flows(Renamed(r, f, "partial", "archive"))
      BY <3>2, RenamedFlows
    <3>4. pull'[x] = IF x = p THEN mine ELSE Renamed(r, f, "partial", "archive")
      BY <1>5 DEF r
    <3>. QED  BY <2>1, <3>3, <3>4
  <2>3. File(partial[f])
    BY <1>1 DEF PiecesInv
  <2>. QED  BY <1>1, <1>5, <2>2, <2>3, FileAbsent, FilesFlow
<1>6. \/ NextMirror(p) /\ UNCHANGED <<partial, archive>>
      \/ pull' = [pull EXCEPT ![p] = Idle] /\ UNCHANGED <<partial, archive>>
      \/ /\ archive' = [archive EXCEPT ![f] = partial[f]]
         /\ partial' = [partial EXCEPT ![f] = Absent]
         /\ pull' = [q \in Pullers |-> IF q = p THEN mine ELSE moved(q)]
  <2> HIDE DEF f
  <2>. QED  BY DEF RenameIntoPlace, f
<1>. QED  BY <1>3, <1>4, <1>5, <1>6

LEMMA InstallFlows == ASSUME DownloadInv, PiecesInv, NEW p \in Pullers, InstallJava(p) PROVE PiecesInv'
<1> DEFINE f == Dest(p)
<1>1. f \in Registries /\ UNCHANGED <<published, partial, breaks>> /\ breaks' \in 0..MaxBreaks
  BY HereIsARegistry DEF InstallJava, PiecesInv
<1>2. CASE Whole(archive[f])
  <2>1. /\ archive' = [archive EXCEPT ![f] = Absent]
        /\ pull' = [q \in Pullers |-> IF q = p THEN Idle ELSE Renamed(pull[q], f, "archive", "gone")]
    BY <1>2 DEF InstallJava
  <2> HIDE DEF f
  <2>2. ASSUME NEW x \in Pullers PROVE Flows(pull'[x])
    <3>1. pull[x] \in PullRecord /\ Flows(pull[x])
      BY HereIsARegistry DEF PiecesInv
    <3>2. Flows(Renamed(pull[x], f, "archive", "gone"))
      BY <3>1, RenamedFlows
    <3>3. pull'[x] = IF x = p THEN Idle ELSE Renamed(pull[x], f, "archive", "gone")
      BY <2>1
    <3>. QED  BY <3>2, <3>3, IdleFlows
  <2>3. File(partial[f]) /\ partial' = [partial EXCEPT ![f] = partial[f]]
    BY <1>1, SameFile DEF PiecesInv
  <2>. QED  BY <1>1, <2>1, <2>2, <2>3, FileAbsent, FilesFlow
<1>3. CASE ~Whole(archive[f])
  <2>1. UNCHANGED archive /\ pull' = [pull EXCEPT ![p] = Idle]
    BY <1>3 DEF InstallJava
  <2>. QED  BY <1>1, <2>1, IdleFlows, OneFlows
<1>. QED  BY <1>2, <1>3

LEMMA PiecesStep == DownloadInv /\ PiecesInv /\ [DownloadNext]_downloadVars => PiecesInv'
<1> SUFFICES ASSUME DownloadInv, PiecesInv, [DownloadNext]_downloadVars PROVE PiecesInv'
  OBVIOUS
<1>1. CASE Publish
  <2>1. UNCHANGED <<partial, archive, pull, breaks>> /\ published' \in 1..MaxBuild
    BY <1>1, PullBoundsAssumption DEF Publish, PiecesInv
  <2>. QED  BY <2>1 DEF PiecesInv, File, Flows
<1>2. CASE UNCHANGED downloadVars
  BY <1>2 DEF downloadVars, PiecesInv, File, Flows
<1>. QED
  BY <1>1, <1>2, QuietFlows, ResolveFlows, OpenFlows, ReceiveFlows, RenameFlows, InstallFlows
  DEF DownloadNext

LEMMA DownloadTypes == DownloadInv /\ PiecesInv => DownloadTyped
<1> SUFFICES ASSUME DownloadInv, PiecesInv PROVE DownloadTyped
  OBVIOUS
<1>1. ASSUME NEW p \in Pullers
      PROVE  /\ pull[p].stage \in {"idle", "resolving", "pulling", "streaming", "pulled"}
             /\ pull[p].on \in {"none", "partial", "archive", "gone"}
             /\ pull[p].stage = "streaming" <=> pull[p].on # "none"
  BY HereIsARegistry DEF PullRecord, Handle, PiecesInv, Flows
<1>. QED  BY <1>1 DEF DownloadTyped, PiecesInv

-----------------------------------------------------------------------------
(* All parts together: a step of the whole is a step of one and leaves the *)
(* others as they are.                                                     *)

LEMMA WholeStarts ==
    AllInit => /\ DownloadInit /\ ReplicasInit /\ UpdatesInit
               /\ RegistryInit /\ SharedInit /\ StorageInit
  BY DEF AllInit

LEMMA WholeSteps ==
    [AllNext]_<<part, dbVars, readVars>> =>
      /\ [DownloadNext]_downloadVars /\ [ReplicasNext]_replicaVars /\ [UpdatesNext]_updateVars
      /\ [RegistryNext]_registryVars /\ [SharedNext]_sharedVars /\ [StorageNext]_scanVars
  BY DEF AllNext, dbVars, readVars

\* Whatever fails or crashes for one scanner, an update or import job that ends has
\* an answer for each scanner it was about (update.py:80-94, 119-128).
THEOREM EveryScannerAnsweredCorrect == AllSpec => []EveryScannerAnswered
  BY WholeStarts, WholeSteps, UpdatesStart, UpdatesStep, JobsAnswer, PTL DEF AllSpec

\* One run of a repository at most is going on; a caller that waits is attached to it
\* or has its end in the queue; JSON answers show the caller's own view
\* (storage.py:89-91).
THEOREM WaitersAreServedCorrect == AllSpec => [](WaitersAreServed /\ SharedTyped)
  BY WholeStarts, WholeSteps, SharedStart, SharedStep, SharedSound, PTL DEF AllSpec

\* The cached map is of the Nexus in force or of a discovery too late for the switch,
\* and a scan refused in a calm while was refused rightly (registry.py:297-298, 311-312).
THEOREM EndpointsHoldCorrect == AllSpec => [](EndpointsHold /\ RegistryTyped)
  BY WholeStarts, WholeSteps, RegistryStart, RegistryStep, RegistrySound, PTL DEF AllSpec

\* No archive mixes the bytes of two registries, and no scan, copy or write works on
\* files another one is working on (modules/nexus/db/process.py, update.py, trivy.py).
THEOREM FilesKeptApartCorrect == AllSpec => []FilesKeptApart
<1>1. DownloadInv /\ SlotInv /\ LockInv => FilesKeptApart
  BY DownloadSound, ReplicasSound DEF FilesKeptApart
<1>. QED
  BY <1>1, WholeStarts, WholeSteps, DownloadStart, DownloadStep, ReplicasStart, SlotsStep,
     LockStep, PTL DEF AllSpec

\* The bytes in use are those of the blobs counted, each once, and no more than what
\* the tags' sizes add up to; of a repository nobody changed, whose manifests could all
\* be read, they are what its tags reach, and the rest is wasted (storage_analyzer.py:7-8).
THEOREM ActiveIsWhatTagsUseCorrect == AllSpec => []ActiveIsWhatTagsUse
  BY WholeStarts, WholeSteps, ScanStarts, ScanGoesOn, ScanMeans, PTL DEF AllSpec

\* Every part keeps its types: a handle is open exactly while a response is read, a
\* slot is held exactly from checkout to checkin, and archives, databases and builds are
\* what their writers can have left (update.py:289-330, trivy.py:38-76, process.py:195-260).
THEOREM TypesOKCorrect == AllSpec => []TypesOK
<1>1. /\ JobsInv /\ DatabasesInv /\ SlotInv /\ LockInv /\ BuildsInv /\ DownloadInv /\ PiecesInv
      /\ RegistryTyped /\ SharedTyped /\ StorageTyped
      => TypesOK
  BY UpdatesTypes, ReplicasTypes, DownloadTypes DEF TypesOK
<1>2. AllSpec => [](JobsInv /\ DatabasesInv)
  BY WholeStarts, WholeSteps, UpdatesStart, UpdatesStep, DatabasesStart, DatabasesStep, PTL DEF AllSpec
<1>3. AllSpec => [](SlotInv /\ LockInv /\ BuildsInv)
  BY WholeStarts, WholeSteps, ReplicasStart, SlotsStep, LockStep, BuildsStart, BuildsStep, PTL DEF AllSpec
<1>4. AllSpec => [](DownloadInv /\ PiecesInv)
  BY WholeStarts, WholeSteps, DownloadStart, DownloadStep, PiecesStart, PiecesStep, PTL DEF AllSpec
<1>5. AllSpec => []StorageTyped
  BY WholeStarts, WholeSteps, ScanStarts, ScanGoesOn, ScanMeans, PTL DEF AllSpec
<1>. QED
  BY <1>1, <1>2, <1>3, <1>4, <1>5, EndpointsHoldCorrect, WaitersAreServedCorrect, PTL
=============================================================================
