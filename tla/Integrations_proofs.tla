------------------------- MODULE Integrations_proofs -------------------------
(***************************************************************************)
(* Proofs about what the program keeps in step with others: analyses of    *)
(* pushed commits, the screens and the updates of the Telegram bot,        *)
(* webhooks on GitLab, quality gates on SonarQube, the repositories and    *)
(* markers of projects, and the insights and scores drawn from analyses;   *)
(* and that all of them together keep their types.                         *)
(***************************************************************************)
EXTENDS MCIntegrations, FiniteSetTheorems, SequenceTheorems, WellFoundedInduction, TLAPS

-----------------------------------------------------------------------------
(* Analyses of pushed commits: types.                                      *)

\* The part of TypeOK about jobs.
JobsOK ==
    /\ jobs \in [JobIds -> Jobs]
    /\ \A k \in JobIds : ~At(k, "new") => /\ jobs[k].branch \in Branches
                                          /\ jobs[k].commit \in Commits

\* The part about everything else.
RestOK ==
    /\ head \in [Branches -> Commits]
    /\ deliveries \subseteq Deliveries /\ accepted \subseteq Deliveries
    /\ claimed \subseteq Commits
    /\ sonar \in [Keys -> Sources]
    /\ tasks \subseteq [job : JobIds, key : Keys, source : Commits]
    /\ run \in [Commits -> RunRows]
    /\ results \in [Commits -> SUBSET Rows]
    /\ count \in [Kinds -> Nat]

LEMMA TypeParts == /\ TypeOK <=> JobsOK /\ RestOK
                   /\ TypeOK' <=> JobsOK' /\ RestOK'
  BY DEF TypeOK, JobsOK, RestOK

\* A job in the table is stored where it belongs.
LEMMA JobStored ==
    ASSUME JobsOK, NEW k \in JobIds, NEW job \in Jobs,
           job.pc # "new" => job.branch \in Branches /\ job.commit \in Commits,
           Job(k, job)
    PROVE  JobsOK'
<1>1. jobs' \in [JobIds -> Jobs]
  BY DEF JobsOK, Job
<1>2. ASSUME NEW j \in JobIds, jobs'[j].pc # "new"
      PROVE  jobs'[j].branch \in Branches /\ jobs'[j].commit \in Commits
  <2>1. CASE j = k
    BY <1>2, <2>1 DEF JobsOK, Job
  <2>2. CASE j # k
    BY <1>2, <2>2 DEF JobsOK, Job, At
  <2>. QED  BY <2>1, <2>2
<1>. QED  BY <1>1, <1>2 DEF JobsOK, At

\* What a queued job is and refers to.
LEMMA JobParts ==
    ASSUME TypeOK, NEW k \in JobIds, jobs[k].pc # "new"
    PROVE  /\ jobs[k] \in Jobs
           /\ jobs[k].branch \in Branches /\ jobs[k].commit \in Commits
           /\ Key(k) \in Keys /\ sonar[Key(k)] \in Sources
           /\ Run(k) \in RunRows
           /\ results[jobs[k].commit] \subseteq Rows
           /\ head[jobs[k].branch] \in Commits
  BY KeysAssumption DEF TypeOK, At, Key, Run

\* A new job and a job that is over are well typed.
LEMMA NewJobTyped ==
    ASSUME NEW trigger \in {"push", "manual", None},
           NEW x \in Branches \union {None}, NEW c \in Sources
    PROVE  NewJob(trigger, x, c) \in Jobs
  BY DEF NewJob, Jobs, Stages, NoRun, RunRows, Sources, Trying

LEMMA OverTyped ==
    ASSUME NEW job \in Jobs
    PROVE  /\ Over(job) \in Jobs
           /\ Over(job).branch = job.branch /\ Over(job).commit = job.commit
           /\ Over(job).trigger = job.trigger /\ Over(job).pc = "over"
<1>1. /\ job.trigger \in {"push", "manual", None}
      /\ job.branch \in Branches \union {None} /\ job.commit \in Sources
  BY DEF Jobs
<1>. QED  BY <1>1 DEF Over, NewJob, Jobs, Stages, NoRun, RunRows, Sources, Trying

LEMMA HappensTyped ==
    ASSUME RestOK, NEW e \in Causes \union Troubles, Happens(e)
    PROVE  count' \in [Kinds -> Nat]
  BY DEF RestOK, Happens, Kinds, Causes, Troubles

LEMMA InitTyped == Init => TypeOK
<1> SUFFICES ASSUME Init PROVE TypeOK
  OBVIOUS
<1>1. NoJob \in Jobs /\ NoJob.pc = "new"
  BY DEF NoJob, NewJob, Jobs, Stages, NoRun, RunRows, Sources, Trying
<1>2. jobs \in [JobIds -> Jobs] /\ \A k \in JobIds : At(k, "new")
  BY <1>1 DEF Init, At
<1>3. RestOK
  BY DEF Init, RestOK, Sources, RunRows, NoRun
<1>. QED  BY <1>2, <1>3, TypeParts DEF JobsOK

\* A step of a job that changes nothing but the job.
LEMMA JobStepTyped ==
    ASSUME TypeOK, NEW k \in JobIds, NEW job \in Jobs,
           job.branch = jobs[k].branch, job.commit = jobs[k].commit,
           jobs[k].pc # "new", Job(k, job),
           UNCHANGED <<head, deliveries, claimed, accepted, sonar, tasks, run, results>>,
           count' \in [Kinds -> Nat]
    PROVE  TypeOK'
<1>1. job.branch \in Branches /\ job.commit \in Commits
  BY JobParts
<1>2. JobsOK'
  BY <1>1, JobStored, TypeParts
<1>3. RestOK'
  BY TypeParts DEF RestOK
<1>. QED  BY <1>2, <1>3, TypeParts

\* The causes.
LEMMA CausesTyped ==
    ASSUME TypeOK,
           \/ \E x \in Branches, c \in Commits : Push(x, c)
           \/ \E c \in Commits : Expire(c)
           \/ \E d \in deliveries : Deliver(d) \/ DeliverUnguarded(d)
           \/ \E d \in accepted : EnqueueFails(d)
    PROVE  TypeOK'
<1>1. JobsOK /\ RestOK
  BY TypeParts
<1>2. CASE \E x \in Branches, c \in Commits : Push(x, c)
  <2> PICK x \in Branches, c \in Commits : Push(x, c)
    BY <1>2
  <2>1. count' \in [Kinds -> Nat]
    BY <1>1, HappensTyped DEF Push, Causes
  <2>2. RestOK'
    BY <1>1, <2>1 DEF Push, RestOK, Deliveries
  <2>. QED  BY <1>1, <2>2, TypeParts DEF Push, JobsOK, At
<1>3. CASE \E c \in Commits : Expire(c)
  <2> PICK c \in Commits : Expire(c)
    BY <1>3
  <2>1. count' \in [Kinds -> Nat]
    BY <1>1, HappensTyped DEF Expire, Troubles
  <2>2. RestOK'
    BY <1>1, <2>1 DEF Expire, RestOK
  <2>. QED  BY <1>1, <2>2, TypeParts DEF Expire, JobsOK, At
<1>4. CASE \E d \in deliveries : Deliver(d)
  <2> PICK d \in deliveries : Deliver(d)
    BY <1>4
  <2>1. d.commit \in Commits /\ d \in Deliveries
    BY <1>1 DEF RestOK, Deliveries
  <2>2. RestOK'
    BY <1>1, <2>1 DEF Deliver, RestOK
  <2>. QED  BY <1>1, <2>2, TypeParts DEF Deliver, JobsOK, At
<1>5. CASE \E d \in deliveries : DeliverUnguarded(d)
  <2> PICK d \in deliveries : DeliverUnguarded(d)
    BY <1>5
  <2>1. count' \in [Kinds -> Nat]
    BY <1>1, HappensTyped DEF DeliverUnguarded, Troubles
  <2>2. RestOK'
    BY <1>1, <2>1 DEF DeliverUnguarded, RestOK
  <2>. QED  BY <1>1, <2>2, TypeParts DEF DeliverUnguarded, JobsOK, At
<1>6. CASE \E d \in accepted : EnqueueFails(d)
  <2> PICK d \in accepted : EnqueueFails(d)
    BY <1>6
  <2>1. count' \in [Kinds -> Nat]
    BY <1>1, HappensTyped DEF EnqueueFails, Troubles
  <2>2. RestOK'
    BY <1>1, <2>1 DEF EnqueueFails, RestOK
  <2>. QED  BY <1>1, <2>2, TypeParts DEF EnqueueFails, JobsOK, At
<1>. QED  BY <1>2, <1>3, <1>4, <1>5, <1>6

\* What puts a job into the table.
LEMMA EnqueueTyped ==
    ASSUME TypeOK, NEW k \in JobIds,
           \/ \E d \in accepted : EnqueuePushed(d, k)
           \/ \E x \in Branches : Ask(k, x)
    PROVE  TypeOK'
<1>1. JobsOK /\ RestOK
  BY TypeParts
<1>2. ASSUME NEW trigger \in {"push", "manual"}, NEW x \in Branches, NEW c \in Commits,
             Enqueue(k, trigger, x, c)
      PROVE  JobsOK'
  <2>1. NewJob(trigger, x, c) \in Jobs
    BY NewJobTyped DEF Sources
  <2>2. NewJob(trigger, x, c).branch = x /\ NewJob(trigger, x, c).commit = c
    BY DEF NewJob
  <2>. QED  BY <1>1, <1>2, <2>1, <2>2, JobStored DEF Enqueue, Job
<1>3. CASE \E d \in accepted : EnqueuePushed(d, k)
  <2> PICK d \in accepted : EnqueuePushed(d, k)
    BY <1>3
  <2>1. d.branch \in Branches /\ d.commit \in Commits
    BY <1>1 DEF RestOK, Deliveries
  <2>2. JobsOK'
    BY <1>2, <2>1 DEF EnqueuePushed
  <2>3. RestOK'
    BY <1>1 DEF EnqueuePushed, RestOK
  <2>. QED  BY <2>2, <2>3, TypeParts
<1>4. CASE \E x \in Branches : Ask(k, x)
  <2> PICK x \in Branches : Ask(k, x)
    BY <1>4
  <2>1. JobsOK'
    BY <1>1, <1>2 DEF Ask, RestOK
  <2>2. count' \in [Kinds -> Nat]
    BY <1>1, HappensTyped DEF Ask, Causes
  <2>3. RestOK'
    BY <1>1, <2>2 DEF Ask, RestOK
  <2>. QED  BY <2>1, <2>3, TypeParts
<1>. QED  BY <1>3, <1>4

\* A commit leaves a well-typed row.
LEMMA UpdateTyped ==
    ASSUME TypeOK, NEW k \in JobIds, jobs[k].pc # "new",
           NEW status \in {"running", "success", "failed"}, NEW measures \in Sources,
           Update(k, status, measures)
    PROVE  run' \in [Commits -> RunRows]
<1>1. run \in [Commits -> RunRows] /\ jobs[k].commit \in Commits
  BY JobParts DEF TypeOK
<1>2. \A row \in RunRows :
        [status   |-> Changed(jobs[k].seen, row, "status", status),
         measures |-> Changed(jobs[k].seen, row, "measures", measures)] \in RunRows
  BY DEF Changed, RunRows
<1>. QED  BY <1>1, <1>2 DEF Update

\* The steps of a job, one by one.
LEMMA GetRunTyped == ASSUME TypeOK, NEW k \in JobIds, GetRun(k) PROVE TypeOK'
<1>1. JobsOK /\ RestOK /\ jobs[k].pc # "new" /\ Run(k) \in RunRows
  BY TypeParts, JobParts DEF GetRun, At
<1>2. [jobs[k] EXCEPT !.pc = "begin", !.seen = Run(k), !.alone = Alone(k)] \in Jobs
  <2>1. Alone(k) \in BOOLEAN
    BY DEF Alone
  <2>. QED  BY <1>1, <2>1 DEF JobsOK, Jobs, Stages
<1>3. \A j \in JobIds : [jobs[j] EXCEPT !.alone = FALSE] \in Jobs
  BY <1>1 DEF JobsOK, Jobs
<1>4. jobs' \in [JobIds -> Jobs]
  BY <1>1, <1>2, <1>3 DEF GetRun, JobsOK
<1>5. \A j \in JobIds : /\ jobs'[j].branch = jobs[j].branch
                         /\ jobs'[j].commit = jobs[j].commit
                         /\ jobs'[j].pc = IF j = k THEN "begin" ELSE jobs[j].pc
  BY <1>1 DEF GetRun, JobsOK, Jobs
<1>6. JobsOK'
  BY <1>1, <1>4, <1>5 DEF JobsOK, At
<1>7. RestOK'
  BY <1>1 DEF GetRun, RestOK
<1>. QED  BY <1>6, <1>7, TypeParts

LEMMA BeginRunTyped == ASSUME TypeOK, NEW k \in JobIds, BeginRun(k) PROVE TypeOK'
<1>1. JobsOK /\ RestOK /\ jobs[k].pc # "new" /\ jobs[k] \in Jobs
      /\ jobs[k].branch \in Branches /\ jobs[k].commit \in Commits
  BY TypeParts, JobParts DEF BeginRun, At
<1>2. CASE jobs[k].seen = NoRun /\ Run(k) # NoRun
  <2>1. Job(k, Over(jobs[k])) /\ UNCHANGED run
    BY <1>2 DEF BeginRun
  <2>. QED  BY <1>1, <2>1, OverTyped, JobStepTyped DEF BeginRun, RestOK
<1>3. CASE ~(jobs[k].seen = NoRun /\ Run(k) # NoRun)
  <2>1. Job(k, [jobs[k] EXCEPT !.pc = "clone"]) /\ Update(k, "running", None)
    BY <1>3 DEF BeginRun
  <2>2. [jobs[k] EXCEPT !.pc = "clone"] \in Jobs
    BY <1>1 DEF Jobs, Stages, Trying
  <2>3. JobsOK'
    BY <1>1, <2>1, <2>2, JobStored DEF Jobs
  <2>4. run' \in [Commits -> RunRows]
    BY <1>1, <2>1, UpdateTyped DEF Sources
  <2>5. RestOK'
    BY <1>1, <2>4 DEF BeginRun, RestOK
  <2>. QED  BY <2>3, <2>5, TypeParts
<1>. QED  BY <1>2, <1>3

LEMMA CloneTyped == ASSUME TypeOK, NEW k \in JobIds, CloneAndScan(k) PROVE TypeOK'
<1>1. JobsOK /\ RestOK /\ jobs[k] \in Jobs
      /\ jobs[k].branch \in Branches /\ jobs[k].commit \in Commits
      /\ Key(k) \in Keys /\ head[jobs[k].branch] \in Commits
  BY TypeParts, JobParts DEF CloneAndScan, At
<1> DEFINE source == head[jobs[k].branch]
           job == [jobs[k] EXCEPT !.pc = "waiting",
                                  !.alone = @ /\ source = jobs[k].commit]
<1>2. job \in Jobs /\ job.branch = jobs[k].branch /\ job.commit = jobs[k].commit
  BY <1>1 DEF Jobs, Stages, Trying
<1>3. JobsOK'
  <2>1. Job(k, job)
    BY DEF CloneAndScan
  <2>. QED  BY <1>1, <1>2, <2>1, JobStored
<1>4. RestOK'
  BY <1>1 DEF CloneAndScan, RestOK
<1>. QED  BY <1>3, <1>4, TypeParts

\* The steps that only move the job on.
LEMMA StepTyped ==
    ASSUME TypeOK, NEW k \in JobIds, NEW from \in Stages \ {"new"}, NEW job \in Jobs,
           job.branch = jobs[k].branch, job.commit = jobs[k].commit,
           Step(k, from, job)
    PROVE  TypeOK'
<1>1. jobs[k].pc # "new" /\ count \in [Kinds -> Nat]
  BY DEF Step, At, TypeOK
<1>2. /\ Job(k, job) /\ count' = count
      /\ UNCHANGED <<head, deliveries, claimed, accepted, sonar, tasks, run, results>>
  BY DEF Step
<1>. QED  BY <1>1, <1>2, JobStepTyped

LEMMA DeleteTyped ==
    ASSUME TypeOK, NEW k \in JobIds, NEW kind \in {"gate", "findings"},
           NEW from \in Stages \ {"new"}, NEW to \in Stages, Delete(k, from, kind, to)
    PROVE  TypeOK'
<1>1. jobs[k] \in Jobs /\ results[jobs[k].commit] \subseteq Rows
  BY JobParts DEF Delete, At
<1>2. Of(k, kind) \subseteq Rows
  BY <1>1 DEF Of
<1> DEFINE old == IF jobs[k].old = {} THEN Of(k, kind) ELSE jobs[k].old
           gone == [jobs[k] EXCEPT !.pc = to, !.old = {},
                                   !.doomed = @ \union (old \intersect Of(k, kind))]
           waits == [jobs[k] EXCEPT !.old = Of(k, kind)]
<1>3. gone \in Jobs /\ gone.branch = jobs[k].branch /\ gone.commit = jobs[k].commit
  BY <1>1, <1>2 DEF Jobs
<1>4. waits \in Jobs /\ waits.branch = jobs[k].branch /\ waits.commit = jobs[k].commit
  BY <1>1, <1>2 DEF Jobs
<1>5. Step(k, from, gone) \/ Step(k, from, waits)
  BY DEF Delete
<1> HIDE DEF gone, waits
<1>. QED  BY <1>3, <1>4, <1>5, StepTyped

LEMMA MovesTyped ==
    ASSUME TypeOK, NEW k \in JobIds,
           \/ Wait(k) \/ FetchGate(k) \/ FetchMeasures(k) \/ OpenSession(k)
           \/ DeleteGates(k) \/ FetchIssues(k) \/ DeleteFindings(k) \/ Report(k)
           \/ GetFailed(k)
    PROVE  TypeOK'
<1>1. jobs[k].pc # "new" /\ jobs[k] \in Jobs /\ sonar[Key(k)] \in Sources
      /\ Run(k) \in RunRows
  BY JobParts DEF Wait, FetchGate, FetchMeasures, OpenSession, DeleteGates, FetchIssues,
     DeleteFindings, Report, GetFailed, Delete, Step, At
<1>2. /\ Trying \subseteq Stages \ {"new"}
      /\ "fail" \in Stages \ {"new"} /\ "commit" \in Stages
  BY DEF Stages, Trying
<1>3. CASE Wait(k)
  <2> DEFINE job == [jobs[k] EXCEPT !.pc = "gate"]
  <2>1. job \in Jobs /\ job.branch = jobs[k].branch /\ job.commit = jobs[k].commit
    BY <1>1 DEF Jobs, Stages, Trying
  <2>2. Step(k, "waiting", job) /\ "waiting" \in Trying
    BY <1>3 DEF Wait, Trying
  <2> HIDE DEF job
  <2>. QED  BY <1>2, <2>1, <2>2, StepTyped
<1>4. CASE FetchGate(k)
  <2> DEFINE job == [jobs[k] EXCEPT !.pc = "measures", !.gate = sonar[Key(k)]]
  <2>1. job \in Jobs /\ job.branch = jobs[k].branch /\ job.commit = jobs[k].commit
    BY <1>1 DEF Jobs, Stages, Trying
  <2>2. Step(k, "gate", job) /\ "gate" \in Trying
    BY <1>4 DEF FetchGate, Trying
  <2> HIDE DEF job
  <2>. QED  BY <1>2, <2>1, <2>2, StepTyped
<1>5. CASE FetchMeasures(k)
  <2> DEFINE job == [jobs[k] EXCEPT !.pc = "store", !.measures = sonar[Key(k)]]
  <2>1. job \in Jobs /\ job.branch = jobs[k].branch /\ job.commit = jobs[k].commit
    BY <1>1 DEF Jobs, Stages, Trying
  <2>2. Step(k, "measures", job) /\ "measures" \in Trying
    BY <1>5 DEF FetchMeasures, Trying
  <2> HIDE DEF job
  <2>. QED  BY <1>2, <2>1, <2>2, StepTyped
<1>6. CASE OpenSession(k)
  <2> DEFINE job == [jobs[k] EXCEPT !.pc = "gates", !.seen = Run(k)]
  <2>1. job \in Jobs /\ job.branch = jobs[k].branch /\ job.commit = jobs[k].commit
    BY <1>1 DEF Jobs, Stages, Trying
  <2>2. Step(k, "store", job) /\ "store" \in Trying
    BY <1>6 DEF OpenSession, Trying
  <2> HIDE DEF job
  <2>. QED  BY <1>2, <2>1, <2>2, StepTyped
<1>7. CASE DeleteGates(k)
  BY <1>2, <1>7, DeleteTyped DEF DeleteGates, Trying
<1>8. CASE FetchIssues(k)
  <2> DEFINE job == [jobs[k] EXCEPT !.pc = "findings", !.issues = sonar[Key(k)]]
  <2>1. job \in Jobs /\ job.branch = jobs[k].branch /\ job.commit = jobs[k].commit
    BY <1>1 DEF Jobs, Stages, Trying
  <2>2. Step(k, "issues", job) /\ "issues" \in Trying
    BY <1>8 DEF FetchIssues, Trying
  <2> HIDE DEF job
  <2>. QED  BY <1>2, <2>1, <2>2, StepTyped
<1>9. CASE DeleteFindings(k)
  BY <1>2, <1>9, DeleteTyped DEF DeleteFindings, Trying
<1>10. CASE Report(k)
  <2>1. Step(k, "report", Over(jobs[k])) /\ "report" \in Trying
    BY <1>10 DEF Report, Trying
  <2>. QED  BY <1>1, <1>2, <2>1, OverTyped, StepTyped
<1>11. CASE GetFailed(k)
  <2> DEFINE job == [jobs[k] EXCEPT !.pc = "mark", !.seen = Run(k)]
  <2>1. job \in Jobs /\ job.branch = jobs[k].branch /\ job.commit = jobs[k].commit
    BY <1>1 DEF Jobs, Stages
  <2>2. Step(k, "fail", job)
    BY <1>11 DEF GetFailed
  <2> HIDE DEF job
  <2>. QED  BY <1>2, <2>1, <2>2, StepTyped
<1>. QED  BY <1>3, <1>4, <1>5, <1>6, <1>7, <1>8, <1>9, <1>10, <1>11

LEMMA CommitTyped == ASSUME TypeOK, NEW k \in JobIds, CommitRun(k) PROVE TypeOK'
<1>1. /\ JobsOK /\ RestOK /\ jobs[k].pc # "new" /\ jobs[k] \in Jobs
      /\ jobs[k].branch \in Branches /\ jobs[k].commit \in Commits
      /\ results[jobs[k].commit] \subseteq Rows
  BY TypeParts, JobParts DEF CommitRun, At
<1>2. jobs[k].measures \in Sources /\ jobs[k].gate \in Sources /\ jobs[k].issues \in Sources
  BY <1>1 DEF Jobs
<1>3. run' \in [Commits -> RunRows]
  BY <1>1, <1>2, UpdateTyped DEF CommitRun
<1>4. \A kind \in {"gate", "findings"}, source \in Sources : Row(k, kind, source) \in Rows
  BY DEF Row, Rows
<1>5. results' \in [Commits -> SUBSET Rows]
  BY <1>1, <1>2, <1>4 DEF CommitRun, RestOK
<1>6. JobsOK'
  <2> DEFINE job == [jobs[k] EXCEPT !.pc = "report", !.doomed = {}]
  <2>1. job \in Jobs /\ job.branch = jobs[k].branch /\ job.commit = jobs[k].commit
    BY <1>1 DEF Jobs, Stages, Trying
  <2>2. Job(k, job)
    BY DEF CommitRun
  <2> HIDE DEF job
  <2>. QED  BY <1>1, <2>1, <2>2, JobStored
<1>7. RestOK'
  BY <1>1, <1>3, <1>5 DEF CommitRun, RestOK
<1>. QED  BY <1>6, <1>7, TypeParts

LEMMA MarkFailedTyped == ASSUME TypeOK, NEW k \in JobIds, MarkFailed(k) PROVE TypeOK'
<1>1. /\ JobsOK /\ RestOK /\ jobs[k].pc # "new" /\ jobs[k] \in Jobs
      /\ jobs[k].branch \in Branches /\ jobs[k].commit \in Commits
  BY TypeParts, JobParts DEF MarkFailed, At
<1>2. jobs[k].seen.measures \in Sources
  BY <1>1 DEF Jobs, RunRows
<1>3. run' \in [Commits -> RunRows]
  BY <1>1, <1>2, UpdateTyped DEF MarkFailed
<1>4. JobsOK'
  BY <1>1, OverTyped, JobStored DEF MarkFailed
<1>5. RestOK'
  BY <1>1, <1>3 DEF MarkFailed, RestOK
<1>. QED  BY <1>4, <1>5, TypeParts

\* The troubles of a job.
LEMMA TroublesTyped ==
    ASSUME TypeOK, NEW k \in JobIds,
           FetchIssuesFails(k) \/ Fail(k) \/ CommitFails(k) \/ Gap(k) \/ Cancel(k)
    PROVE  TypeOK'
<1>1. RestOK /\ jobs[k].pc # "new" /\ jobs[k] \in Jobs
  BY TypeParts, JobParts
     DEF FetchIssuesFails, Fail, CommitFails, Gap, Cancel, At, Trying
<1>2. count' \in [Kinds -> Nat]
  BY <1>1, HappensTyped DEF FetchIssuesFails, Fail, CommitFails, Gap, Cancel, Troubles
<1>3. CASE FetchIssuesFails(k)
  <2> DEFINE job == [jobs[k] EXCEPT !.pc = "commit"]
  <2>1. job \in Jobs /\ job.branch = jobs[k].branch /\ job.commit = jobs[k].commit
    BY <1>1 DEF Jobs, Stages
  <2>2. Job(k, job)
    BY <1>3 DEF FetchIssuesFails
  <2> HIDE DEF job
  <2>. QED  BY <1>1, <1>2, <1>3, <2>1, <2>2, JobStepTyped DEF FetchIssuesFails
<1>4. CASE Fail(k)
  <2> DEFINE job == [jobs[k] EXCEPT !.pc = "fail", !.old = {}, !.doomed = {}]
  <2>1. job \in Jobs /\ job.branch = jobs[k].branch /\ job.commit = jobs[k].commit
    BY <1>1 DEF Jobs, Stages
  <2>2. Job(k, job)
    BY <1>4 DEF Fail
  <2> HIDE DEF job
  <2>. QED  BY <1>1, <1>2, <1>4, <2>1, <2>2, JobStepTyped DEF Fail
<1>5. CASE CommitFails(k) \/ Gap(k) \/ Cancel(k)
  BY <1>1, <1>2, <1>5, OverTyped, JobStepTyped DEF CommitFails, Gap, Cancel
<1>. QED  BY <1>3, <1>4, <1>5

LEMMA RestartTyped == ASSUME TypeOK, Restart \/ RestartReapingFails PROVE TypeOK'
<1>1. JobsOK /\ RestOK
  BY TypeParts
<1>2. Stop /\ count' \in [Kinds -> Nat]
  BY <1>1, HappensTyped DEF Restart, RestartReapingFails, Troubles
<1>3. run' \in [Commits -> RunRows]
  BY <1>1 DEF Restart, RestartReapingFails, RestOK, RunRows
<1>4. RestOK'
  BY <1>1, <1>2, <1>3 DEF Stop, RestOK
<1>5. ASSUME NEW k \in JobIds
      PROVE  /\ jobs'[k] \in Jobs
             /\ jobs'[k].pc # "new" => /\ jobs'[k].branch \in Branches
                                       /\ jobs'[k].commit \in Commits
  <2>1. jobs[k] \in Jobs
    BY <1>1 DEF JobsOK
  <2>2. CASE Working(k)
    BY <1>1, <1>2, <2>1, <2>2, OverTyped DEF Stop, Working, JobsOK, At
  <2>3. CASE ~Working(k)
    BY <1>1, <1>2, <2>1, <2>3 DEF Stop, JobsOK, At
  <2>. QED  BY <2>2, <2>3
<1>6. JobsOK'
  BY <1>2, <1>5 DEF Stop, JobsOK, At
<1>. QED  BY <1>4, <1>6, TypeParts

\* Every step keeps the types.
LEMMA StepsTyped == TypeOK /\ [Next]_vars => TypeOK'
<1> SUFFICES ASSUME TypeOK, [Next]_vars PROVE TypeOK'
  OBVIOUS
<1>1. CASE UNCHANGED vars
  BY <1>1 DEF vars, TypeOK, At
<1>2. ASSUME NEW k \in JobIds, JobStep(k) PROVE TypeOK'
  BY <1>2, GetRunTyped, BeginRunTyped, CloneTyped, MovesTyped, CommitTyped, MarkFailedTyped
     DEF JobStep
<1>3. ASSUME NEW t \in tasks, Process(t) PROVE TypeOK'
  <2>1. JobsOK /\ RestOK /\ t.source \in Sources /\ t.key \in Keys
    BY TypeParts DEF RestOK, Sources
  <2>2. RestOK'
    BY <1>3, <2>1 DEF Process, RestOK
  <2>. QED  BY <1>3, <2>1, <2>2, TypeParts DEF Process, JobsOK, At
<1>4. CASE Next
  BY <1>2, <1>3, <1>4, CausesTyped, EnqueueTyped, TroublesTyped, RestartTyped DEF Next
<1>. QED  BY <1>1, <1>4

\* Every variable keeps its type.
THEOREM TypeCorrect == Spec => []TypeOK
  BY InitTyped, StepsTyped, PTL DEF Spec


-----------------------------------------------------------------------------
(* A run that says "running" is worked on.                                 *)

\* A commit writes only what differs from what was read.  A job that read the
\* status it is going to write will not write it: such a job does not end the run.
Blind(k) ==
    \/ /\ jobs[k].pc \in {"gates", "issues", "findings", "commit"}
       /\ jobs[k].seen.status = "success"
    \/ jobs[k].pc = "mark" /\ jobs[k].seen.status = "failed"

EndsRun(k, c)  == jobs[k].commit = c /\ jobs[k].pc \in Unfinished /\ ~Blind(k)
WorkedOn(c) == run[c].status = "running" => \E k \in JobIds : EndsRun(k, c)

AllWorkedOn == ~Disturbed => \A c \in Commits : WorkedOn(c)

\* Nothing undoes a disturbance.
LEMMA DisturbedStays ==
    ASSUME TypeOK, ~Disturbed',
           \/ count' = count
           \/ \E e \in Causes \union Troubles : Happens(e)
    PROVE  ~Disturbed
<1>1. CASE count' = count
  BY <1>1 DEF Disturbed
<1>2. CASE \E e \in Causes \union Troubles : Happens(e)
  <2> PICK e \in Causes \union Troubles : Happens(e)
    BY <1>2
  <2>1. \A t \in {"cancel", "gap", "spoilt"} : t \in Kinds /\ count[t] \in Nat
    BY DEF TypeOK, Kinds, Troubles
  <2>2. ASSUME NEW t \in {"cancel", "gap", "spoilt"}
        PROVE  count'[t] = count[t] \/ count'[t] = count[t] + 1
    <3>1. t \in Kinds /\ t # "causes" /\ t # "troubles" /\ count \in [Kinds -> Nat]
      BY DEF TypeOK, Kinds, Troubles
    <3>2. PICK all \in {"causes", "troubles"} :
            count' = [count EXCEPT ![e] = @ + 1, ![all] = @ + 1]
      BY DEF Happens
    <3>. QED  BY <3>1, <3>2
  <2>. QED  BY <2>1, <2>2 DEF Disturbed
<1>. QED  BY <1>1, <1>2

\* The three kinds of trouble that disturb.
LEMMA Disturbs ==
    ASSUME TypeOK, Happens("cancel") \/ Happens("gap") \/ Happens("spoilt")
    PROVE  Disturbed'
<1>1. \A t \in {"cancel", "gap", "spoilt"} : t \in Kinds /\ count[t] \in Nat
  BY DEF TypeOK, Kinds, Troubles
<1>. QED  BY <1>1 DEF TypeOK, Happens, Disturbed, Causes

\* A step of one job that leaves the rows alone or ends the run.
LEMMA StillWorkedOn ==
    ASSUME NEW k \in JobIds, NEW c \in Commits, WorkedOn(c),
           run'[c].status = run[c].status \/ run'[c].status # "running",
           \A j \in JobIds \ {k} : jobs'[j] = jobs[j],
           EndsRun(k, c) /\ run[c].status = "running" /\ run'[c].status = "running"
             => EndsRun(k, c)'
    PROVE  WorkedOn(c)'
<1> SUFFICES ASSUME run'[c].status = "running" PROVE \E j \in JobIds : EndsRun(j, c)'
  BY DEF WorkedOn
<1>1. PICK j \in JobIds : EndsRun(j, c)
  BY DEF WorkedOn
<1>2. CASE j = k
  BY <1>1, <1>2
<1>3. CASE j # k
  <2>1. jobs'[j] = jobs[j]
    BY <1>3
  <2>. QED  BY <1>1, <2>1 DEF EndsRun, Blind
<1>. QED  BY <1>2, <1>3

\* Steps that touch neither rows nor jobs.
LEMMA FrameWorkedOn ==
    ASSUME NEW c \in Commits, WorkedOn(c), UNCHANGED <<run, jobs>>
    PROVE  WorkedOn(c)'
  BY DEF WorkedOn, EndsRun, Blind

\* A job is new or another job steps: the others stay.
LEMMA OthersStay ==
    ASSUME TypeOK, NEW k \in JobIds, NEW job, Job(k, job)
    PROVE  jobs'[k] = job /\ \A j \in JobIds \ {k} : jobs'[j] = jobs[j]
  BY DEF TypeOK, Job

\* A DELETE keeps what the job is about and has read.
LEMMA DeleteKeeps ==
    ASSUME TypeOK, NEW k \in JobIds, NEW from, NEW kind, NEW to, Delete(k, from, kind, to)
    PROVE  /\ accepted' = accepted /\ claimed' = claimed
           /\ jobs[k].pc = from /\ jobs'[k].pc \in {from, to}
           /\ jobs'[k].commit = jobs[k].commit /\ jobs'[k].seen = jobs[k].seen
           /\ jobs'[k].trigger = jobs[k].trigger /\ jobs'[k].branch = jobs[k].branch
           /\ \A j \in JobIds \ {k} : jobs'[j] = jobs[j]
<1>1. jobs \in [JobIds -> Jobs] /\ jobs[k] \in Jobs
  BY DEF TypeOK
<1>2. CASE \E gone : Step(k, from, [jobs[k] EXCEPT !.pc = to, !.old = {}, !.doomed = gone])
  BY <1>1, <1>2 DEF Step, Job, Jobs, At
<1>3. CASE Step(k, from, [jobs[k] EXCEPT !.old = Of(k, kind)])
  BY <1>1, <1>3 DEF Step, Job, Jobs, At
<1>. QED  BY <1>2, <1>3 DEF Delete

LEMMA GetRunWorkedOn ==
    ASSUME TypeOK, NEW k \in JobIds, GetRun(k), NEW c \in Commits, WorkedOn(c)
    PROVE  WorkedOn(c)'
<1> SUFFICES ASSUME run'[c].status = "running" PROVE \E j \in JobIds : EndsRun(j, c)'
  BY DEF WorkedOn
<1>1. PICK j \in JobIds : EndsRun(j, c)
  BY DEF WorkedOn, GetRun
<1>2. j # k
  BY <1>1 DEF EndsRun, GetRun, At, Unfinished, Trying
<1>3. jobs[j] \in Jobs
  BY DEF TypeOK
<1>4. /\ jobs'[j].pc = jobs[j].pc /\ jobs'[j].commit = jobs[j].commit
      /\ jobs'[j].seen = jobs[j].seen
  BY <1>2, <1>3 DEF GetRun, Jobs
<1>. QED  BY <1>1, <1>4 DEF EndsRun, Blind

LEMMA BeginRunWorkedOn ==
    ASSUME TypeOK, NEW k \in JobIds, BeginRun(k), NEW c \in Commits, WorkedOn(c)
    PROVE  WorkedOn(c)'
<1>1. ~EndsRun(k, c) /\ jobs[k].pc # "new"
  BY DEF EndsRun, BeginRun, At, Unfinished, Trying
<1>2. CASE jobs[k].seen = NoRun /\ Run(k) # NoRun
  <2>1. Job(k, Over(jobs[k])) /\ UNCHANGED run
    BY <1>2 DEF BeginRun
  <2>. QED  BY <1>1, <2>1, OthersStay, StillWorkedOn
<1>3. CASE ~(jobs[k].seen = NoRun /\ Run(k) # NoRun)
  <2>1. Job(k, [jobs[k] EXCEPT !.pc = "clone"]) /\ Update(k, "running", None)
    BY <1>3 DEF BeginRun
  <2>2. jobs[k] \in Jobs /\ jobs[k].commit \in Commits
    BY <1>1, JobParts
  <2>3. jobs'[k].pc = "clone" /\ jobs'[k].commit = jobs[k].commit
    BY <2>1, <2>2, OthersStay DEF Jobs
  <2>4. CASE c = jobs[k].commit
    BY <2>3, <2>4 DEF WorkedOn, EndsRun, Blind, Unfinished, Trying
  <2>5. CASE c # jobs[k].commit
    <3>1. run'[c] = run[c]
      BY <2>1, <2>5 DEF Update, TypeOK
    <3>. QED  BY <1>1, <2>1, <3>1, OthersStay, StillWorkedOn
  <2>. QED  BY <2>4, <2>5
<1>. QED  BY <1>2, <1>3

\* A job that is not blind writes the status it has come to write.
LEMMA SightedWrites ==
    ASSUME TypeOK, NEW k \in JobIds, NEW status \in {"success", "failed"}, NEW measures,
           jobs[k].pc # "new", Update(k, status, measures), NEW c \in Commits
    PROVE  /\ run'[c].status = run[c].status \/ run'[c].status # "running"
           /\ c = jobs[k].commit /\ jobs[k].seen.status # status => run'[c].status = status
<1>1. run \in [Commits -> RunRows] /\ jobs[k].commit \in Commits
  BY JobParts DEF TypeOK
<1>2. CASE c = jobs[k].commit
  BY <1>1, <1>2 DEF Update, Changed
<1>3. CASE c # jobs[k].commit
  BY <1>1, <1>3 DEF Update
<1>. QED  BY <1>2, <1>3

LEMMA CommitWorkedOn ==
    ASSUME TypeOK, NEW k \in JobIds, CommitRun(k), NEW c \in Commits, WorkedOn(c)
    PROVE  WorkedOn(c)'
<1>1. jobs[k].pc = "commit" /\ Update(k, "success", jobs[k].measures)
  BY DEF CommitRun, At
<1>2. EndsRun(k, c) => run'[c].status = "success"
  BY <1>1, SightedWrites DEF EndsRun, Blind
<1>3. run'[c].status = run[c].status \/ run'[c].status # "running"
  BY <1>1, SightedWrites
<1>4. \A j \in JobIds \ {k} : jobs'[j] = jobs[j]
  BY OthersStay DEF CommitRun
<1>. QED  BY <1>2, <1>3, <1>4, StillWorkedOn

LEMMA MarkFailedWorkedOn ==
    ASSUME TypeOK, NEW k \in JobIds, MarkFailed(k), NEW c \in Commits, WorkedOn(c)
    PROVE  WorkedOn(c)'
<1>1. jobs[k].pc = "mark" /\ Update(k, "failed", jobs[k].seen.measures)
  BY DEF MarkFailed, At
<1>2. EndsRun(k, c) => run'[c].status = "failed"
  BY <1>1, SightedWrites DEF EndsRun, Blind
<1>3. run'[c].status = run[c].status \/ run'[c].status # "running"
  BY <1>1, SightedWrites
<1>4. \A j \in JobIds \ {k} : jobs'[j] = jobs[j]
  BY OthersStay DEF MarkFailed
<1>. QED  BY <1>2, <1>3, <1>4, StillWorkedOn

\* Steps of a job between its reads and writes of the row, and failures that are
\* caught: what it works on and whether it is blind stay.
LEMMA MovesWorkedOn ==
    ASSUME TypeOK, NEW k \in JobIds, NEW c \in Commits, WorkedOn(c),
           \/ CloneAndScan(k) \/ Wait(k) \/ FetchGate(k) \/ FetchMeasures(k)
           \/ DeleteGates(k) \/ FetchIssues(k) \/ DeleteFindings(k) \/ Report(k)
           \/ FetchIssuesFails(k) \/ Fail(k)
    PROVE  WorkedOn(c)'
<1>1. jobs \in [JobIds -> Jobs] /\ jobs[k] \in Jobs
  BY DEF TypeOK
<1>2. run' = run /\ \E job : Job(k, job)
  BY DEF CloneAndScan, Wait, FetchGate, FetchMeasures, DeleteGates, FetchIssues,
     DeleteFindings, Report, FetchIssuesFails, Fail, Delete, Step
<1>3. \A j \in JobIds \ {k} : jobs'[j] = jobs[j]
  BY <1>2, OthersStay
<1>4. CASE CloneAndScan(k) \/ Wait(k) \/ FetchGate(k) \/ FetchMeasures(k)
  <2>1. /\ jobs'[k].commit = jobs[k].commit
        /\ jobs'[k].pc \in {"waiting", "gate", "measures", "store"}
    <3>1. CASE CloneAndScan(k)
      BY <1>1, <3>1 DEF CloneAndScan, Job, Jobs
    <3>2. CASE Wait(k)
      BY <1>1, <3>2 DEF Wait, Step, Job, Jobs
    <3>3. CASE FetchGate(k)
      BY <1>1, <3>3 DEF FetchGate, Step, Job, Jobs
    <3>4. CASE FetchMeasures(k)
      BY <1>1, <3>4 DEF FetchMeasures, Step, Job, Jobs
    <3>. QED  BY <1>4, <3>1, <3>2, <3>3, <3>4
  <2>2. EndsRun(k, c) => EndsRun(k, c)'
    BY <2>1 DEF EndsRun, Blind, Unfinished, Trying
  <2>. QED  BY <1>2, <1>3, <2>2, StillWorkedOn
<1>5. CASE DeleteGates(k) \/ FetchIssues(k) \/ DeleteFindings(k) \/ FetchIssuesFails(k)
  <2>1. /\ jobs'[k].commit = jobs[k].commit /\ jobs'[k].seen = jobs[k].seen
        /\ jobs'[k].pc \in {"gates", "issues", "findings", "commit"}
        /\ jobs[k].pc \in {"gates", "issues", "findings", "commit"}
    <3>1. CASE DeleteGates(k)
      BY <1>1, <3>1, DeleteKeeps DEF DeleteGates
    <3>2. CASE FetchIssues(k)
      BY <1>1, <3>2 DEF FetchIssues, Step, Job, Jobs, At
    <3>3. CASE DeleteFindings(k)
      BY <1>1, <3>3, DeleteKeeps DEF DeleteFindings
    <3>4. CASE FetchIssuesFails(k)
      BY <1>1, <3>4 DEF FetchIssuesFails, Job, Jobs, At
    <3>. QED  BY <1>5, <3>1, <3>2, <3>3, <3>4
  <2>2. EndsRun(k, c) => EndsRun(k, c)'
    BY <2>1 DEF EndsRun, Blind, Unfinished, Trying
  <2>. QED  BY <1>2, <1>3, <2>2, StillWorkedOn
<1>6. CASE Report(k)
  <2>1. ~EndsRun(k, c)
    BY <1>6 DEF Report, Step, At, EndsRun, Unfinished, Trying
  <2>. QED  BY <1>2, <1>3, <2>1, StillWorkedOn
<1>7. CASE Fail(k)
  <2>1. jobs'[k].commit = jobs[k].commit /\ jobs'[k].pc = "fail"
    <3>1. Job(k, [jobs[k] EXCEPT !.pc = "fail", !.old = {}, !.doomed = {}])
      BY <1>7 DEF Fail
    <3>. QED  BY <1>1, <3>1 DEF Job, Jobs
  <2>2. EndsRun(k, c) => EndsRun(k, c)'
    BY <2>1 DEF EndsRun, Blind, Unfinished, Trying
  <2>. QED  BY <1>2, <1>3, <2>2, StillWorkedOn
<1>. QED  BY <1>4, <1>5, <1>6, <1>7

\* A job that reads the row sees that it says "running".
LEMMA ReadsWorkedOn ==
    ASSUME TypeOK, NEW k \in JobIds, NEW c \in Commits, WorkedOn(c),
           OpenSession(k) \/ GetFailed(k)
    PROVE  WorkedOn(c)'
<1>1. jobs \in [JobIds -> Jobs] /\ jobs[k] \in Jobs
  BY DEF TypeOK
<1>2. run' = run
  BY DEF OpenSession, GetFailed, Step
<1>3. \A j \in JobIds \ {k} : jobs'[j] = jobs[j]
  BY OthersStay DEF OpenSession, GetFailed, Step
<1>4. /\ jobs'[k].commit = jobs[k].commit /\ jobs'[k].seen = Run(k)
      /\ jobs'[k].pc \in {"gates", "mark"}
  <2>1. CASE OpenSession(k)
    BY <1>1, <2>1 DEF OpenSession, Step, Job, Jobs
  <2>2. CASE GetFailed(k)
    BY <1>1, <2>2 DEF GetFailed, Step, Job, Jobs
  <2>. QED  BY <2>1, <2>2
<1>5. EndsRun(k, c) /\ run[c].status = "running" => EndsRun(k, c)'
  BY <1>4 DEF EndsRun, Blind, Run, Unfinished, Trying
<1>. QED  BY <1>2, <1>3, <1>5, StillWorkedOn

\* Enqueued jobs come from free entries of the table.
LEMMA EnqueueWorkedOn ==
    ASSUME TypeOK, NEW k \in JobIds, NEW c \in Commits, WorkedOn(c),
           \/ \E d \in accepted : EnqueuePushed(d, k)
           \/ \E x \in Branches : Ask(k, x)
    PROVE  WorkedOn(c)'
<1>1. run' = run /\ jobs[k] = NoJob /\ \E job : Job(k, job)
  BY DEF EnqueuePushed, Ask, Enqueue, Job
<1>2. ~EndsRun(k, c)
  BY <1>1 DEF NoJob, NewJob, EndsRun, Unfinished, Trying
<1>. QED  BY <1>1, <1>2, OthersStay, StillWorkedOn

LEMMA RestartWorkedOn ==
    ASSUME TypeOK, Restart, NEW c \in Commits
    PROVE  WorkedOn(c)'
  BY DEF TypeOK, Restart, WorkedOn, RunRows

\* How the troubles and causes count.
LEMMA Counting ==
    ASSUME Next
    PROVE  count' = count \/ \E e \in Causes \union Troubles : Happens(e)
<1>1. \A k \in JobIds : JobStep(k) => count' = count
  BY DEF JobStep, GetRun, BeginRun, CloneAndScan, Wait, FetchGate, FetchMeasures,
     OpenSession, DeleteGates, FetchIssues, DeleteFindings, CommitRun, Report, GetFailed,
     MarkFailed, Delete, Step
<1>2. {"push", "ask", "expiry", "fault", "gap", "spoilt", "cancel", "restart"}
        = Causes \union Troubles
  BY DEF Causes, Troubles
<1>. QED  BY <1>1, <1>2 DEF Next, Push, Expire, Deliver, DeliverUnguarded, EnqueueFails,
        EnqueuePushed, Ask, FetchIssuesFails, Fail, CommitFails, Gap, Cancel, Process,
        Restart, RestartReapingFails

LEMMA StepsWorkedOn == TypeOK /\ AllWorkedOn /\ [Next]_vars => AllWorkedOn'
<1> SUFFICES ASSUME TypeOK, AllWorkedOn, [Next]_vars, ~Disturbed', NEW c \in Commits
             PROVE  WorkedOn(c)'
  BY DEF AllWorkedOn
<1>1. CASE UNCHANGED vars
  <2>1. ~Disturbed
    BY <1>1 DEF vars, Disturbed
  <2>. QED  BY <1>1, <2>1, FrameWorkedOn DEF vars, AllWorkedOn
<1>2. CASE Next
  <2>1. ~Disturbed
    BY <1>2, Counting, DisturbedStays
  <2>2. WorkedOn(c)
    BY <2>1 DEF AllWorkedOn
  <2>3. ASSUME NEW k \in JobIds, JobStep(k) PROVE WorkedOn(c)'
    BY <2>2, <2>3, GetRunWorkedOn, BeginRunWorkedOn, MovesWorkedOn, ReadsWorkedOn,
       CommitWorkedOn, MarkFailedWorkedOn DEF JobStep
  <2>4. ASSUME NEW k \in JobIds, CommitFails(k) \/ Gap(k) \/ Cancel(k)
        PROVE  FALSE
    BY <2>4, Disturbs DEF CommitFails, Gap, Cancel
  <2>5. ~RestartReapingFails
    BY Disturbs DEF RestartReapingFails
  <2>6. CASE \/ \E x \in Branches, e \in Commits : Push(x, e)
             \/ \E e \in Commits : Expire(e)
             \/ \E d \in deliveries : Deliver(d) \/ DeliverUnguarded(d)
             \/ \E d \in accepted : EnqueueFails(d)
             \/ \E t \in tasks : Process(t)
    BY <2>2, <2>6, FrameWorkedOn
       DEF Push, Expire, Deliver, DeliverUnguarded, EnqueueFails, Process
  <2>. QED  BY <1>2, <2>2, <2>3, <2>4, <2>5, <2>6, EnqueueWorkedOn, MovesWorkedOn,
               RestartWorkedOn DEF Next
<1>. QED  BY <1>1, <1>2

\* Of a run that says "running" there is a job that works on it.
THEOREM RunningIsWorkedOnCorrect == Spec => []RunningIsWorkedOn
<1>1. Init => AllWorkedOn
  BY DEF Init, AllWorkedOn, WorkedOn, NoRun
<1>2. AllWorkedOn => RunningIsWorkedOn
  BY DEF AllWorkedOn, WorkedOn, EndsRun, RunningIsWorkedOn
<1>. QED  BY <1>1, <1>2, TypeCorrect, StepsWorkedOn, PTL DEF Spec


-----------------------------------------------------------------------------
(* Deliveries of a commit queue one job.                                   *)

Pushed(k) == jobs[k].trigger = "push"

\* While no claim was skipped or expired, what was accepted or queued holds the
\* claim on its commit, and is alone in that.
ClaimsHold ==
    /\ \A d \in accepted : d.commit \in claimed
    /\ \A d, e \in accepted : d.commit = e.commit => d = e
    /\ \A k \in JobIds : Pushed(k) =>
         /\ jobs[k].commit \in claimed
         /\ \A d \in accepted : d.commit # jobs[k].commit
    /\ \A j, k \in JobIds :
         j # k /\ Pushed(j) /\ Pushed(k) => jobs[j].commit # jobs[k].commit

ClaimsWork == count["fault"] = 0 /\ count["expiry"] = 0

\* Claims work as long as nothing has happened to them.
LEMMA ClaimsWorkStays ==
    ASSUME TypeOK, Next, ClaimsWork'
    PROVE  ClaimsWork /\ ~Happens("fault") /\ ~Happens("expiry")
<1>1. \A t \in {"fault", "expiry"} : t \in Kinds /\ count[t] \in Nat
  BY DEF TypeOK, Kinds, Troubles
<1>2. \A t \in {"fault", "expiry"} : Happens(t) => count'[t] > 0
  BY <1>1 DEF TypeOK, Happens, Causes
<1>3. \A e \in Causes \union Troubles :
        Happens(e) => \A t \in {"fault", "expiry"} : count'[t] >= count[t]
  BY <1>1 DEF TypeOK, Happens, Causes, Troubles
<1>. QED  BY <1>1, <1>2, <1>3, Counting DEF ClaimsWork

\* A step that keeps claims, accepted deliveries, and why each job was queued and
\* for what.
LEMMA ClaimsKept ==
    ASSUME ClaimsHold, accepted' \subseteq accepted, claimed' = claimed,
           \A k \in JobIds : /\ jobs'[k].trigger = jobs[k].trigger
                              /\ jobs'[k].commit = jobs[k].commit
    PROVE  ClaimsHold'
  BY DEF ClaimsHold, Pushed

\* Jobs keep what they were queued for.
LEMMA JobStepsKeep ==
    ASSUME TypeOK, NEW k \in JobIds,
           JobStep(k) \/ FetchIssuesFails(k) \/ Fail(k) \/ CommitFails(k) \/ Gap(k) \/ Cancel(k)
    PROVE  /\ accepted' = accepted /\ claimed' = claimed
           /\ \A j \in JobIds : /\ jobs'[j].trigger = jobs[j].trigger
                                 /\ jobs'[j].commit = jobs[j].commit
                                 /\ jobs'[j].branch = jobs[j].branch
<1>1. jobs \in [JobIds -> Jobs] /\ jobs[k] \in Jobs
  BY DEF TypeOK
<1>2. CASE GetRun(k)
  BY <1>1, <1>2 DEF GetRun, Jobs
<1>3. CASE BeginRun(k)
  BY <1>1, <1>3, OverTyped DEF BeginRun, Job, Jobs
<1>4. CASE CloneAndScan(k)
  BY <1>1, <1>4 DEF CloneAndScan, Job, Jobs
<1>5. CASE Wait(k) \/ FetchGate(k) \/ FetchMeasures(k) \/ OpenSession(k)
           \/ FetchIssues(k) \/ GetFailed(k)
  <2>1. CASE Wait(k)
    BY <1>1, <2>1 DEF Wait, Step, Job, Jobs
  <2>2. CASE FetchGate(k)
    BY <1>1, <2>2 DEF FetchGate, Step, Job, Jobs
  <2>3. CASE FetchMeasures(k)
    BY <1>1, <2>3 DEF FetchMeasures, Step, Job, Jobs
  <2>4. CASE OpenSession(k)
    BY <1>1, <2>4 DEF OpenSession, Step, Job, Jobs
  <2>5. CASE FetchIssues(k)
    BY <1>1, <2>5 DEF FetchIssues, Step, Job, Jobs
  <2>6. CASE GetFailed(k)
    BY <1>1, <2>6 DEF GetFailed, Step, Job, Jobs
  <2>. QED  BY <1>5, <2>1, <2>2, <2>3, <2>4, <2>5, <2>6
<1>6. CASE DeleteGates(k) \/ DeleteFindings(k)
  BY <1>1, <1>6, DeleteKeeps DEF DeleteGates, DeleteFindings
<1>7. CASE CommitRun(k)
  BY <1>1, <1>7 DEF CommitRun, Job, Jobs
<1>8. CASE Report(k) \/ MarkFailed(k) \/ CommitFails(k) \/ Gap(k) \/ Cancel(k)
  <2>1. /\ accepted' = accepted /\ claimed' = claimed
        /\ jobs' = [jobs EXCEPT ![k] = Over(jobs[k])]
    BY <1>8 DEF Report, MarkFailed, CommitFails, Gap, Cancel, Step, Job
  <2>2. /\ Over(jobs[k]).trigger = jobs[k].trigger /\ Over(jobs[k]).commit = jobs[k].commit
        /\ Over(jobs[k]).branch = jobs[k].branch
    BY <1>1, OverTyped
  <2>. QED  BY <1>1, <2>1, <2>2
<1>9. CASE FetchIssuesFails(k) \/ Fail(k)
  <2>1. CASE FetchIssuesFails(k)
    BY <1>1, <2>1 DEF FetchIssuesFails, Job, Jobs
  <2>2. CASE Fail(k)
    BY <1>1, <2>2 DEF Fail, Job, Jobs
  <2>. QED  BY <1>9, <2>1, <2>2
<1>. QED  BY <1>2, <1>3, <1>4, <1>5, <1>6, <1>7, <1>8, <1>9 DEF JobStep

\* The claim lets one delivery of a commit pass.
LEMMA DeliverClaims ==
    ASSUME ClaimsHold, NEW d \in deliveries, Deliver(d)
    PROVE  ClaimsHold'
<1>1. CASE d.branch \in Watched /\ d.commit \notin claimed
  <2>1. /\ accepted' = accepted \union {d} /\ claimed' = claimed \union {d.commit}
        /\ jobs' = jobs
    BY <1>1 DEF Deliver
  <2>. QED  BY <1>1, <2>1 DEF ClaimsHold, Pushed
<1>2. CASE ~(d.branch \in Watched /\ d.commit \notin claimed)
  BY <1>2, ClaimsKept DEF Deliver
<1>. QED  BY <1>1, <1>2

\* A delivery hands its claim on to its job.
LEMMA EnqueueClaims ==
    ASSUME TypeOK, ClaimsHold, NEW k \in JobIds, NEW d \in accepted, EnqueuePushed(d, k)
    PROVE  ClaimsHold'
<1>1. /\ accepted' = accepted \ {d} /\ claimed' = claimed
      /\ Job(k, NewJob("push", d.branch, d.commit))
  BY DEF EnqueuePushed, Enqueue, Job
<1>2. /\ jobs'[k].trigger = "push" /\ jobs'[k].commit = d.commit
      /\ \A j \in JobIds \ {k} : jobs'[j] = jobs[j]
  BY <1>1, OthersStay DEF NewJob
<1>3. \A j \in JobIds \ {k} : Pushed(j) => jobs[j].commit # d.commit
  BY DEF ClaimsHold
<1>4. \A e \in accepted' : e \in accepted /\ e.commit # d.commit
  BY <1>1 DEF ClaimsHold
<1>5. \A e \in accepted' : e.commit \in claimed'
  BY <1>1, <1>4 DEF ClaimsHold
<1>6. \A e, f \in accepted' : e.commit = f.commit => e = f
  BY <1>4 DEF ClaimsHold
<1>7. ASSUME NEW j \in JobIds, Pushed(j)'
      PROVE  /\ jobs'[j].commit \in claimed'
             /\ \A e \in accepted' : e.commit # jobs'[j].commit
  <2>1. CASE j = k
    BY <1>1, <1>2, <1>4, <2>1 DEF ClaimsHold
  <2>2. CASE j # k
    BY <1>1, <1>2, <1>4, <1>7, <2>2 DEF ClaimsHold, Pushed
  <2>. QED  BY <2>1, <2>2
<1>8. ASSUME NEW i \in JobIds, NEW j \in JobIds, i # j, Pushed(i)', Pushed(j)'
      PROVE  jobs'[i].commit # jobs'[j].commit
  <2>1. CASE i = k
    BY <1>2, <1>3, <1>8, <2>1 DEF Pushed
  <2>2. CASE j = k
    BY <1>2, <1>3, <1>8, <2>2 DEF Pushed
  <2>3. CASE i # k /\ j # k
    BY <1>2, <1>8, <2>3 DEF ClaimsHold, Pushed
  <2>. QED  BY <2>1, <2>2, <2>3
<1>. QED  BY <1>5, <1>6, <1>7, <1>8 DEF ClaimsHold

\* A job asked for by hand has no part in the claims.
LEMMA AskClaims ==
    ASSUME TypeOK, ClaimsHold, NEW k \in JobIds, NEW x \in Branches, Ask(k, x)
    PROVE  ClaimsHold'
<1>1. /\ accepted' = accepted /\ claimed' = claimed
      /\ Job(k, NewJob("manual", x, head[x]))
  BY DEF Ask, Enqueue, Job
<1>2. /\ jobs'[k].trigger = "manual"
      /\ \A j \in JobIds \ {k} : jobs'[j] = jobs[j]
  BY <1>1, OthersStay DEF NewJob
<1>3. \A j \in JobIds : Pushed(j)' => j # k /\ Pushed(j) /\ jobs'[j] = jobs[j]
  BY <1>2 DEF Pushed
<1>. QED  BY <1>1, <1>3 DEF ClaimsHold

LEMMA RestartClaims ==
    ASSUME TypeOK, ClaimsHold, Restart \/ RestartReapingFails
    PROVE  ClaimsHold'
<1>1. Stop
  BY DEF Restart, RestartReapingFails
<1>2. \A k \in JobIds : jobs[k] \in Jobs
  BY DEF TypeOK
<1>3. \A k \in JobIds : /\ jobs'[k].trigger = jobs[k].trigger
                         /\ jobs'[k].commit = jobs[k].commit
  BY <1>1, <1>2, OverTyped DEF Stop
<1>. QED  BY <1>1, <1>3, ClaimsKept DEF Stop

LEMMA StepsClaim ==
    TypeOK /\ (ClaimsWork => ClaimsHold) /\ [Next]_vars => (ClaimsWork => ClaimsHold)'
<1> SUFFICES ASSUME TypeOK, ClaimsWork => ClaimsHold, [Next]_vars, ClaimsWork'
             PROVE  ClaimsHold'
  OBVIOUS
<1>1. CASE UNCHANGED vars
  BY <1>1 DEF vars, ClaimsWork, ClaimsHold, Pushed
<1>2. CASE Next
  <2>1. ClaimsHold /\ ~Happens("fault") /\ ~Happens("expiry")
    BY <1>2, ClaimsWorkStays
  <2>2. CASE \E d \in deliveries : Deliver(d)
    BY <2>1, <2>2, DeliverClaims
  <2>3. CASE \E k \in JobIds, d \in accepted : EnqueuePushed(d, k)
    BY <2>1, <2>3, EnqueueClaims
  <2>4. CASE \E k \in JobIds, x \in Branches : Ask(k, x)
    BY <2>1, <2>4, AskClaims
  <2>5. CASE \E k \in JobIds :
               JobStep(k) \/ FetchIssuesFails(k) \/ Fail(k) \/ CommitFails(k)
                 \/ Gap(k) \/ Cancel(k)
    BY <2>1, <2>5, JobStepsKeep, ClaimsKept
  <2>6. CASE \/ \E x \in Branches, c \in Commits : Push(x, c)
             \/ \E t \in tasks : Process(t)
    BY <2>1, <2>6, ClaimsKept DEF Push, Process
  <2>7. CASE Restart \/ RestartReapingFails
    BY <2>1, <2>7, RestartClaims
  <2>8. /\ \A c \in Commits : ~Expire(c)
        /\ \A d : ~DeliverUnguarded(d) /\ ~EnqueueFails(d)
    BY <2>1 DEF Expire, DeliverUnguarded, EnqueueFails
  <2>. QED  BY <1>2, <2>2, <2>3, <2>4, <2>5, <2>6, <2>7, <2>8 DEF Next
<1>. QED  BY <1>1, <1>2

\* Deliveries repeated or of several branches queue one job for a commit.
THEOREM WebhookOnceCorrect == Spec => []WebhookOnce
<1>1. Init => ClaimsHold
  <2> SUFFICES ASSUME Init PROVE ClaimsHold
    OBVIOUS
  <2>1. \A k \in JobIds : ~Pushed(k)
    BY DEF Init, Pushed, NoJob, NewJob, None
  <2>. QED  BY <2>1 DEF Init, ClaimsHold
<1>2. (ClaimsWork => ClaimsHold) => WebhookOnce
  BY DEF ClaimsWork, ClaimsHold, WebhookOnce, Pushed
<1>. QED  BY <1>1, <1>2, TypeCorrect, StepsClaim, PTL DEF Spec

-----------------------------------------------------------------------------
(* A clean run is exact.                                                   *)

\* Where a job is from its reading of the row to its commit, and the parts of
\* that way on which it already holds what Sonar answered.
Reading  == {"gates", "issues", "findings", "commit"}
MeasuredBy == {"store"} \union Reading
Asked    == {"measures"} \union MeasuredBy
Analysed == {"gate"} \union Asked
SoundRun    == {"begin", "clone", "waiting"} \union Analysed

Clean(k) == jobs[k].alone /\ jobs[k].pc \in SoundRun

\* Nobody else works on its run or its Sonar project.
Unrivalled(k) ==
    \A j \in JobIds \ {k} :
        Working(j) => jobs[j].commit # jobs[k].commit /\ Key(j) # Key(k)

\* The only report for its Sonar project is its own, and of its own commit.
OwnReport(k) ==
    /\ \A t \in tasks : t.key = Key(k) =>
          jobs[k].pc = "waiting" /\ t.job = k /\ t.source = jobs[k].commit
    /\ jobs[k].pc = "waiting" =>
          sonar[Key(k)] = jobs[k].commit \/ \E t \in tasks : t.key = Key(k)
    /\ jobs[k].pc \in Analysed => sonar[Key(k)] = jobs[k].commit

\* What it holds is of its own commit, and the row is as it read it.
OwnAnswers(k) ==
    /\ jobs[k].pc \in Asked => jobs[k].gate = jobs[k].commit
    /\ jobs[k].pc \in MeasuredBy => jobs[k].measures = jobs[k].commit
    /\ jobs[k].pc \in Reading => jobs[k].seen = Run(k)

\* The old rows of a kind are doomed once its DELETE is done, and those only.
Swept(k) ==
    LET job == jobs[k] IN
    /\ job.pc \notin Reading => job.issues = None /\ job.old = {} /\ job.doomed = {}
    /\ job.pc = "gates" => /\ job.issues = None /\ job.doomed = {}
                           /\ job.old \in {{}, Of(k, "gate")}
    /\ job.pc \in {"issues", "findings", "commit"} => Of(k, "gate") \subseteq job.doomed
    /\ job.pc \in {"issues", "findings"} => \A r \in job.doomed : r.kind = "gate"
    /\ job.pc = "issues" => job.issues = None /\ job.old = {}
    /\ job.pc = "findings" => /\ job.issues = job.commit
                              /\ job.old \in {{}, Of(k, "findings")}
    /\ job.pc = "commit" =>
          \/ job.issues = None /\ \A r \in job.doomed : r.kind = "gate"
          \/ job.issues = job.commit /\ Of(k, "findings") \subseteq job.doomed

CleanParts(k) == Unrivalled(k) /\ OwnReport(k) /\ OwnAnswers(k) /\ Swept(k)

\* A job that waits in the queue holds nothing.
Fresh(k) == jobs[k].pc = "queued" =>
                jobs[k].issues = None /\ jobs[k].old = {} /\ jobs[k].doomed = {}

CleanInv == \A k \in JobIds : Fresh(k) /\ (Clean(k) => CleanParts(k))

\* What a job of one commit and branch does to others.
Untouched(j) ==
    /\ \A i \in JobIds \ {j} : jobs'[i] = jobs[i]
    /\ jobs'[j].commit = jobs[j].commit /\ jobs'[j].branch = jobs[j].branch
    /\ \/ Working(j)
       \/ jobs'[j].pc = "over" /\ UNCHANGED <<tasks, run, results>>
    /\ UNCHANGED sonar
    /\ \A t \in tasks \union tasks' : t.key # Key(j) => (t \in tasks' <=> t \in tasks)
    /\ \A c \in Commits : c # jobs[j].commit => run'[c] = run[c] /\ results'[c] = results[c]

LEMMA JobStepsTouch ==
    ASSUME TypeOK, NEW j \in JobIds, ~GetRun(j),
           JobStep(j) \/ FetchIssuesFails(j) \/ Fail(j) \/ CommitFails(j) \/ Gap(j) \/ Cancel(j)
    PROVE  Untouched(j)
<1>1. jobs'[j].commit = jobs[j].commit /\ jobs'[j].branch = jobs[j].branch
  BY JobStepsKeep
<1>2. \E job : Job(j, job)
  BY DEF JobStep, BeginRun, CloneAndScan, Wait, FetchGate, FetchMeasures, OpenSession,
     DeleteGates, FetchIssues, DeleteFindings, CommitRun, Report, GetFailed, MarkFailed,
     Delete, Step, FetchIssuesFails, Fail, CommitFails, Gap, Cancel
<1>3. \A i \in JobIds \ {j} : jobs'[i] = jobs[i]
  BY <1>2, OthersStay
<1>4. UNCHANGED sonar
  BY DEF JobStep, BeginRun, CloneAndScan, Wait, FetchGate, FetchMeasures, OpenSession,
     DeleteGates, FetchIssues, DeleteFindings, CommitRun, Report, GetFailed, MarkFailed,
     Delete, Step, FetchIssuesFails, Fail, CommitFails, Gap, Cancel
<1>5. \/ Working(j)
      \/ jobs'[j].pc = "over" /\ UNCHANGED <<tasks, run, results>>
  <2>1. CASE Gap(j) \/ Cancel(j)
    <3>1. Job(j, Over(jobs[j])) /\ UNCHANGED <<tasks, run, results>>
      BY <2>1 DEF Gap, Cancel
    <3>. QED  BY <3>1, OthersStay, OverTyped DEF TypeOK
  <2>2. CASE ~(Gap(j) \/ Cancel(j))
    BY <2>2 DEF Working, At, JobStep, BeginRun, CloneAndScan, Wait, FetchGate, FetchMeasures,
       OpenSession, DeleteGates, FetchIssues, DeleteFindings, CommitRun, Report, GetFailed,
       MarkFailed, Delete, Step, FetchIssuesFails, Fail, CommitFails, Trying
  <2>. QED  BY <2>1, <2>2
<1>6. \A t \in tasks \union tasks' : t.key # Key(j) => (t \in tasks' <=> t \in tasks)
  <2>1. CASE CloneAndScan(j)
    BY <2>1 DEF CloneAndScan
  <2>2. CASE ~CloneAndScan(j)
    <3>1. UNCHANGED tasks
      BY <2>2 DEF JobStep, BeginRun, Wait, FetchGate, FetchMeasures, OpenSession,
         DeleteGates, FetchIssues, DeleteFindings, CommitRun, Report, GetFailed, MarkFailed,
         Delete, Step, FetchIssuesFails, Fail, CommitFails, Gap, Cancel
    <3>. QED  BY <3>1
  <2>. QED  BY <2>1, <2>2
<1>7. ASSUME NEW c \in Commits, c # jobs[j].commit
      PROVE  run'[c] = run[c] /\ results'[c] = results[c]
  <2>1. run \in [Commits -> RunRows] /\ results \in [Commits -> SUBSET Rows]
    BY DEF TypeOK
  <2>2. \/ UNCHANGED run
        \/ \E row : run' = [run EXCEPT ![jobs[j].commit] = row]
    BY DEF Update, JobStep, BeginRun, CloneAndScan, Wait, FetchGate, FetchMeasures,
       OpenSession, DeleteGates, FetchIssues, DeleteFindings, CommitRun, Report, GetFailed,
       MarkFailed, Delete, Step, FetchIssuesFails, Fail, CommitFails, Gap, Cancel
  <2>3. \/ UNCHANGED results
        \/ \E found : results' = [results EXCEPT ![jobs[j].commit] = found]
    BY DEF JobStep, BeginRun, CloneAndScan, Wait, FetchGate, FetchMeasures,
       OpenSession, DeleteGates, FetchIssues, DeleteFindings, CommitRun, Report, GetFailed,
       MarkFailed, Delete, Step, FetchIssuesFails, Fail, CommitFails, Gap, Cancel
  <2>. QED  BY <1>7, <2>1, <2>2, <2>3
<1>. QED  BY <1>1, <1>3, <1>4, <1>5, <1>6, <1>7 DEF Untouched

\* What a clean job stays clean through.
LEMMA StillClean ==
    ASSUME NEW k \in JobIds, CleanParts(k), jobs'[k] = jobs[k],
           \A j \in JobIds \ {k} : Working(j)' =>
              \/ jobs'[j].commit # jobs[k].commit /\ KeyOf[jobs'[j].branch] # Key(k)
              \/ /\ Working(j)
                 /\ jobs'[j].commit = jobs[j].commit /\ jobs'[j].branch = jobs[j].branch,
           \A t \in tasks \union tasks' : t.key = Key(k) => (t \in tasks' <=> t \in tasks),
           sonar'[Key(k)] = sonar[Key(k)],
           run'[jobs[k].commit] = run[jobs[k].commit],
           results'[jobs[k].commit] = results[jobs[k].commit]
    PROVE  CleanParts(k)'
<1>1. Key(k)' = Key(k)
  BY DEF Key
<1>2. Unrivalled(k)'
  BY <1>1 DEF CleanParts, Unrivalled, Key
<1>3. OwnReport(k)'
  BY <1>1 DEF CleanParts, OwnReport
<1>4. OwnAnswers(k)'
  BY <1>1 DEF CleanParts, OwnAnswers, Run
<1>5. \A kind : Of(k, kind)' = Of(k, kind)
  BY DEF Of
<1>6. Swept(k)'
  BY <1>5 DEF CleanParts, Swept
<1>. QED  BY <1>2, <1>3, <1>4, <1>6 DEF CleanParts

\* Other jobs do not touch a clean one's run and Sonar project: they are about others.
LEMMA OthersClean ==
    ASSUME TypeOK, NEW k \in JobIds, NEW j \in JobIds \ {k}, Clean(k), CleanParts(k), Untouched(j)
    PROVE  CleanParts(k)'
<1>1. jobs'[k] = jobs[k] /\ jobs[k].commit \in Commits
  BY JobParts DEF Untouched, Clean, SoundRun, Analysed, Asked, MeasuredBy, Reading
<1>2. ASSUME NEW i \in JobIds \ {k}, Working(i)'
      PROVE  /\ Working(i)
             /\ jobs'[i].commit = jobs[i].commit /\ jobs'[i].branch = jobs[i].branch
  BY <1>2 DEF Untouched, Working
<1>3. CASE Working(j)
  <2>1. jobs[j].commit # jobs[k].commit /\ Key(j) # Key(k)
    BY <1>3 DEF CleanParts, Unrivalled
  <2>. QED  BY <1>1, <1>2, <2>1, StillClean DEF Untouched
<1>4. CASE ~Working(j)
  BY <1>1, <1>2, <1>4, StillClean DEF Untouched
<1>. QED  BY <1>3, <1>4

\* A job that begins to work tells those that work on the same.
LEMMA GetRunClean ==
    ASSUME TypeOK, CleanInv, NEW j \in JobIds, GetRun(j), NEW k \in JobIds, Clean(k)'
    PROVE  CleanParts(k)'
<1>1. \A i \in JobIds : jobs[i] \in Jobs
  BY DEF TypeOK
<1>2. /\ \A i \in JobIds : /\ jobs'[i].branch = jobs[i].branch
                           /\ jobs'[i].commit = jobs[i].commit
                           /\ i # j => jobs'[i].pc = jobs[i].pc
      /\ jobs'[j] = [jobs[j] EXCEPT !.pc = "begin", !.seen = Run(j), !.alone = Alone(j)]
  BY <1>1 DEF GetRun, Jobs
<1>3. UNCHANGED <<tasks, sonar, run, results>>
  BY DEF GetRun
<1>4. CASE k = j
  <2>1. Rivals(k) = {} /\ \A t \in tasks : t.key # Key(k)
    BY <1>1, <1>2, <1>4 DEF Clean, Alone, Jobs
  <2>2. Unrivalled(k)'
    BY <1>2, <1>4, <2>1 DEF Rivals, Unrivalled, Working, Key
  <2>3. /\ jobs'[k].pc = "begin" /\ jobs'[k].issues = jobs[k].issues
        /\ jobs'[k].old = jobs[k].old /\ jobs'[k].doomed = jobs[k].doomed
    BY <1>1, <1>2, <1>4 DEF Jobs
  <2>4. jobs[k].issues = None /\ jobs[k].old = {} /\ jobs[k].doomed = {}
    BY <1>4 DEF CleanInv, Fresh, GetRun, At
  <2>5. OwnReport(k)'
    BY <1>2, <1>3, <2>1, <2>3 DEF OwnReport, Key, Analysed, Asked, MeasuredBy, Reading
  <2>6. OwnAnswers(k)'
    BY <2>3 DEF OwnAnswers, Asked, MeasuredBy, Reading
  <2>7. Swept(k)'
    BY <2>3, <2>4 DEF Swept, Reading
  <2>. QED  BY <2>2, <2>5, <2>6, <2>7 DEF CleanParts
<1>5. CASE k # j
  <2>1. k \notin Rivals(j)
    BY <1>1, <1>5 DEF GetRun, Clean, Jobs
  <2>2. jobs'[k] = jobs[k]
    BY <1>5, <2>1 DEF GetRun
  <2>3. Working(k)
    BY <2>2 DEF Clean, Working, SoundRun, Analysed, Asked, MeasuredBy, Reading
  <2>4. jobs[j].commit # jobs[k].commit /\ Key(j) # Key(k)
    BY <1>5, <2>1, <2>3 DEF Rivals
  <2>5. CleanParts(k)
    BY <2>2 DEF CleanInv, Clean
  <2>6. ASSUME NEW i \in JobIds \ {k}, Working(i)'
        PROVE  \/ jobs'[i].commit # jobs[k].commit /\ KeyOf[jobs'[i].branch] # Key(k)
               \/ /\ Working(i)
                  /\ jobs'[i].commit = jobs[i].commit /\ jobs'[i].branch = jobs[i].branch
    BY <1>2, <2>4, <2>6 DEF Working, Key
  <2>. QED  BY <1>3, <2>2, <2>5, <2>6, StillClean
<1>. QED  BY <1>4, <1>5

\* What a job's own step leaves as it was: who else works, and the report of its
\* project if none is added.
LEMMA OwnFrame ==
    ASSUME NEW k \in JobIds, CleanParts(k), Untouched(k)
    PROVE  /\ Unrivalled(k)' /\ Key(k)' = Key(k)
           /\ UNCHANGED results => \A kind : Of(k, kind)' = Of(k, kind)
<1>1. Key(k)' = Key(k) /\ \A j \in JobIds \ {k} : Key(j)' = Key(j) /\ jobs'[j] = jobs[j]
  BY DEF Untouched, Key
<1>. QED  BY <1>1 DEF CleanParts, Unrivalled, Untouched, Working, Of

\* Up to the scan: nothing is held yet, and the only report is the one uploaded.
LEMMA ScanClean ==
    ASSUME TypeOK, NEW k \in JobIds, Clean(k) => CleanParts(k), Untouched(k), Clean(k)',
           BeginRun(k) \/ CloneAndScan(k)
    PROVE  CleanParts(k)'
<1>1. jobs \in [JobIds -> Jobs] /\ jobs[k] \in Jobs
  BY DEF TypeOK
<1>2. CASE BeginRun(k)
  <2>1. ~(jobs[k].seen = NoRun /\ Run(k) # NoRun)
    <3> SUFFICES ASSUME jobs[k].seen = NoRun, Run(k) # NoRun PROVE FALSE
      OBVIOUS
    <3>1. jobs'[k].pc = "over"
      BY <1>1, <1>2, OverTyped DEF BeginRun, Job
    <3>. QED  BY <3>1 DEF Clean, SoundRun, Analysed, Asked, MeasuredBy, Reading
  <2>2. /\ jobs'[k] = [jobs[k] EXCEPT !.pc = "clone"] /\ jobs[k].pc = "begin"
        /\ UNCHANGED <<tasks, sonar, results>>
    BY <1>1, <1>2, <2>1 DEF BeginRun, Job, At
  <2>3. Clean(k) /\ jobs'[k].pc = "clone"
    BY <1>1, <2>2 DEF Clean, Jobs, SoundRun
  <2>4. Unrivalled(k)' /\ Key(k)' = Key(k)
    BY <2>3, OwnFrame
  <2>5. OwnReport(k)'
    BY <2>2, <2>3, <2>4 DEF CleanParts, OwnReport, Analysed, Asked, MeasuredBy, Reading
  <2>6. OwnAnswers(k)'
    BY <2>3 DEF OwnAnswers, Asked, MeasuredBy, Reading
  <2>7. Swept(k)'
    BY <1>1, <2>2, <2>3 DEF CleanParts, Swept, Reading, Jobs
  <2>. QED  BY <2>4, <2>5, <2>6, <2>7 DEF CleanParts
<1>3. CASE CloneAndScan(k)
  <2> DEFINE source == head[jobs[k].branch]
  <2>1. /\ jobs'[k] = [jobs[k] EXCEPT !.pc = "waiting",
                                     !.alone = @ /\ source = jobs[k].commit]
        /\ tasks' = tasks \union {[job |-> k, key |-> Key(k), source |-> source]}
        /\ jobs[k].pc = "clone"
    BY <1>1, <1>3 DEF CloneAndScan, Job, At
  <2>2. /\ jobs[k].alone /\ source = jobs[k].commit /\ jobs'[k].pc = "waiting"
        /\ jobs'[k].commit = jobs[k].commit /\ jobs'[k].issues = jobs[k].issues
        /\ jobs'[k].old = jobs[k].old /\ jobs'[k].doomed = jobs[k].doomed
    <3> HIDE DEF source
    <3>1. jobs'[k].alone = (jobs[k].alone /\ source = jobs[k].commit)
      BY <1>1, <2>1 DEF Jobs
    <3>2. jobs[k].alone /\ source = jobs[k].commit
      BY <3>1 DEF Clean
    <3>. QED  BY <1>1, <2>1, <3>2 DEF Jobs
  <2>3. CleanParts(k)
    BY <2>1, <2>2 DEF Clean, SoundRun
  <2>4. Unrivalled(k)' /\ Key(k)' = Key(k)
    BY <2>3, OwnFrame
  <2>5. OwnReport(k)'
    <3> DEFINE report == [job |-> k, key |-> Key(k), source |-> jobs[k].commit]
    <3>1. \A t \in tasks : t.key # Key(k)
      BY <2>1, <2>3 DEF CleanParts, OwnReport
    <3>2. tasks' = tasks \union {report}
      BY <2>1, <2>2
    <3>3. report.key = Key(k) /\ report.job = k /\ report.source = jobs[k].commit
      OBVIOUS
    <3> HIDE DEF report
    <3>. QED  BY <2>2, <2>4, <3>1, <3>2, <3>3 DEF OwnReport, Analysed, Asked, MeasuredBy, Reading
  <2>6. OwnAnswers(k)'
    BY <2>2 DEF OwnAnswers, Asked, MeasuredBy, Reading
  <2>7. Swept(k)'
    BY <2>1, <2>2, <2>3 DEF CleanParts, Swept, Reading
  <2>. QED  BY <2>4, <2>5, <2>6, <2>7 DEF CleanParts
<1>. QED  BY <1>2, <1>3

\* What Sonar answers once the report is processed is about the job's own commit.
LEMMA FetchClean ==
    ASSUME TypeOK, NEW k \in JobIds, Clean(k) => CleanParts(k), Untouched(k), Clean(k)',
           \/ Wait(k) \/ FetchGate(k) \/ FetchMeasures(k) \/ OpenSession(k)
           \/ FetchIssues(k) \/ FetchIssuesFails(k)
    PROVE  CleanParts(k)'
<1>1. jobs \in [JobIds -> Jobs] /\ jobs[k] \in Jobs
  BY DEF TypeOK
<1>2. UNCHANGED <<tasks, sonar, run, results>>
  BY DEF Wait, FetchGate, FetchMeasures, OpenSession, FetchIssues, FetchIssuesFails, Step
<1>3. \/ Wait(k) /\ jobs[k].pc = "waiting" /\ jobs'[k] = [jobs[k] EXCEPT !.pc = "gate"]
      \/ jobs[k].pc = "gate" /\ jobs'[k] = [jobs[k] EXCEPT !.pc = "measures",
                                                       !.gate = sonar[Key(k)]]
      \/ jobs[k].pc = "measures" /\ jobs'[k] = [jobs[k] EXCEPT !.pc = "store",
                                                       !.measures = sonar[Key(k)]]
      \/ jobs[k].pc = "store" /\ jobs'[k] = [jobs[k] EXCEPT !.pc = "gates", !.seen = Run(k)]
      \/ jobs[k].pc = "issues" /\ jobs'[k] = [jobs[k] EXCEPT !.pc = "findings",
                                                         !.issues = sonar[Key(k)]]
      \/ jobs[k].pc = "issues" /\ jobs'[k] = [jobs[k] EXCEPT !.pc = "commit"]
  BY <1>1 DEF Wait, FetchGate, FetchMeasures, OpenSession, FetchIssues, FetchIssuesFails,
     Step, Job, At
<1>4. Clean(k)
  BY <1>1, <1>3 DEF Clean, Jobs, SoundRun, Analysed, Asked, MeasuredBy, Reading
<1>5. Unrivalled(k)' /\ Key(k)' = Key(k) /\ Run(k)' = Run(k)
      /\ \A kind : Of(k, kind)' = Of(k, kind)
  BY <1>2, <1>4, OwnFrame DEF Run, Untouched
<1>6. OwnReport(k)'
  <2>1. CASE Wait(k) /\ jobs[k].pc = "waiting" /\ jobs'[k] = [jobs[k] EXCEPT !.pc = "gate"]
    <3>1. \A t \in tasks : t.key # Key(k)
      BY <1>4, <2>1 DEF Wait, CleanParts, OwnReport
    <3>2. sonar[Key(k)] = jobs[k].commit /\ jobs'[k].pc = "gate" /\ jobs'[k].commit = jobs[k].commit
      BY <1>1, <1>4, <2>1, <3>1 DEF CleanParts, OwnReport, Jobs
    <3>. QED  BY <1>2, <1>5, <3>1, <3>2 DEF OwnReport
  <2>2. CASE ~(Wait(k) /\ jobs[k].pc = "waiting" /\ jobs'[k] = [jobs[k] EXCEPT !.pc = "gate"])
    <3>1. /\ jobs[k].pc \in Analysed /\ jobs'[k].pc # "waiting"
          /\ jobs[k].pc # "waiting" /\ jobs'[k].commit = jobs[k].commit
      BY <1>1, <1>3, <2>2 DEF Analysed, Asked, MeasuredBy, Reading, Jobs
    <3>. QED  BY <1>2, <1>4, <1>5, <3>1 DEF CleanParts, OwnReport
  <2>. QED  BY <2>1, <2>2
<1>7. sonar[Key(k)] = jobs[k].commit \/ jobs[k].pc = "waiting"
  BY <1>3, <1>4 DEF CleanParts, OwnReport, Analysed, Asked, MeasuredBy, Reading
<1>8. OwnAnswers(k)'
  BY <1>1, <1>3, <1>4, <1>5, <1>7
     DEF CleanParts, OwnAnswers, Asked, MeasuredBy, Reading, Jobs
<1>9. Swept(k)'
  <2>1. /\ jobs'[k].commit = jobs[k].commit /\ jobs'[k].old = jobs[k].old
        /\ jobs'[k].doomed = jobs[k].doomed
    BY <1>1, <1>3 DEF Jobs
  <2>2. Swept(k)
    BY <1>4 DEF CleanParts
  <2>3. CASE jobs[k].pc \in {"waiting", "gate", "measures"}
    <3>1. jobs'[k].pc \in {"gate", "measures", "store"} /\ jobs'[k].issues = jobs[k].issues
      BY <1>1, <1>3, <2>3 DEF Jobs
    <3>. QED  BY <2>1, <2>2, <2>3, <3>1 DEF Swept, Reading
  <2>4. CASE jobs[k].pc = "store"
    <3>1. jobs'[k].pc = "gates" /\ jobs'[k].issues = jobs[k].issues
      BY <1>1, <1>3, <2>4 DEF Jobs
    <3>. QED  BY <2>1, <2>2, <2>4, <3>1 DEF Swept, Reading
  <2>5. CASE jobs[k].pc = "issues"
    <3>1. \/ jobs'[k].pc = "findings" /\ jobs'[k].issues = jobs[k].commit
          \/ jobs'[k].pc = "commit" /\ jobs'[k].issues = jobs[k].issues
      BY <1>1, <1>3, <1>7, <2>5 DEF Jobs
    <3>. QED  BY <1>5, <2>1, <2>2, <2>5, <3>1 DEF Swept, Reading
  <2>. QED  BY <1>3, <2>3, <2>4, <2>5
<1>. QED  BY <1>5, <1>6, <1>8, <1>9 DEF CleanParts

\* A DELETE dooms every old row of its kind, or waits for those it has seen.
LEMMA DeleteDooms ==
    ASSUME TypeOK, NEW k \in JobIds, NEW from, NEW kind, NEW to, from # to,
           Delete(k, from, kind, to), jobs[k].old \in {{}, Of(k, kind)}
    PROVE  /\ UNCHANGED <<tasks, sonar, run, results>>
           /\ jobs'[k].gate = jobs[k].gate /\ jobs'[k].measures = jobs[k].measures
           /\ jobs'[k].issues = jobs[k].issues /\ jobs'[k].alone = jobs[k].alone
           /\ \/ /\ jobs'[k].pc = to /\ jobs'[k].old = {}
                 /\ jobs'[k].doomed = jobs[k].doomed \union Of(k, kind)
              \/ /\ jobs'[k].pc = from /\ jobs'[k].old = Of(k, kind)
                 /\ jobs'[k].doomed = jobs[k].doomed
<1>1. jobs \in [JobIds -> Jobs] /\ jobs[k] \in Jobs
  BY DEF TypeOK
<1>2. CASE Step(k, from, [jobs[k] EXCEPT !.old = Of(k, kind)])
  BY <1>1, <1>2 DEF Step, Job, Jobs, At
<1>3. CASE LET old == IF jobs[k].old = {} THEN Of(k, kind) ELSE jobs[k].old
           IN  Step(k, from, [jobs[k] EXCEPT !.pc = to, !.old = {},
                                 !.doomed = @ \union (old \intersect Of(k, kind))])
  <2>1. (IF jobs[k].old = {} THEN Of(k, kind) ELSE jobs[k].old) = Of(k, kind)
    OBVIOUS
  <2>2. Step(k, from, [jobs[k] EXCEPT !.pc = to, !.old = {},
                                 !.doomed = @ \union (Of(k, kind) \intersect Of(k, kind))])
    BY <1>3, <2>1
  <2>. QED  BY <1>1, <2>2 DEF Step, Job, Jobs, At
<1>. QED  BY <1>2, <1>3 DEF Delete

LEMMA SweepClean ==
    ASSUME TypeOK, NEW k \in JobIds, Clean(k) => CleanParts(k), Untouched(k), Clean(k)',
           DeleteGates(k) \/ DeleteFindings(k)
    PROVE  CleanParts(k)'
<1>1. jobs'[k].commit = jobs[k].commit /\ jobs'[k].seen = jobs[k].seen
  BY DeleteKeeps DEF DeleteGates, DeleteFindings
<1>2. CASE DeleteGates(k)
  <2>1. jobs[k].pc = "gates"
    BY <1>2 DEF DeleteGates, Delete, Step, At
  <2>2. jobs'[k].alone = jobs[k].alone
    BY <1>2 DEF DeleteGates, Delete, Step, Job, TypeOK, Jobs
  <2>3. Clean(k)
    BY <2>1, <2>2 DEF Clean, SoundRun, Analysed, Asked, MeasuredBy, Reading
  <2>4. /\ jobs[k].old \in {{}, Of(k, "gate")} /\ jobs[k].issues = None /\ jobs[k].doomed = {}
    BY <2>1, <2>3 DEF CleanParts, Swept
  <2>5. /\ UNCHANGED <<tasks, sonar, run, results>>
        /\ jobs'[k].gate = jobs[k].gate /\ jobs'[k].measures = jobs[k].measures
        /\ jobs'[k].issues = jobs[k].issues
        /\ \/ /\ jobs'[k].pc = "issues" /\ jobs'[k].old = {}
              /\ jobs'[k].doomed = jobs[k].doomed \union Of(k, "gate")
           \/ /\ jobs'[k].pc = "gates" /\ jobs'[k].old = Of(k, "gate")
              /\ jobs'[k].doomed = jobs[k].doomed
    BY <1>2, <2>4, DeleteDooms DEF DeleteGates
  <2>6. /\ Unrivalled(k)' /\ Key(k)' = Key(k) /\ Run(k)' = Run(k)
        /\ Of(k, "gate")' = Of(k, "gate")
    BY <1>1, <2>3, <2>5, OwnFrame DEF Run
  <2>7. OwnReport(k)'
    BY <1>1, <2>1, <2>3, <2>5, <2>6
       DEF CleanParts, OwnReport, Analysed, Asked, MeasuredBy, Reading
  <2>8. OwnAnswers(k)'
    BY <1>1, <2>1, <2>3, <2>5, <2>6 DEF CleanParts, OwnAnswers, Asked, MeasuredBy, Reading
  <2>9. \A r \in Of(k, "gate") : r.kind = "gate"
    BY DEF Of
  <2>10. Swept(k)'
    BY <1>1, <2>4, <2>5, <2>6, <2>9 DEF Swept, Reading
  <2>. QED  BY <2>6, <2>7, <2>8, <2>10 DEF CleanParts
<1>3. CASE DeleteFindings(k)
  <2>1. jobs[k].pc = "findings"
    BY <1>3 DEF DeleteFindings, Delete, Step, At
  <2>2. jobs'[k].alone = jobs[k].alone
    BY <1>3 DEF DeleteFindings, Delete, Step, Job, TypeOK, Jobs
  <2>3. Clean(k)
    BY <2>1, <2>2 DEF Clean, SoundRun, Analysed, Asked, MeasuredBy, Reading
  <2>4. /\ jobs[k].old \in {{}, Of(k, "findings")} /\ jobs[k].issues = jobs[k].commit
        /\ Of(k, "gate") \subseteq jobs[k].doomed
        /\ \A r \in jobs[k].doomed : r.kind = "gate"
    BY <2>1, <2>3 DEF CleanParts, Swept
  <2>5. /\ UNCHANGED <<tasks, sonar, run, results>>
        /\ jobs'[k].gate = jobs[k].gate /\ jobs'[k].measures = jobs[k].measures
        /\ jobs'[k].issues = jobs[k].issues
        /\ \/ /\ jobs'[k].pc = "commit" /\ jobs'[k].old = {}
              /\ jobs'[k].doomed = jobs[k].doomed \union Of(k, "findings")
           \/ /\ jobs'[k].pc = "findings" /\ jobs'[k].old = Of(k, "findings")
              /\ jobs'[k].doomed = jobs[k].doomed
    BY <1>3, <2>4, DeleteDooms DEF DeleteFindings
  <2>6. /\ Unrivalled(k)' /\ Key(k)' = Key(k) /\ Run(k)' = Run(k)
        /\ Of(k, "gate")' = Of(k, "gate") /\ Of(k, "findings")' = Of(k, "findings")
    BY <1>1, <2>3, <2>5, OwnFrame DEF Run
  <2>7. OwnReport(k)'
    BY <1>1, <2>1, <2>3, <2>5, <2>6
       DEF CleanParts, OwnReport, Analysed, Asked, MeasuredBy, Reading
  <2>8. OwnAnswers(k)'
    BY <1>1, <2>1, <2>3, <2>5, <2>6 DEF CleanParts, OwnAnswers, Asked, MeasuredBy, Reading
  <2>9. Swept(k)'
    BY <1>1, <2>4, <2>5, <2>6 DEF Swept, Reading
  <2>. QED  BY <2>6, <2>7, <2>8, <2>9 DEF CleanParts
<1>. QED  BY <1>2, <1>3

\* The other steps end the job's soundness.
LEMMA EndsUnclean ==
    ASSUME TypeOK, NEW k \in JobIds,
           \/ CommitRun(k) \/ Report(k) \/ GetFailed(k) \/ MarkFailed(k)
           \/ Fail(k) \/ CommitFails(k) \/ Gap(k) \/ Cancel(k)
    PROVE  ~Clean(k)' /\ jobs'[k].pc # "queued"
<1>1. jobs \in [JobIds -> Jobs] /\ jobs[k] \in Jobs
  BY DEF TypeOK
<1>2. jobs'[k].pc \in {"report", "mark", "fail", "over"}
  <2>1. CASE CommitRun(k)
    BY <1>1, <2>1 DEF CommitRun, Job, Jobs
  <2>2. CASE GetFailed(k)
    BY <1>1, <2>2 DEF GetFailed, Step, Job, Jobs
  <2>3. CASE Fail(k)
    BY <1>1, <2>3 DEF Fail, Job, Jobs
  <2>4. CASE Report(k) \/ MarkFailed(k) \/ CommitFails(k) \/ Gap(k) \/ Cancel(k)
    BY <1>1, <2>4, OverTyped DEF Report, MarkFailed, CommitFails, Gap, Cancel, Step, Job
  <2>. QED  BY <2>1, <2>2, <2>3, <2>4
<1>. QED  BY <1>2 DEF Clean, SoundRun, Analysed, Asked, MeasuredBy, Reading

\* Sonar takes the job's report into the project, or one of another project.
LEMMA ProcessClean ==
    ASSUME TypeOK, CleanInv, NEW t \in tasks, Process(t), NEW k \in JobIds, Clean(k)'
    PROVE  CleanParts(k)'
<1>1. UNCHANGED <<jobs, run, results>> /\ tasks' = tasks \ {t}
  BY DEF Process
<1>2. Clean(k) /\ CleanParts(k)
  BY <1>1 DEF CleanInv, Clean
<1>3. Key(k) \in Keys /\ jobs'[k] = jobs[k]
  BY <1>1, <1>2, JobParts DEF Clean, SoundRun, Analysed, Asked, MeasuredBy, Reading
<1>4. CASE t.key # Key(k)
  <2>1. sonar'[Key(k)] = sonar[Key(k)]
    BY <1>3, <1>4 DEF Process, TypeOK
  <2>2. Working(k)' /\ \A j \in JobIds : jobs'[j] = jobs[j]
    BY <1>1, <1>2 DEF Clean, Working, SoundRun, Analysed, Asked, MeasuredBy, Reading
  <2>3. \A j \in JobIds : Working(j)' => Working(j)
    BY <2>2 DEF Working
  <2>4. \A u \in tasks \union tasks' : u.key = Key(k) => (u \in tasks' <=> u \in tasks)
    BY <1>1, <1>4
  <2>. QED  BY <1>1, <1>2, <1>3, <2>1, <2>2, <2>3, <2>4, StillClean
<1>5. CASE t.key = Key(k)
  <2>1. jobs[k].pc = "waiting" /\ t.source = jobs[k].commit
    BY <1>2, <1>5 DEF CleanParts, OwnReport
  <2>2. sonar'[Key(k)] = jobs[k].commit
    BY <1>3, <1>5, <2>1 DEF Process, TypeOK
  <2>3. OwnReport(k)'
    BY <1>1, <1>2, <1>3, <2>1, <2>2 DEF CleanParts, OwnReport, Key
  <2>4. Unrivalled(k)' /\ OwnAnswers(k)' /\ Swept(k)'
    BY <1>1, <1>2 DEF CleanParts, Unrivalled, OwnAnswers, Swept, Working, Key, Run, Of
  <2>. QED  BY <2>3, <2>4 DEF CleanParts
<1>. QED  BY <1>4, <1>5

\* A queued job works on nothing.
LEMMA EnqueueClean ==
    ASSUME TypeOK, CleanInv, NEW j \in JobIds, NEW k \in JobIds,
           \/ \E d \in accepted : EnqueuePushed(d, j)
           \/ \E x \in Branches : Ask(j, x)
    PROVE  Fresh(k)' /\ (Clean(k)' => CleanParts(k)')
<1>1. PICK trigger, x, c : Job(j, NewJob(trigger, x, c))
  BY DEF EnqueuePushed, Ask, Enqueue, Job
<1>2. UNCHANGED <<tasks, sonar, run, results>>
  BY DEF EnqueuePushed, Ask
<1>3. /\ jobs'[j].pc = "queued" /\ jobs'[j].issues = None /\ jobs'[j].old = {}
      /\ jobs'[j].doomed = {} /\ \A i \in JobIds \ {j} : jobs'[i] = jobs[i]
  BY <1>1, OthersStay DEF NewJob
<1>4. CASE k = j
  BY <1>3, <1>4 DEF Fresh, Clean, SoundRun, Analysed, Asked, MeasuredBy, Reading
<1>5. CASE k # j
  <2>1. jobs'[k] = jobs[k] /\ (Clean(k)' <=> Clean(k))
    BY <1>3, <1>5 DEF Clean
  <2>2. \A i \in JobIds : Working(i)' => Working(i) /\ jobs'[i] = jobs[i]
    BY <1>3 DEF Working
  <2>3. Clean(k) => CleanParts(k)'
    BY <1>2, <2>1, <2>2, StillClean DEF CleanInv
  <2>. QED  BY <2>1, <2>3 DEF CleanInv, Fresh
<1>. QED  BY <1>4, <1>5

\* The backend restarts: no job works, and queued ones wait as they did.
LEMMA RestartClean ==
    ASSUME TypeOK, CleanInv, Restart \/ RestartReapingFails, NEW k \in JobIds
    PROVE  Fresh(k)' /\ ~Clean(k)'
<1>1. Stop /\ jobs[k] \in Jobs
  BY DEF Restart, RestartReapingFails, TypeOK
<1>2. CASE Working(k)
  BY <1>1, <1>2, OverTyped DEF Stop, Fresh, Clean, SoundRun, Analysed, Asked, MeasuredBy, Reading
<1>3. CASE ~Working(k)
  <2>1. jobs'[k] = jobs[k]
    BY <1>1, <1>3 DEF Stop
  <2>. QED  BY <1>3, <2>1 DEF CleanInv, Fresh, Clean, Working, SoundRun, Analysed, Asked,
               MeasuredBy, Reading
<1>. QED  BY <1>2, <1>3

\* A job's own step or another's.
LEMMA JobClean ==
    ASSUME TypeOK, CleanInv, NEW j \in JobIds, NEW k \in JobIds,
           JobStep(j) \/ FetchIssuesFails(j) \/ Fail(j) \/ CommitFails(j) \/ Gap(j) \/ Cancel(j)
    PROVE  Fresh(k)' /\ (Clean(k)' => CleanParts(k)')
<1>1. jobs \in [JobIds -> Jobs] /\ jobs[k] \in Jobs
  BY DEF TypeOK
<1>2. CASE GetRun(j)
  <2>1. jobs'[k].pc \in {"begin", jobs[k].pc} /\ jobs'[k].issues = jobs[k].issues
        /\ jobs'[k].old = jobs[k].old /\ jobs'[k].doomed = jobs[k].doomed
    BY <1>1, <1>2 DEF GetRun, Jobs
  <2>. QED  BY <1>2, <2>1, GetRunClean DEF CleanInv, Fresh
<1>3. CASE ~GetRun(j)
  <2>1. Untouched(j)
    BY <1>3, JobStepsTouch
  <2>2. CASE k # j
    <3>1. jobs'[k] = jobs[k]
      BY <2>1, <2>2 DEF Untouched
    <3>. QED  BY <2>1, <2>2, <3>1, OthersClean DEF CleanInv, Fresh, Clean
  <2>3. CASE k = j
    <3>1. jobs'[j].pc # "queued"
      <4>1. CASE BeginRun(j) \/ CloneAndScan(j)
        <5>1. jobs'[j].pc \in {"over", "clone", "waiting"}
          <6>1. CASE BeginRun(j)
            BY <1>1, <2>3, <6>1, OverTyped DEF BeginRun, Job, Jobs
          <6>2. CASE CloneAndScan(j)
            BY <1>1, <2>3, <6>2 DEF CloneAndScan, Job, Jobs
          <6>. QED  BY <4>1, <6>1, <6>2
        <5>. QED  BY <5>1
      <4>2. CASE Wait(j) \/ FetchGate(j) \/ FetchMeasures(j) \/ OpenSession(j)
                   \/ FetchIssues(j) \/ FetchIssuesFails(j)
        <5>1. jobs'[j].pc \in {"gate", "measures", "store", "gates", "findings", "commit"}
          BY <1>1, <2>3, <4>2 DEF Wait, FetchGate, FetchMeasures, OpenSession, FetchIssues,
             FetchIssuesFails, Step, Job, Jobs
        <5>. QED  BY <5>1
      <4>3. CASE DeleteGates(j) \/ DeleteFindings(j)
        BY <4>3, DeleteKeeps DEF DeleteGates, DeleteFindings
      <4>. QED  BY <1>3, <4>1, <4>2, <4>3, EndsUnclean DEF JobStep
    <3>2. Clean(j)' => CleanParts(j)'
      BY <1>3, <2>1, ScanClean, FetchClean, SweepClean, EndsUnclean DEF JobStep, CleanInv
    <3>. QED  BY <2>3, <3>1, <3>2 DEF Fresh
  <2>. QED  BY <2>2, <2>3
<1>. QED  BY <1>2, <1>3

LEMMA StepsClean == TypeOK /\ CleanInv /\ [Next]_vars => CleanInv'
<1> SUFFICES ASSUME TypeOK, CleanInv, [Next]_vars, NEW k \in JobIds
             PROVE  Fresh(k)' /\ (Clean(k)' => CleanParts(k)')
  BY DEF CleanInv
<1>1. CASE UNCHANGED <<tasks, sonar, run, results, jobs>>
  BY <1>1 DEF CleanInv, Fresh, Clean, CleanParts, Unrivalled, OwnReport, OwnAnswers, Swept,
     Working, Key, Run, Of
<1>2. CASE Next
  <2>1. CASE \/ \E x \in Branches, c \in Commits : Push(x, c)
             \/ \E c \in Commits : Expire(c)
             \/ \E d \in deliveries : Deliver(d) \/ DeliverUnguarded(d)
             \/ \E d \in accepted : EnqueueFails(d)
    <3>1. UNCHANGED <<tasks, sonar, run, results, jobs>>
      BY <2>1 DEF Push, Expire, Deliver, DeliverUnguarded, EnqueueFails
    <3>. QED  BY <1>1, <3>1
  <2>2. CASE \E t \in tasks : Process(t)
    <3>1. UNCHANGED jobs
      BY <2>2 DEF Process
    <3>2. Fresh(k)'
      BY <3>1 DEF CleanInv, Fresh
    <3>. QED  BY <2>2, <3>2, ProcessClean
  <2>. QED  BY <1>2, <2>1, <2>2, EnqueueClean, RestartClean, JobClean DEF Next
<1>. QED  BY <1>1, <1>2 DEF vars

\* The commit writes what the clean job holds over a row that is as it read it, and
\* takes every old row that what it stores replaces.
LEMMA CommitIsExact ==
    ASSUME TypeOK, CleanInv, NEW k \in JobIds, CommitRun(k), jobs[k].alone
    PROVE  LET c == jobs[k].commit IN
           /\ run'[c] = [status |-> "success", measures |-> c]
           /\ Stored(c, "gate")' = {Row(k, "gate", c)}
           /\ Stored(c, "findings")' = IF jobs[k].issues = None THEN Stored(c, "findings")
                                     ELSE {Row(k, "findings", c)}
<1> DEFINE c == jobs[k].commit
<1>1. jobs[k].pc = "commit"
  BY DEF CommitRun, At
<1>2. CleanParts(k)
  BY <1>1 DEF CleanInv, Clean, SoundRun, Analysed, Asked, MeasuredBy, Reading
<1>3. c \in Commits /\ c # None /\ run[c] \in RunRows /\ results[c] \subseteq Rows
  BY <1>1, JobParts, CommitsAssumption DEF Run
<1> jobs'[k].commit = c
  BY JobStepsKeep DEF JobStep
<1>4. jobs[k].gate = c /\ jobs[k].measures = c /\ jobs[k].seen = run[c]
  BY <1>1, <1>2 DEF CleanParts, OwnAnswers, Asked, MeasuredBy, Reading, Run
<1>5. run'[c] = [status |-> "success", measures |-> c]
  <2>1. run' = [run EXCEPT ![c] = [status   |-> Changed(run[c], @, "status", "success"),
                                   measures |-> Changed(run[c], @, "measures", c)]]
    BY <1>4 DEF CommitRun, Update
  <2>2. run'[c] = [status   |-> Changed(run[c], run[c], "status", "success"),
                   measures |-> Changed(run[c], run[c], "measures", c)]
    BY <1>3, <2>1 DEF TypeOK
  <2>. QED  BY <2>2 DEF Changed
<1>6. results'[c] = (results[c] \ jobs[k].doomed)
                      \union {Row(k, "gate", c)}
                      \union (IF jobs[k].issues = None THEN {}
                              ELSE {Row(k, "findings", jobs[k].issues)})
  BY <1>3, <1>4 DEF CommitRun, TypeOK
<1>7. /\ Row(k, "gate", c).kind = "gate"
      /\ \A source : Row(k, "findings", source).kind = "findings"
  BY DEF Row
<1>8. \A r \in results[c] : r.kind = "gate" => r \in jobs[k].doomed
  BY <1>1, <1>2 DEF CleanParts, Swept, Of
<1>9. Stored(c, "gate")' = {Row(k, "gate", c)}
  <2>1. Stored(c, "gate")' = {r \in results'[c] : r.kind = "gate"}
    BY DEF Stored
  <2>. QED  BY <1>6, <1>7, <1>8, <2>1
<1>10. Stored(c, "findings")' = {r \in results'[c] : r.kind = "findings"}
  BY DEF Stored
<1>11. CASE jobs[k].issues = None
  <2>1. \A r \in jobs[k].doomed : r.kind = "gate"
    BY <1>1, <1>2, <1>3, <1>11 DEF CleanParts, Swept
  <2>2. Stored(c, "findings")' = Stored(c, "findings")
    BY <1>6, <1>7, <1>10, <1>11, <2>1 DEF Stored
  <2>. QED  BY <1>5, <1>9, <1>11, <2>2
<1>12. CASE jobs[k].issues # None
  <2>1. jobs[k].issues = c /\ \A r \in results[c] : r.kind = "findings" => r \in jobs[k].doomed
    BY <1>1, <1>2, <1>12 DEF CleanParts, Swept, Of
  <2>2. Stored(c, "findings")' = {Row(k, "findings", c)}
    BY <1>6, <1>7, <1>10, <1>12, <2>1
  <2>. QED  BY <1>5, <1>9, <1>12, <2>2
<1>. QED  BY <1>11, <1>12

\* Only a commit leads from "commit" to "report".
LEMMA CommitsOnly ==
    ASSUME TypeOK, [Next]_vars, NEW k \in JobIds, At(k, "commit"), jobs'[k].pc = "report"
    PROVE  CommitRun(k)
<1>1. jobs \in [JobIds -> Jobs] /\ jobs[k] \in Jobs /\ jobs[k].pc = "commit"
  BY DEF TypeOK, At
<1>2. Next /\ jobs' # jobs
  BY <1>1 DEF vars
<1>3. ASSUME NEW j \in JobIds,
             JobStep(j) \/ FetchIssuesFails(j) \/ Fail(j) \/ CommitFails(j) \/ Gap(j) \/ Cancel(j)
      PROVE  CommitRun(k)
  <2>1. CASE GetRun(j)
    BY <1>1, <2>1 DEF GetRun, Jobs
  <2>2. CASE ~GetRun(j)
    <3>1. j = k
      BY <1>1, <1>3, <2>2, JobStepsTouch DEF Untouched
    <3>2. ~Cancel(k) /\ ~CommitFails(k)
      BY <1>1, OverTyped DEF Cancel, CommitFails, Job
    <3>. QED  BY <1>1, <1>3, <3>1, <3>2 DEF JobStep, GetRun, BeginRun, CloneAndScan, Wait,
         FetchGate, FetchMeasures, OpenSession, DeleteGates, FetchIssues, DeleteFindings,
         Report, GetFailed, MarkFailed, Delete, Step, FetchIssuesFails, Fail, Gap, Trying, At
  <2>. QED  BY <2>1, <2>2
<1>4. \A j \in JobIds, d \in accepted : ~EnqueuePushed(d, j)
  <2> SUFFICES ASSUME NEW j \in JobIds, NEW d \in accepted, EnqueuePushed(d, j) PROVE FALSE
    OBVIOUS
  <2>1. Job(j, NewJob("push", d.branch, d.commit))
    BY DEF EnqueuePushed, Enqueue, Job
  <2>. QED  BY <1>1, <2>1, OthersStay DEF NewJob
<1>5. \A j \in JobIds, x \in Branches : ~Ask(j, x)
  <2> SUFFICES ASSUME NEW j \in JobIds, NEW x \in Branches, Ask(j, x) PROVE FALSE
    OBVIOUS
  <2>1. Job(j, NewJob("manual", x, head[x]))
    BY DEF Ask, Enqueue, Job
  <2>. QED  BY <1>1, <2>1, OthersStay DEF NewJob
<1>6. ~Restart /\ ~RestartReapingFails
  BY <1>1, OverTyped DEF Restart, RestartReapingFails, Stop
<1>. QED  BY <1>2, <1>3, <1>4, <1>5, <1>6 DEF Next, Push, Expire, Deliver, DeliverUnguarded,
        EnqueueFails, Process

\* A job that nobody interfered with stores what Sonar found in its own commit and
\* nothing else, whatever earlier jobs for the commit left behind.
THEOREM CleanRunIsExactCorrect == Spec => CleanRunIsExact
<1>1. Init => CleanInv
  <2> SUFFICES ASSUME Init, NEW k \in JobIds PROVE Fresh(k) /\ ~Clean(k)
    BY DEF CleanInv
  <2>1. jobs[k].pc = "new"
    BY DEF Init, NoJob, NewJob
  <2>. QED  BY <2>1 DEF Fresh, Clean, SoundRun, Analysed, Asked, MeasuredBy, Reading
<1>2. TypeOK /\ CleanInv /\ [Next]_vars =>
        \A k \in JobIds :
          At(k, "commit") /\ jobs'[k].pc = "report" /\ jobs[k].alone =>
             LET c == jobs[k].commit IN
             /\ run'[c] = [status |-> "success", measures |-> c]
             /\ Stored(c, "gate")' = {Row(k, "gate", c)}
             /\ Stored(c, "findings")' = IF jobs[k].issues = None THEN Stored(c, "findings")
                                       ELSE {Row(k, "findings", c)}
  BY CommitsOnly, CommitIsExact
<1>. QED  BY <1>1, <1>2, TypeCorrect, StepsClean, PTL DEF Spec, CleanRunIsExact


-----------------------------------------------------------------------------
(* The bot's screens.                                                      *)

\* What a screen offers to whoever may see it, he may do.
LEMMA ScreensOfferWhatWorks ==
    ASSUME NEW x \in Actions, Allowed(x), NEW y \in Keyboard(x).offers \ {"pl", "me"}
    PROVE  Allowed(y)
<1>1. /\ CanManage => Has("projects:write") /\ IsMember({"admin"})
      /\ analysed /\ CanRun => MayRun
  BY DEF CanManage, CanRun, MayRun
<1>2. CASE x \in {"mn", "pl"}
  <2>1. y \in {"ad", "p"} /\ (y = "ad" => Has("system:execute")) /\ (y = "p" => x = "pl" /\ Visible)
    BY <1>2 DEF Keyboard, MainMenu, ProjectsList, Screen, If
  <2>2. CASE y = "ad"
    BY <2>1, <2>2 DEF Allowed, Admin
  <2>3. CASE y = "p"
    <3>1. Has("projects:read") /\ Visible
      BY <2>1, <2>3 DEF Allowed, Managing, Admin
    <3>. QED  BY <2>3, <3>1 DEF Allowed
  <2>. QED  BY <2>1, <2>2, <2>3
<1>3. CASE x \in {"p", "mm"}
  <2>1. Has("projects:read") /\ Visible
    BY <1>3 DEF Allowed, Managing, Admin
  <2>2. y \in {"pr", "mm", "mc"} /\ (y = "mc" => CanManage)
    BY <1>3 DEF Keyboard, ProjectDetail, MembersList, Screen, If
  <2>3. CASE y = "mc"
    BY <1>1, <2>2, <2>3 DEF Allowed, Managing
  <2>. QED  BY <2>1, <2>2, <2>3 DEF Allowed
<1>4. CASE x = "pr"
  <2>1. y = "ra" /\ analysed /\ CanRun
    BY <1>4 DEF Keyboard, ReposList, RunOffered, Screen, If
  <2>. QED  BY <1>1, <2>1 DEF Allowed
<1>5. CASE x \in Managing
  <2>1. Has("projects:write") /\ IsMember({"admin"})
    BY <1>5 DEF Allowed, Managing, Admin
  <2>2. y \in Managing
    BY <1>5 DEF Keyboard, Candidates, RolePicker, MemberActions, ConfirmRemove, BackOnly, Screen, Managing
  <2>. QED  BY <2>1, <2>2 DEF Allowed
<1>6. CASE x \in Admin
  <2>1. Has("system:execute")
    BY <1>6 DEF Allowed, Managing, Admin
  <2>2. y \in Admin
    BY <1>6 DEF Keyboard, AdminHome, LinksList, ConfirmUnlink, BackOnly, Screen, If, Admin
  <2>. QED  BY <2>1, <2>2 DEF Allowed
<1>7. CASE x = "ra"
  BY <1>7 DEF Keyboard, BackOnly, Screen
<1>. QED  BY <1>2, <1>3, <1>4, <1>5, <1>6, <1>7 DEF Actions

\* Nor does the screen a step shows become wrong by that step.
LEMMA ShownWorks ==
    ASSUME NEW s, NEW new, Shows(s, new), UNCHANGED <<account, analysed>>,
           \A y \in s.offers \ {"pl", "me"} : Allowed(y)
    PROVE  FreshButtonsWork'
<1>1. \A y : Allowed(y) => Allowed(y)'
  BY DEF Allowed, Has, IsMember, Visible, MayRun
<1>. QED  BY <1>1 DEF Shows, FreshButtonsWork

LEMMA MenusStep == FreshButtonsWork /\ [MenuNext]_menuVars => FreshButtonsWork'
<1> SUFFICES ASSUME FreshButtonsWork, [MenuNext]_menuVars PROVE FreshButtonsWork'
  OBVIOUS
<1> DEFINE Works(s) == \A y \in s.offers \ {"pl", "me"} : Allowed(y)
<1>1. Works(Refusal) /\ Works(MainMenu)
  <2>1. Works(Refusal)
    BY DEF Refusal, BackOnly, Screen
  <2>2. "mn" \in Actions /\ Keyboard("mn") = MainMenu /\ Allowed("mn")
    BY DEF Actions, Keyboard, Allowed
  <2>. QED  BY <2>1, <2>2, ScreensOfferWhatWorks
<1>2. \A x \in Actions : Allowed(x) => Works(Keyboard(x))
  BY ScreensOfferWhatWorks
<1> HIDE DEF Works
<1>3. CASE UNCHANGED <<account, analysed, screen, fresh>>
  BY <1>3 DEF FreshButtonsWork, Allowed, Has, IsMember, Visible, MayRun
<1>4. CASE ~fresh'
  BY <1>4 DEF FreshButtonsWork
<1>5. ASSUME NEW s, NEW new, Shows(s, new), UNCHANGED <<account, analysed>>, Works(s)
      PROVE  FreshButtonsWork'
  BY <1>5, ShownWorks DEF Works
<1>6. CASE Start
  BY <1>1, <1>3, <1>5, <1>6 DEF Start
<1>7. ASSUME NEW x \in Actions, TapUnlinked(x) \/ TapLooks(x) \/ TapRefused(x) PROVE FreshButtonsWork'
  BY <1>1, <1>2, <1>3, <1>5, <1>7 DEF TapUnlinked, TapLooks, TapRefused
<1>8. ASSUME NEW x \in {"mr", "mu", "mdc"}, NEW self \in BOOLEAN, NEW r \in Roles, TapMember(x, self, r)
      PROVE  FreshButtonsWork'
  <2>1. Shows(Keyboard(x), ~self) /\ UNCHANGED analysed /\ Allowed(x) /\ x \in Actions
    BY <1>8 DEF TapMember, Actions, Managing
  <2>2. CASE self
    BY <1>4, <2>1, <2>2 DEF Shows
  <2>3. CASE ~self
    <3>1. UNCHANGED account
      BY <1>8, <2>3 DEF TapMember
    <3>. QED  BY <1>2, <1>5, <2>1, <3>1
  <2>. QED  BY <2>2, <2>3
<1>9. CASE TapRun
  <2>1. Allowed("ra") /\ Shows(Keyboard("ra"), TRUE) /\ UNCHANGED <<account, analysed>> /\ "ra" \in Actions
    BY <1>9 DEF TapRun, Actions
  <2>. QED  BY <1>2, <1>5, <2>1
<1>10. CASE TapUnlink
  <2>1. Allowed("aduc") /\ Shows(Keyboard("aduc"), linked') /\ UNCHANGED <<account, analysed>> /\ "aduc" \in Actions
    BY <1>10 DEF TapUnlink, Actions, Admin
  <2>. QED  BY <1>2, <1>5, <2>1
<1>11. CASE Elsewhere
  BY <1>4, <1>11 DEF Elsewhere
<1>12. CASE UNCHANGED menuVars
  BY <1>3, <1>12 DEF menuVars
<1>. QED  BY <1>6, <1>7, <1>8, <1>9, <1>10, <1>11, <1>12 DEF MenuNext

(***************************************************************************)
(* No button of a screen that is still true ends in a refusal: whatever    *)
(* the keyboard offered, its viewer may do.                                *)
(***************************************************************************)
THEOREM FreshButtonsWorkCorrect == MenuSpec => []FreshButtonsWork
<1>1. MenuInit => FreshButtonsWork
  BY DEF MenuInit, FreshButtonsWork
<1>. QED  BY <1>1, MenusStep, PTL DEF MenuSpec

-----------------------------------------------------------------------------
(* The bot's updates.  What Telegram answers with is a run of consecutive  *)
(* numbers after the last one taken, so a process meets every number once; *)
(* and while no other bot's token was saved, what lies before the batch,   *)
(* the last number or Telegram's own mark has been handled.                *)

PollInv ==
    /\ bot \in Bots \union {Nothing}
    /\ arrived \in [Bots -> 0 .. MaxArrivals] /\ forgotten \in [Bots -> Nat]
    /\ handled \in [Updates -> Nat]
    /\ {last, boots, switches} \subseteq Nat
    /\ batch \in Seq(Updates)
    /\ \A i \in DOMAIN batch : batch[i] = <<batch[1][1], batch[1][2] + i - 1>>
    /\ batch # <<>> => batch[1][2] > last
    /\ \A u \in Updates : /\ handled[u] <= boots + 1
                          /\ u[2] > last => handled[u] <= boots

Behind(c, n) ==
    \/ n <= forgotten[c]
    \/ c = bot /\ (n <= last \/ (batch # <<>> /\ n < batch[1][2]))

NothingLost ==
    /\ bot = Nothing => last = 0 /\ batch = <<>>
    /\ batch # <<>> => batch[1][1] = bot
    /\ bot # Nothing => last < First[bot] + arrived[bot]
    /\ \A c \in Bots : forgotten[c] < First[c] + arrived[c]
    /\ \A i \in DOMAIN batch : batch[i][2] \in Sent(bot)
    /\ \A c \in Bots : \A n \in Sent(c) : Behind(c, n) => handled[<<c, n>>] > 0

LostInv == switches = 0 => NothingLost

LEMMA UpdateFacts ==
    /\ \A u \in Updates : /\ u[1] \in Bots /\ u[2] \in Nat \ {0} /\ u = <<u[1], u[2]>>
                          /\ u[2] >= First[u[1]]
    /\ \A c \in Bots, n \in Nat :
         First[c] <= n /\ n <= First[c] + MaxArrivals - 1 => <<c, n>> \in Updates
    /\ First \in [Bots -> Nat \ {0}] /\ MaxArrivals \in Nat /\ Nothing = 0 /\ 0 \notin Bots
<1>1. First \in [Bots -> Nat \ {0}] /\ MaxArrivals \in Nat /\ Nothing = 0 /\ 0 \notin Bots
  BY BotsAssumption, PollBoundsAssumption DEF Nothing
<1>2. ASSUME NEW u \in Updates
      PROVE  /\ u[1] \in Bots /\ u[2] \in Nat \ {0} /\ u = <<u[1], u[2]>>
             /\ u[2] >= First[u[1]]
  <2>1. PICK c \in Bots : u \in {<<c, n>> : n \in First[c] .. First[c] + MaxArrivals - 1}
    BY <1>2 DEF Updates
  <2>2. PICK n \in First[c] .. First[c] + MaxArrivals - 1 : u = <<c, n>>
    BY <2>1
  <2>. QED  BY <1>1, <2>2
<1>3. ASSUME NEW c \in Bots, NEW n \in Nat, First[c] <= n, n <= First[c] + MaxArrivals - 1
      PROVE  <<c, n>> \in Updates
  <2>1. n \in First[c] .. First[c] + MaxArrivals - 1
    BY <1>1, <1>3
  <2>. QED  BY <2>1 DEF Updates
<1>. QED  BY <1>1, <1>2, <1>3

LEMMA SentFacts ==
    ASSUME PollInv, NEW c \in Bots
    PROVE  /\ First[c] \in Nat \ {0} /\ arrived[c] \in Nat
           /\ Sent(c) = First[c] .. First[c] + arrived[c] - 1
           /\ \A n \in Sent(c) : <<c, n>> \in Updates /\ n \in Nat
<1>1. First[c] \in Nat \ {0} /\ arrived[c] \in 0 .. MaxArrivals /\ MaxArrivals \in Nat
  BY UpdateFacts DEF PollInv
<1>2. \A n \in Sent(c) : n \in Nat /\ First[c] <= n /\ n <= First[c] + MaxArrivals - 1
  BY <1>1 DEF Sent
<1>. QED  BY <1>1, <1>2, UpdateFacts DEF Sent

\* An answer is a run of consecutive numbers, all sent and none dropped.
LEMMA AnswerIsARun ==
    ASSUME PollInv, NEW d \in Nat, NEW c \in Bots
    PROVE  /\ Answer(c, d) \in Seq(Updates)
           /\ FirstAfter(c, d) \in Nat /\ FirstAfter(c, d) > d
           /\ \A k \in DOMAIN Answer(c, d) :
                /\ Answer(c, d)[k] = <<c, FirstAfter(c, d) + k - 1>>
                /\ FirstAfter(c, d) + k - 1 \in Sent(c)
<1> DEFINE lo == FirstAfter(c, d)
           n  == First[c] + arrived[c] - lo
<1>1. /\ First[c] \in Nat \ {0} /\ arrived[c] \in Nat
      /\ Sent(c) = First[c] .. First[c] + arrived[c] - 1
      /\ \A x \in Sent(c) : <<c, x>> \in Updates /\ x \in Nat
  BY SentFacts
<1>2. lo \in Nat /\ lo > d /\ lo >= First[c]
  BY <1>1 DEF FirstAfter
<1> HIDE DEF lo
<1>3. n \in Int /\ \A k \in 1 .. n : lo + k - 1 \in Sent(c)
  <2>1. n \in Int
    BY <1>1, <1>2
  <2>2. ASSUME NEW k \in 1 .. n PROVE lo + k - 1 \in Sent(c)
    <3>1. k \in Int /\ 1 <= k /\ k <= n
      BY <2>1
    <3>2. \A f, r, x, y \in Int : f <= x /\ 1 <= y /\ y <= f + r - x => f <= x + y - 1 /\ x + y - 1 <= f + r - 1
      OBVIOUS
    <3>3. First[c] <= lo + k - 1 /\ lo + k - 1 <= First[c] + arrived[c] - 1
      <4>1. First[c] \in Int /\ arrived[c] \in Int /\ lo \in Int /\ k \in Int /\ First[c] <= lo
        BY <1>1, <1>2, <3>1
      <4>. QED  BY <3>1, <3>2, <4>1
    <3>. QED  BY <1>1, <1>2, <3>1, <3>3
  <2>. QED  BY <2>1, <2>2
<1>4. Answer(c, d) = [k \in 1 .. n |-> <<c, lo + k - 1>>]
  BY DEF Answer, lo
<1>5. \A k \in 1 .. n : <<c, lo + k - 1>> \in Updates
  BY <1>1, <1>3
<1> HIDE DEF n
<1>6. Answer(c, d) \in Seq(Updates)
  <2>1. CASE n \in Nat
    BY <1>4, <1>5, <2>1
  <2>2. CASE n \notin Nat
    <3>1. 1 .. n = {}
      BY <1>3, <2>2
    <3>2. 1 .. n = 1 .. 0 /\ 0 \in Nat
      BY <3>1
    <3>3. [k \in 1 .. 0 |-> <<c, lo + k - 1>>] \in Seq(Updates)
      OBVIOUS
    <3>. QED  BY <1>4, <3>2, <3>3
  <2>. QED  BY <2>1, <2>2
<1>7. \A k \in DOMAIN Answer(c, d) : Answer(c, d)[k] = <<c, lo + k - 1>> /\ lo + k - 1 \in Sent(c)
  BY <1>3, <1>4
<1>. QED  BY <1>2, <1>6, <1>7 DEF lo

LEMMA PollStart == PollInit => PollInv /\ LostInv
<1> SUFFICES ASSUME PollInit PROVE PollInv /\ LostInv
  OBVIOUS
<1>1. /\ bot \in Bots \union {Nothing} /\ arrived = [c \in Bots |-> 0] /\ forgotten = [c \in Bots |-> 0]
      /\ handled = [u \in Updates |-> 0] /\ last = 0 /\ batch = <<>>
      /\ boots = 0 /\ switches = 0
  BY DEF PollInit, Nothing
<1>2. \A c \in Bots : First[c] \in Nat \ {0} /\ MaxArrivals \in Nat
  BY UpdateFacts
<1>3. PollInv
  <2>1. arrived \in [Bots -> 0 .. MaxArrivals]
    BY <1>1, <1>2
  <2>2. batch \in Seq(Updates) /\ DOMAIN batch = {}
    BY <1>1
  <2>. QED  BY <1>1, <2>1, <2>2 DEF PollInv
<1>4. NothingLost
  <2>1. \A c \in Bots : \A n \in Sent(c) : FALSE
    BY <1>1, <1>2 DEF Sent
  <2>. QED  BY <1>1, <1>2, <2>1, UpdateFacts DEF NothingLost
<1>. QED  BY <1>3, <1>4 DEF LostInv

LEMMA ArriveKeeps ==
    ASSUME PollInv, LostInv, NEW c \in Bots, Arrive(c)
    PROVE  PollInv' /\ LostInv'
<1>1. /\ arrived[c] < MaxArrivals /\ arrived' = [arrived EXCEPT ![c] = @ + 1]
      /\ UNCHANGED <<bot, forgotten, handled, last, batch, boots, switches>>
  BY DEF Arrive
<1>2. arrived \in [Bots -> 0 .. MaxArrivals] /\ MaxArrivals \in Nat
  BY UpdateFacts DEF PollInv
<1>3. PollInv'
  <2>1. arrived' \in [Bots -> 0 .. MaxArrivals]
    BY <1>1, <1>2
  <2>. QED  BY <1>1, <2>1 DEF PollInv
<1>4. ASSUME NothingLost PROVE NothingLost'
  <2>1. \A x \in Bots : First[x] \in Nat \ {0} /\ arrived[x] \in Nat /\ arrived'[x] = IF x = c THEN arrived[x] + 1 ELSE arrived[x]
    BY <1>1, <1>2, UpdateFacts
  <2>2. \A x \in Bots : Sent(x)' = IF x = c THEN Sent(x) \union {First[x] + arrived[x]} ELSE Sent(x)
    <3> SUFFICES ASSUME NEW x \in Bots
                 PROVE  Sent(x)' = IF x = c THEN Sent(x) \union {First[x] + arrived[x]} ELSE Sent(x)
      OBVIOUS
    <3>1. \A f \in Nat, k \in Nat : f .. f + (k + 1) - 1 = (f .. f + k - 1) \union {f + k}
      OBVIOUS
    <3>2. CASE x = c
      BY <2>1, <3>1, <3>2 DEF Sent
    <3>3. CASE x # c
      BY <2>1, <3>3 DEF Sent
    <3>. QED  BY <3>2, <3>3
  <2>3. \A x \in Bots : ~Behind(x, First[x] + arrived[x])
    <3> SUFFICES ASSUME NEW x \in Bots PROVE ~Behind(x, First[x] + arrived[x])
      OBVIOUS
    <3>1. forgotten[x] \in Nat /\ last \in Nat
      BY DEF PollInv
    <3>2. ~(First[x] + arrived[x] <= forgotten[x])
      BY <2>1, <3>1, <1>4 DEF NothingLost
    <3>3. x = bot => ~(First[x] + arrived[x] <= last)
      BY <2>1, <3>1, <1>4, UpdateFacts DEF NothingLost, Nothing
    <3>4. x = bot /\ batch # <<>> => ~(First[x] + arrived[x] < batch[1][2])
      <4> SUFFICES ASSUME x = bot, batch # <<>> PROVE ~(First[x] + arrived[x] < batch[1][2])
        OBVIOUS
      <4>1. batch[1][2] \in Sent(x)
        BY <1>4 DEF NothingLost, PollInv
      <4>. QED  BY <2>1, <4>1 DEF Sent
    <3>. QED  BY <3>2, <3>3, <3>4 DEF Behind
  <2>4. \A x, n : Behind(x, n)' <=> Behind(x, n)
    BY <1>1 DEF Behind
  <2>5. \A x \in Bots : \A n \in Sent(x)' : Behind(x, n)' => handled'[<<x, n>>] > 0
    BY <1>1, <1>4, <2>2, <2>3, <2>4 DEF NothingLost
  <2>6. \A x \in Bots : /\ First[x] + arrived[x] <= First[x] + arrived'[x] /\ Sent(x) \subseteq Sent(x)'
                        /\ First[x] + arrived'[x] \in Nat /\ forgotten[x] \in Nat
    <3>1. \A x \in Bots : arrived'[x] \in Nat /\ arrived[x] <= arrived'[x]
      BY <2>1
    <3>2. \A x \in Bots : Sent(x) \subseteq Sent(x)'
      BY <2>2
    <3>. QED  BY <2>1, <3>1, <3>2 DEF PollInv
  <2>7. /\ bot # Nothing => last < First[bot] + arrived'[bot]
        /\ \A x \in Bots : forgotten[x] < First[x] + arrived'[x]
    BY <1>4, <2>1, <2>6 DEF NothingLost, PollInv
  <2>8. \A i \in DOMAIN batch : batch[i][2] \in Sent(bot)'
    <3> SUFFICES ASSUME NEW i \in DOMAIN batch PROVE batch[i][2] \in Sent(bot)'
      OBVIOUS
    <3>1. bot \in Bots
      BY <1>4 DEF NothingLost, PollInv
    <3>2. Sent(bot) \subseteq Sent(bot)'
      BY <1>1, <2>6, <3>1 DEF Sent
    <3>. QED  BY <1>4, <3>2 DEF NothingLost
  <2>. QED  BY <1>1, <1>4, <2>5, <2>7, <2>8 DEF NothingLost
<1>. QED  BY <1>1, <1>3, <1>4 DEF LostInv

LEMMA SaveTokenKeeps ==
    ASSUME PollInv, LostInv, NEW c \in Bots, SaveToken(c)
    PROVE  PollInv' /\ LostInv'
<1>1. /\ bot' = c /\ switches' \in Nat
      /\ UNCHANGED <<arrived, forgotten, handled, last, batch, boots>>
  BY DEF SaveToken, PollInv
<1>2. PollInv'
  BY <1>1 DEF PollInv
<1>3. ASSUME switches' = 0 PROVE NothingLost'
  <2>1. bot = Nothing /\ switches = 0
    BY <1>3 DEF SaveToken, PollInv
  <2>2. NothingLost /\ last = 0 /\ batch = <<>>
    BY <2>1 DEF LostInv, NothingLost
  <2>3. \A x \in Bots : First[x] \in Nat \ {0} /\ arrived[x] \in Nat /\ Sent(x)' = Sent(x)
    BY <1>1, SentFacts DEF Sent
  <2>4. \A x \in Bots : \A n \in Sent(x) : Behind(x, n)' => Behind(x, n)
    BY <1>1, <2>2, <2>3, SentFacts DEF Behind
  <2>5. last' < First[bot'] + arrived'[bot']
    BY <1>1, <2>2, <2>3
  <2>6. bot' # Nothing /\ DOMAIN batch' = {}
    BY <1>1, <2>2, UpdateFacts
  <2>. QED  BY <1>1, <2>2, <2>3, <2>4, <2>5, <2>6 DEF NothingLost
<1>. QED  BY <1>2, <1>3 DEF LostInv

LEMMA RestartKeeps ==
    ASSUME PollInv, LostInv, RestartBot
    PROVE  PollInv' /\ LostInv'
<1>1. /\ boots' = boots + 1 /\ last' = 0 /\ batch' = <<>>
      /\ UNCHANGED <<bot, arrived, forgotten, handled, switches>>
  BY DEF RestartBot, Nothing
<1>2. PollInv'
  <2>1. batch' \in Seq(Updates) /\ DOMAIN batch' = {} /\ {last', boots', switches'} \subseteq Nat
    BY <1>1 DEF PollInv
  <2>2. \A u \in Updates : handled'[u] <= boots' /\ handled'[u] <= boots' + 1
    BY <1>1 DEF PollInv
  <2>. QED  BY <1>1, <2>1, <2>2 DEF PollInv
<1>3. ASSUME NothingLost PROVE NothingLost'
  <2>1. \A x \in Bots : First[x] \in Nat \ {0} /\ arrived[x] \in Nat /\ Sent(x)' = Sent(x)
    BY <1>1, SentFacts DEF Sent
  <2>2. \A x \in Bots : \A n \in Sent(x) : Behind(x, n)' => Behind(x, n)
    BY <1>1, SentFacts, UpdateFacts DEF Behind
  <2>3. bot' # Nothing => last' < First[bot'] + arrived'[bot']
    BY <1>1, <2>1 DEF PollInv
  <2>4. DOMAIN batch' = {}
    BY <1>1
  <2>. QED  BY <1>1, <1>3, <2>1, <2>2, <2>3, <2>4 DEF NothingLost
<1>. QED  BY <1>1, <1>2, <1>3 DEF LostInv

LEMMA GetUpdatesKeeps ==
    ASSUME PollInv, LostInv, GetUpdates
    PROVE  PollInv' /\ LostInv'
<1> DEFINE dropped == Dropped
           lo == FirstAfter(bot, dropped)
<1>1. /\ bot \in Bots /\ batch = <<>>
      /\ First[bot] \in Nat \ {0} /\ arrived[bot] \in Nat /\ forgotten[bot] \in Nat /\ last \in Nat
      /\ Sent(bot) = First[bot] .. First[bot] + arrived[bot] - 1
      /\ \A n \in Sent(bot) : <<bot, n>> \in Updates /\ n \in Nat
  <2>1. bot \in Bots /\ batch = <<>>
    BY DEF GetUpdates, PollInv
  <2>. QED  BY <2>1, SentFacts DEF PollInv
<1>2. dropped = IF last = 0 \/ last < forgotten[bot] THEN forgotten[bot] ELSE last
  BY <1>1 DEF Dropped, Offset, Nothing
<1>3. dropped \in Nat /\ dropped >= last /\ dropped >= forgotten[bot] /\ dropped \in {last, forgotten[bot]}
  BY <1>1, <1>2
<1>4. /\ forgotten' = [forgotten EXCEPT ![bot] = dropped]
      /\ batch' = Answer(bot, dropped)
      /\ UNCHANGED <<bot, arrived, handled, last, boots, switches>>
  BY DEF GetUpdates
<1> HIDE DEF dropped
<1>5. /\ batch' \in Seq(Updates) /\ lo \in Nat /\ lo > dropped
      /\ \A k \in DOMAIN batch' : batch'[k] = <<bot, lo + k - 1>> /\ lo + k - 1 \in Sent(bot)
  BY <1>1, <1>3, <1>4, AnswerIsARun
<1>9. lo = IF First[bot] > dropped THEN First[bot] ELSE dropped + 1
  BY DEF FirstAfter
<1> HIDE DEF lo
<1>6. /\ \A i \in DOMAIN batch' : batch'[i] = <<batch'[1][1], batch'[1][2] + i - 1>>
      /\ batch' # <<>> => batch'[1] = <<bot, lo>>
      /\ \A i \in DOMAIN batch' : batch'[i][2] \in Sent(bot)
  <2>1. Len(batch') \in Nat /\ DOMAIN batch' = 1 .. Len(batch')
    BY <1>5
  <2>2. \A k \in DOMAIN batch' : 1 \in DOMAIN batch' /\ lo + 1 - 1 = lo
    BY <1>5, <2>1
  <2>3. batch' # <<>> => 1 \in DOMAIN batch'
    BY <1>5, <2>1
  <2>4. \A k \in DOMAIN batch' : batch'[1] = <<bot, lo>>
    BY <1>5, <2>2
  <2>. QED  BY <1>5, <2>3, <2>4
<1>7. PollInv'
  <2>1. forgotten' \in [Bots -> Nat]
    BY <1>1, <1>3, <1>4 DEF PollInv
  <2>2. batch' # <<>> => batch'[1][2] > last'
    BY <1>1, <1>3, <1>4, <1>5, <1>6
  <2>. QED  BY <1>4, <1>5, <1>6, <2>1, <2>2 DEF PollInv
<1>8. ASSUME NothingLost PROVE NothingLost'
  <2>1. \A x \in Bots : First[x] \in Nat \ {0} /\ arrived[x] \in Nat /\ Sent(x)' = Sent(x)
    BY <1>4, SentFacts DEF Sent
  <2>2. \A x \in Bots : forgotten'[x] = IF x = bot THEN dropped ELSE forgotten[x]
    BY <1>4 DEF PollInv
  <2>3. last < First[bot] + arrived[bot] /\ forgotten[bot] < First[bot] + arrived[bot]
    BY <1>1, <1>8, UpdateFacts DEF NothingLost, Nothing
  <2>4. \A x \in Bots : forgotten'[x] < First[x] + arrived'[x]
    BY <1>3, <1>4, <1>8, <2>2, <2>3 DEF NothingLost
  <2>5. ASSUME NEW x \in Bots, NEW n \in Sent(x), Behind(x, n)' PROVE Behind(x, n)
    <3>1. CASE x # bot
      BY <1>4, <2>2, <2>5, <3>1 DEF Behind
    <3>2. CASE x = bot
      <4>1. n \in Nat /\ First[bot] <= n
        BY <1>1, <3>2
      <4>2. n <= dropped \/ n <= last \/ n < lo
        BY <1>4, <1>6, <2>2, <2>5, <3>2 DEF Behind
      <4>3. n <= dropped \/ n <= last
        BY <1>1, <1>3, <1>9, <4>1, <4>2
      <4>4. n <= last \/ n <= forgotten[bot]
        BY <1>3, <4>3
      <4>. QED  BY <3>2, <4>4 DEF Behind
    <3>. QED  BY <3>1, <3>2
  <2>6. \A i \in DOMAIN batch' : batch'[i][2] \in Sent(bot)'
    BY <1>1, <1>4, <1>6 DEF Sent
  <2>7. bot' # Nothing /\ (batch' # <<>> => batch'[1][1] = bot')
    BY <1>1, <1>4, <1>6, UpdateFacts
  <2>8. \A x \in Bots : \A n \in Sent(x)' : Behind(x, n)' => handled'[<<x, n>>] > 0
    BY <1>4, <1>8, <2>1, <2>5 DEF NothingLost
  <2>. QED  BY <1>4, <2>3, <2>4, <2>6, <2>7, <2>8 DEF NothingLost
<1>. QED  BY <1>4, <1>7, <1>8 DEF LostInv

LEMMA HandleKeeps ==
    ASSUME PollInv, LostInv, NEW raises \in BOOLEAN, HandleUpdate(raises)
    PROVE  PollInv' /\ LostInv'
<1> DEFINE u == batch[1]
<1>1. /\ batch # <<>> /\ last' = u[2] /\ batch' = Tail(batch)
      /\ handled' = [handled EXCEPT ![u] = Capped(@ + 1, boots + 2)]
      /\ UNCHANGED <<bot, arrived, forgotten, boots, switches>>
  BY DEF HandleUpdate, Numbered
<1>2. /\ Len(batch) \in Nat \ {0} /\ DOMAIN batch = 1 .. Len(batch) /\ u \in Updates
      /\ u[1] \in Bots /\ u[2] \in Nat \ {0} /\ u = <<u[1], u[2]>> /\ u[2] > last
      /\ boots \in Nat /\ handled[u] \in Nat /\ handled[u] <= boots
      /\ \A i \in DOMAIN batch : batch[i] = <<u[1], u[2] + i - 1>>
  <2>1. Len(batch) \in Nat \ {0} /\ DOMAIN batch = 1 .. Len(batch) /\ u \in Updates
    BY <1>1 DEF PollInv
  <2>2. u[2] > last
    BY <1>1 DEF PollInv
  <2>. QED  BY <2>1, <2>2, UpdateFacts DEF PollInv
<1>3. \A x \in Updates : handled'[x] = IF x = u THEN handled[u] + 1 ELSE handled[x]
  <2>1. Capped(handled[u] + 1, boots + 2) = handled[u] + 1
    BY <1>2 DEF Capped
  <2> HIDE DEF u
  <2>. QED  BY <1>1, <1>2, <2>1 DEF PollInv
<1>4. /\ Len(batch') = Len(batch) - 1 /\ DOMAIN batch' = 1 .. Len(batch) - 1 /\ batch' \in Seq(Updates)
      /\ \A i \in DOMAIN batch' : batch'[i] = batch[i + 1] /\ i + 1 \in DOMAIN batch
  <2>1. batch \in Seq(Updates) /\ batch # <<>>
    BY <1>1 DEF PollInv
  <2> HIDE DEF u
  <2>2. /\ Tail(batch) \in Seq(Updates) /\ Len(Tail(batch)) = Len(batch) - 1
        /\ \A i \in 1 .. Len(Tail(batch)) : Tail(batch)[i] = batch[i + 1]
    BY <2>1, HeadTailProperties
  <2>3. DOMAIN Tail(batch) = 1 .. Len(batch) - 1
    BY <2>2
  <2>. QED  BY <1>1, <1>2, <2>2, <2>3
<1>5. \A i \in DOMAIN batch' : batch'[i] = <<u[1], u[2] + 1 + i - 1>>
  <2>1. \A i \in DOMAIN batch' : batch[i + 1] = <<u[1], u[2] + (i + 1) - 1>> /\ i \in Nat
    BY <1>2, <1>4
  <2>2. \A i \in DOMAIN batch' : u[2] + (i + 1) - 1 = u[2] + 1 + i - 1
    BY <1>2, <2>1
  <2>. QED  BY <1>4, <2>1, <2>2
<1>6. batch' # <<>> => batch'[1] = <<u[1], u[2] + 1>>
  <2>1. batch' # <<>> => 1 \in DOMAIN batch'
    BY <1>4
  <2>2. u[2] + 1 + 1 - 1 = u[2] + 1
    BY <1>2
  <2>. QED  BY <1>5, <2>1, <2>2
<1> HIDE DEF u
<1>7. PollInv'
  <2>1. handled' \in [Updates -> Nat]
    <3>1. Capped(handled[u] + 1, boots + 2) \in Nat
      BY <1>2 DEF Capped
    <3>. QED  BY <1>1, <1>2, <3>1 DEF PollInv
  <2>2. \A x \in Updates : /\ handled'[x] <= boots' + 1
                           /\ x[2] > last' => handled'[x] <= boots'
    <3> SUFFICES ASSUME NEW x \in Updates
                 PROVE  handled'[x] <= boots + 1 /\ (x[2] > u[2] => handled'[x] <= boots)
      BY <1>1
    <3>1. CASE x = u
      BY <1>2, <1>3, <3>1
    <3>2. CASE x # u
      <4>1. /\ handled'[x] = handled[x] /\ handled[x] <= boots + 1 /\ x[2] \in Nat
            /\ last \in Nat /\ (x[2] > last => handled[x] <= boots)
        BY <1>3, <3>2, UpdateFacts DEF PollInv
      <4>. QED  BY <1>2, <4>1
    <3>. QED  BY <3>1, <3>2
  <2>3. batch' # <<>> => batch'[1][2] > last'
    BY <1>1, <1>2, <1>6
  <2>4. \A i \in DOMAIN batch' : batch'[i] = <<batch'[1][1], batch'[1][2] + i - 1>>
    <3>1. \A i \in DOMAIN batch' : batch' # <<>>
      BY <1>4
    <3>. QED  BY <1>5, <1>6, <3>1
  <2>5. {last', boots', switches'} \subseteq Nat
    BY <1>1, <1>2 DEF PollInv
  <2>. QED  BY <1>1, <1>4, <2>1, <2>2, <2>3, <2>4, <2>5 DEF PollInv
<1>8. ASSUME NothingLost PROVE NothingLost'
  <2>1. \A x \in Bots : /\ First[x] \in Nat \ {0} /\ arrived[x] \in Nat /\ Sent(x)' = Sent(x)
                        /\ \A n \in Sent(x) : <<x, n>> \in Updates /\ n \in Nat
    BY <1>1, SentFacts DEF Sent
  <2>2. u[1] = bot /\ bot \in Bots /\ u[2] \in Sent(bot)
    BY <1>1, <1>2, <1>8 DEF NothingLost, u
  <2>3. last' < First[bot'] + arrived'[bot']
    BY <1>1, <2>1, <2>2 DEF Sent
  <2>4. \A i \in DOMAIN batch' : batch'[i][2] \in Sent(bot)'
    <3>1. Sent(bot)' = Sent(bot)
      BY <1>1 DEF Sent
    <3>. QED  BY <1>4, <1>8, <3>1 DEF NothingLost
  <2>5. ASSUME NEW x \in Bots, NEW n \in Sent(x), Behind(x, n)' PROVE handled'[<<x, n>>] > 0
    <3>1. <<x, n>> \in Updates /\ n \in Nat /\ handled[<<x, n>>] \in Nat
      BY <2>1 DEF PollInv
    <3>2. CASE <<x, n>> = u
      BY <1>2, <1>3, <3>2
    <3>3. CASE <<x, n>> # u
      <4>1. n <= forgotten[x] \/ (x = bot /\ (n <= u[2] \/ n < u[2] + 1))
        BY <1>1, <1>6, <2>5 DEF Behind
      <4>2. n <= forgotten[x] \/ (x = bot /\ n <= u[2])
        BY <1>2, <3>1, <4>1
      <4>3. x = bot => n # u[2]
        BY <1>2, <2>2, <3>3
      <4>4. n <= forgotten[x] \/ (x = bot /\ n < u[2])
        BY <1>2, <3>1, <4>2, <4>3
      <4>5. Behind(x, n)
        BY <1>1, <4>4 DEF Behind, u
      <4>. QED  BY <1>3, <1>8, <3>1, <3>3, <4>5 DEF NothingLost
    <3>. QED  BY <3>2, <3>3
  <2>6. bot' # Nothing /\ (batch' # <<>> => batch'[1][1] = bot')
    BY <1>1, <1>6, <2>2, UpdateFacts
  <2>. QED  BY <1>1, <1>8, <2>1, <2>3, <2>4, <2>5, <2>6 DEF NothingLost
<1>. QED  BY <1>1, <1>7, <1>8 DEF LostInv

LEMMA PollStep == PollInv /\ LostInv /\ [PollNext]_pollVars => PollInv' /\ LostInv'
<1> SUFFICES ASSUME PollInv, LostInv, [PollNext]_pollVars PROVE PollInv' /\ LostInv'
  OBVIOUS
<1>1. CASE PollFails \/ UNCHANGED pollVars
  <2>1. UNCHANGED <<bot, arrived, forgotten, handled, last, batch, boots, switches>>
    BY <1>1 DEF PollFails, pollVars
  <2>. QED  BY <2>1 DEF PollInv, LostInv, NothingLost, Behind, Sent
<1>. QED
  BY <1>1, ArriveKeeps, SaveTokenKeeps, RestartKeeps, GetUpdatesKeeps, HandleKeeps DEF PollNext

LEMMA PollSound == PollInv /\ LostInv => HandledOnce
<1> SUFFICES ASSUME PollInv, LostInv PROVE HandledOnce
  OBVIOUS
<1>1. \A u \in Updates : handled[u] <= 1 + boots
  BY DEF PollInv
<1>2. ASSUME switches = 0, NEW c \in Bots, NEW n \in Lost(c)
      PROVE  handled[<<c, n>>] > 0
  <2>1. n \in Sent(c) /\ Behind(c, n)
    BY DEF Lost, Behind
  <2>. QED  BY <1>2, <2>1 DEF LostInv, NothingLost
<1>. QED  BY <1>1, <1>2 DEF HandledOnce

(***************************************************************************)
(* An update is handled once for each time the program was started at      *)
(* most, and one that Telegram no longer offers was handled, unless the    *)
(* token of another bot was saved.                                         *)
(***************************************************************************)
THEOREM HandledOnceCorrect == PollSpec => []HandledOnce
<1>. QED  BY PollStart, PollStep, PollSound, PTL DEF PollSpec

-----------------------------------------------------------------------------
(* Quality gates.  What a request has yet to set and to drop is exactly    *)
(* what its gate still differs by, as long as nobody else touched it.      *)

Plain  == [at : {"look", "read", "assign", "row", "done"}, op : {"connect", "branch", "switch"},
           key : SonarKeys \union SonarBranches, preset : Presets]
Fixing == [at : {"fix", "assign", "row", "done"}, op : {"connect", "branch", "switch"},
           key : SonarKeys \union SonarBranches, preset : Presets,
           had : SUBSET Metrics, sets : SUBSET Metrics, drops : SUBSET Metrics]
Asks   == {[at |-> "idle"]} \union Plain \union Fixing

Conditions(c) == c = [m \in DOMAIN c |-> c[m]] /\ DOMAIN c \subseteq Metrics

GatesShape ==
    /\ ask \in [Changes -> Asks] /\ touched \subseteq Changes
    /\ DOMAIN gate \subseteq Presets /\ \A p \in DOMAIN gate : Conditions(gate[p])
    /\ \A r \in Changes : ask[r].at \in {"read", "fix"} => ask[r].preset \in DOMAIN gate

\* What is left to do of a preset whose gate has these conditions.
LeftOf(r, p, has) == ask[r].sets = Needs(p, has) /\ ask[r].drops = Surplus(p, has)

GatesInv ==
    /\ GatesShape
    /\ \A r \in Changes \ touched : ask[r].at = "fix" => LeftOf(r, ask[r].preset, gate[ask[r].preset])

LEMMA NothingLeft ==
    ASSUME NEW p \in Presets, NEW has, Conditions(has), Needs(p, has) = {}, Surplus(p, has) = {}
    PROVE  has = Intended[p]
<1>1. DOMAIN has = DOMAIN Intended[p]
  BY DEF Needs, Surplus
<1>2. \A m \in DOMAIN has : has[m] = Intended[p][m]
  BY <1>1 DEF Needs
<1>3. Intended[p] = [m \in DOMAIN Intended[p] |-> Intended[p][m]] /\ has = [m \in DOMAIN has |-> has[m]]
  BY PresetsAssumption DEF Conditions
<1>. QED  BY <1>1, <1>2, <1>3

\* A request of which only the place it has come to changes.
LEMMA AskMoves ==
    ASSUME ask \in [Changes -> Asks], NEW r \in Changes, NEW at, GoesTo(r, at),
           ask[r].at # "idle", at \in {"assign", "row", "done"} \/ (at = "read" /\ ask[r].at = "look")
    PROVE  /\ ask' \in [Changes -> Asks] /\ ask'[r].at = at /\ ask'[r].preset = ask[r].preset
           /\ \A x \in Changes \ {r} : ask'[x] = ask[x]
<1>1. ask' = [ask EXCEPT ![r] = [ask[r] EXCEPT !.at = at]]
  BY DEF GoesTo
<1>2. CASE ask[r] \in Fixing
  <2>1. [ask[r] EXCEPT !.at = at] \in Fixing /\ [ask[r] EXCEPT !.at = at].at = at
        /\ [ask[r] EXCEPT !.at = at].preset = ask[r].preset
    BY <1>2 DEF Fixing
  <2>. QED  BY <1>1, <2>1 DEF Asks
<1>3. CASE ask[r] \in Plain
  <2>1. [ask[r] EXCEPT !.at = at] \in Plain /\ [ask[r] EXCEPT !.at = at].at = at
        /\ [ask[r] EXCEPT !.at = at].preset = ask[r].preset
    BY <1>3 DEF Plain
  <2>. QED  BY <1>1, <2>1 DEF Asks
<1>. QED  BY <1>2, <1>3 DEF Asks

\* Such a step leaves every gate as it is.
LEMMA MoveKeeps ==
    ASSUME GatesInv, NEW r \in Changes, NEW at, GoesTo(r, at), UNCHANGED <<gate, touched>>,
           ask[r].at # "idle", at \in {"assign", "row", "done"}
    PROVE  GatesInv'
<1>1. ask \in [Changes -> Asks]
  BY DEF GatesInv, GatesShape
<1>2. /\ ask' \in [Changes -> Asks] /\ ask'[r].at = at
      /\ \A x \in Changes \ {r} : ask'[x] = ask[x]
  BY <1>1, AskMoves
<1>3. GatesShape'
  BY <1>2 DEF GatesInv, GatesShape, Conditions
<1>4. ASSUME NEW x \in Changes \ touched', ask'[x].at = "fix"
      PROVE  LeftOf(x, ask[x].preset, gate[ask[x].preset])'
  BY <1>2, <1>4 DEF GatesInv, LeftOf, Needs, Surplus
<1>. QED  BY <1>3, <1>4 DEF GatesInv

\* A change of a gate touches whoever else reconciles it.
LEMMA ChangeKeeps ==
    ASSUME GatesInv, NEW r \in Changes, NEW p \in Presets, NEW conditions, Change(r, p, conditions),
           Conditions(conditions), ask' \in [Changes -> Asks], \A x \in Changes \ {r} : ask'[x] = ask[x],
           ask'[r].at \in {"read", "fix"} => ask'[r].preset = p,
           ask'[r].at = "fix" => r \in touched \/ LeftOf(r, p, conditions)'
    PROVE  GatesInv'
<1>1. /\ DOMAIN gate' = DOMAIN gate \union {p} /\ gate'[p] = conditions
      /\ \A g \in DOMAIN gate \ {p} : gate'[g] = gate[g]
      /\ touched' = touched \union Others(r, p)
  BY DEF Change
<1>2. GatesShape'
  <2>1. touched' \subseteq Changes /\ DOMAIN gate' \subseteq Presets
    BY <1>1 DEF Others, GatesInv, GatesShape
  <2>2. \A g \in DOMAIN gate' : Conditions(gate'[g])
    BY <1>1 DEF GatesInv, GatesShape
  <2>3. ASSUME NEW x \in Changes, ask'[x].at \in {"read", "fix"} PROVE ask'[x].preset \in DOMAIN gate'
    BY <1>1, <2>3 DEF GatesInv, GatesShape
  <2>. QED  BY <2>1, <2>2, <2>3 DEF GatesShape, Conditions
<1>3. ASSUME NEW x \in Changes \ touched', ask'[x].at = "fix"
      PROVE  LeftOf(x, ask[x].preset, gate[ask[x].preset])'
  <2>1. CASE x = r
    <3>1. LeftOf(r, p, conditions)' /\ ask'[r].preset = p
      BY <1>1, <1>3, <2>1
    <3>. QED  BY <1>1, <2>1, <3>1 DEF LeftOf, Needs, Surplus
  <2>2. CASE x # r
    <3>1. ask'[x] = ask[x] /\ x \notin touched /\ ask[x].preset # p
      BY <1>1, <1>3, <2>2 DEF Others
    <3>2. LeftOf(x, ask[x].preset, gate[ask[x].preset]) /\ ask[x].preset \in DOMAIN gate
      BY <1>3, <3>1 DEF GatesInv, GatesShape
    <3>3. gate'[ask[x].preset] = gate[ask[x].preset]
      BY <1>1, <3>1, <3>2
    <3>. QED  BY <3>1, <3>2, <3>3 DEF LeftOf, Needs, Surplus
  <2>. QED  BY <2>1, <2>2
<1>. QED  BY <1>2, <1>3 DEF GatesInv

LEMMA SetAndDropKeep ==
    ASSUME GatesInv, NEW r \in Changes, NEW m, SetCondition(r, m) \/ DropCondition(r, m)
    PROVE  GatesInv'
<1>0. PICK p : p = ask[r].preset
  OBVIOUS
<1>1. ask \in [Changes -> Asks] /\ ask[r].at = "fix" /\ ask[r] \in Fixing
  BY DEF GatesInv, GatesShape, Asks, Plain, SetCondition, DropCondition
<1>2. p \in Presets /\ p \in DOMAIN gate /\ Conditions(gate[p])
  BY <1>0, <1>1 DEF GatesInv, GatesShape, Fixing
<1>3. DOMAIN Intended[p] \subseteq Metrics
  BY <1>2, PresetsAssumption
<1>4. r \notin touched => LeftOf(r, p, gate[p])
  BY <1>0, <1>1 DEF GatesInv
<1>5. CASE SetCondition(r, m)
  <2>0. PICK has : has = [n \in DOMAIN gate[p] \union {m} |-> IF n = m THEN Intended[p][m] ELSE gate[p][n]]
    OBVIOUS
  <2> DEFINE mine == [ask[r] EXCEPT !.sets = ask[r].sets \ {m}]
  <2>1. m \in ask[r].sets /\ Change(r, p, has)
    BY <1>0, <2>0, <1>5 DEF SetCondition
  <2>2. mine \in Fixing /\ mine.at = "fix" /\ mine.preset = p
        /\ mine.sets = ask[r].sets \ {m} /\ mine.drops = ask[r].drops
    BY <1>0, <1>1 DEF Fixing
  <2>3. ask' = [ask EXCEPT ![r] = mine]
    BY <1>5 DEF SetCondition
  <2>4. ask' \in [Changes -> Asks] /\ ask'[r] = mine /\ \A x \in Changes \ {r} : ask'[x] = ask[x]
    BY <1>1, <2>2, <2>3 DEF Asks
  <2>5. Conditions(has)
    <3>1. m \in Metrics
      BY <1>1, <2>1 DEF Fixing
    <3>. QED  BY <1>2, <2>0, <3>1 DEF Conditions
  <2>6. r \notin touched => LeftOf(r, p, has)'
    <3> SUFFICES ASSUME r \notin touched PROVE LeftOf(r, p, has)'
      OBVIOUS
    <3>1. ask[r].sets = Needs(p, gate[p]) /\ ask[r].drops = Surplus(p, gate[p])
      BY <1>4 DEF LeftOf
    <3>2. m \in DOMAIN Intended[p]
      BY <2>1, <3>1 DEF Needs
    <3>3. Needs(p, has) = Needs(p, gate[p]) \ {m}
      BY <2>0, <3>2 DEF Needs
    <3>4. Surplus(p, has) = Surplus(p, gate[p])
      BY <2>0, <3>2 DEF Surplus
    <3> HIDE DEF mine
    <3>5. ask'[r].sets = Needs(p, has) /\ ask'[r].drops = Surplus(p, has)
      BY <2>2, <2>4, <3>1, <3>3, <3>4
    <3>. QED  BY <3>5 DEF LeftOf, Needs, Surplus
  <2> HIDE DEF mine
  <2>. QED  BY <1>2, <2>1, <2>2, <2>4, <2>5, <2>6, ChangeKeeps
<1>6. CASE DropCondition(r, m)
  <2>0. PICK has : has = [n \in DOMAIN gate[p] \ {m} |-> gate[p][n]]
    OBVIOUS
  <2> DEFINE mine == [ask[r] EXCEPT !.drops = ask[r].drops \ {m}]
  <2>1. ask[r].sets = {} /\ m \in ask[r].drops /\ Change(r, p, has)
    BY <1>0, <2>0, <1>6 DEF DropCondition
  <2>2. mine \in Fixing /\ mine.at = "fix" /\ mine.preset = p
        /\ mine.sets = ask[r].sets /\ mine.drops = ask[r].drops \ {m}
    BY <1>0, <1>1 DEF Fixing
  <2>3. ask' = [ask EXCEPT ![r] = mine]
    BY <1>6 DEF DropCondition
  <2>4. ask' \in [Changes -> Asks] /\ ask'[r] = mine /\ \A x \in Changes \ {r} : ask'[x] = ask[x]
    BY <1>1, <2>2, <2>3 DEF Asks
  <2>5. Conditions(has)
    BY <1>2, <2>0 DEF Conditions
  <2>6. r \notin touched => LeftOf(r, p, has)'
    <3> SUFFICES ASSUME r \notin touched PROVE LeftOf(r, p, has)'
      OBVIOUS
    <3>1. ask[r].sets = Needs(p, gate[p]) /\ ask[r].drops = Surplus(p, gate[p])
      BY <1>4 DEF LeftOf
    <3>2. m \notin DOMAIN Intended[p]
      BY <2>1, <3>1 DEF Surplus
    <3>3. Needs(p, has) = Needs(p, gate[p])
      BY <2>0, <3>2 DEF Needs
    <3>4. Surplus(p, has) = Surplus(p, gate[p]) \ {m}
      BY <2>0 DEF Surplus
    <3> HIDE DEF mine
    <3>5. ask'[r].sets = Needs(p, has) /\ ask'[r].drops = Surplus(p, has)
      BY <2>2, <2>4, <3>1, <3>3, <3>4
    <3>. QED  BY <3>5 DEF LeftOf, Needs, Surplus
  <2> HIDE DEF mine
  <2>. QED  BY <1>2, <2>1, <2>2, <2>4, <2>5, <2>6, ChangeKeeps
<1>. QED  BY <1>5, <1>6

LEMMA CreateKeeps == ASSUME GatesInv, NEW r \in Changes, CreateGate(r) PROVE GatesInv'
<1>0. PICK p : p = ask[r].preset
  OBVIOUS
<1>1. /\ ask[r].at = "look" /\ GoesTo(r, "read") /\ ask \in [Changes -> Asks]
      /\ IF Exists(p) THEN UNCHANGED <<gate, touched>> ELSE Change(r, p, SonarWay)
  BY <1>0 DEF CreateGate, GatesInv, GatesShape
<1>2. /\ ask' \in [Changes -> Asks] /\ ask'[r].at = "read" /\ ask'[r].preset = p
      /\ \A x \in Changes \ {r} : ask'[x] = ask[x]
  BY <1>0, <1>1, AskMoves
<1>3. p \in Presets
  BY <1>0, <1>1 DEF Asks, Plain, Fixing
<1>4. CASE Exists(p)
  <2>1. UNCHANGED <<gate, touched>>
    BY <1>1, <1>4
  <2>2. GatesShape'
    BY <1>2, <1>4, <2>1 DEF GatesInv, GatesShape, Conditions, Exists
  <2>3. ASSUME NEW x \in Changes \ touched', ask'[x].at = "fix"
        PROVE  LeftOf(x, ask[x].preset, gate[ask[x].preset])'
    BY <1>2, <2>1, <2>3 DEF GatesInv, LeftOf, Needs, Surplus
  <2>. QED  BY <2>2, <2>3 DEF GatesInv
<1>5. CASE ~Exists(p)
  <2>1. Conditions(SonarWay)
    BY SonarWayAssumption DEF Conditions
  <2>2. Change(r, p, SonarWay)
    BY <1>1, <1>5
  <2>. QED  BY <1>2, <1>3, <2>1, <2>2, ChangeKeeps
<1>. QED  BY <1>4, <1>5

LEMMA ReadKeeps == ASSUME GatesInv, NEW r \in Changes, ReadConditions(r) PROVE GatesInv'
<1> DEFINE p == ask[r].preset
           mine == [at |-> "fix", op |-> ask[r].op, key |-> ask[r].key, preset |-> p, had |-> DOMAIN gate[p],
                    sets |-> Needs(p, gate[p]), drops |-> Surplus(p, gate[p])]
<1>1. /\ ask[r].at = "read" /\ ask' = [ask EXCEPT ![r] = mine] /\ touched' = touched \ {r}
      /\ ask \in [Changes -> Asks] /\ UNCHANGED gate
  BY DEF ReadConditions, GatesInv, GatesShape
<1>2. ask[r] \in Plain /\ p \in DOMAIN gate /\ p \in Presets /\ Conditions(gate[p])
  BY <1>1 DEF GatesInv, GatesShape, Asks, Fixing, Plain
<1>3. Needs(p, gate[p]) \subseteq Metrics /\ Surplus(p, gate[p]) \subseteq Metrics
  BY <1>2, PresetsAssumption DEF Needs, Surplus, Conditions
<1>4. mine \in Fixing
  BY <1>2, <1>3 DEF Fixing, Plain, Conditions
<1>5. ask' \in [Changes -> Asks] /\ ask'[r] = mine /\ \A x \in Changes \ {r} : ask'[x] = ask[x]
  BY <1>1, <1>4 DEF Asks
<1>6. GatesShape'
  <2>1. ask'[r].preset \in DOMAIN gate
    BY <1>2, <1>5
  <2>2. touched' \subseteq Changes
    BY <1>1 DEF GatesInv, GatesShape
  <2>. QED  BY <1>1, <1>5, <2>1, <2>2 DEF GatesInv, GatesShape, Conditions
<1>7. ASSUME NEW x \in Changes \ touched', ask'[x].at = "fix"
      PROVE  LeftOf(x, ask[x].preset, gate[ask[x].preset])'
  <2>1. CASE x = r
    <3>1. ask'[r].preset = p /\ ask'[r].sets = Needs(p, gate[p]) /\ ask'[r].drops = Surplus(p, gate[p])
      BY <1>5
    <3>. QED  BY <1>1, <2>1, <3>1 DEF LeftOf, Needs, Surplus
  <2>2. CASE x # r
    BY <1>1, <1>5, <1>7, <2>2 DEF GatesInv, LeftOf, Needs, Surplus
  <2>. QED  BY <2>1, <2>2
<1>. QED  BY <1>6, <1>7 DEF GatesInv

LEMMA EditKeeps == ASSUME GatesInv, NEW p \in Presets, NEW m \in Metrics, EditGate(p, m) PROVE GatesInv'
<1>1. PICK has : Conditions(has) /\ gate' = [gate EXCEPT ![p] = has]
  <2>1. p \in DOMAIN gate /\ Conditions(gate[p])
    BY DEF EditGate, Exists, GatesInv, GatesShape
  <2>2. CASE \E t \in Thresholds : gate' = [gate EXCEPT ![p] = [n \in DOMAIN @ \union {m} |-> IF n = m THEN t ELSE @[n]]]
    <3>1. PICK t \in Thresholds : gate' = [gate EXCEPT ![p] = [n \in DOMAIN @ \union {m} |-> IF n = m THEN t ELSE @[n]]]
      BY <2>2
    <3> DEFINE has == [n \in DOMAIN gate[p] \union {m} |-> IF n = m THEN t ELSE gate[p][n]]
    <3>2. Conditions(has)
      BY <2>1 DEF Conditions
    <3>3. gate' = [gate EXCEPT ![p] = has]
      BY <2>1, <3>1
    <3>. QED  BY <3>2, <3>3
  <2>3. CASE gate' = [gate EXCEPT ![p] = [n \in DOMAIN @ \ {m} |-> @[n]]]
    <3> DEFINE has == [n \in DOMAIN gate[p] \ {m} |-> gate[p][n]]
    <3>1. Conditions(has)
      BY <2>1 DEF Conditions
    <3>2. gate' = [gate EXCEPT ![p] = has]
      BY <2>1, <2>3
    <3>. QED  BY <3>1, <3>2
  <2>. QED  BY <2>2, <2>3 DEF EditGate
<1>2. /\ UNCHANGED ask /\ touched' = touched \union {x \in Changes : ask[x].at = "fix" /\ ask[x].preset = p}
  BY DEF EditGate
<1>3. DOMAIN gate' = DOMAIN gate /\ \A g \in DOMAIN gate : gate'[g] = IF g = p THEN has ELSE gate[g]
  BY <1>1
<1>4. GatesShape'
  BY <1>1, <1>2, <1>3 DEF GatesInv, GatesShape, Conditions
<1>5. ASSUME NEW x \in Changes \ touched', ask'[x].at = "fix"
      PROVE  LeftOf(x, ask[x].preset, gate[ask[x].preset])'
  <2>1. x \notin touched /\ ask[x].preset # p /\ ask[x].preset \in DOMAIN gate
    BY <1>2, <1>5 DEF GatesInv, GatesShape
  <2>2. gate'[ask[x].preset] = gate[ask[x].preset]
    BY <1>3, <2>1
  <2>. QED  BY <1>2, <1>5, <2>1, <2>2 DEF GatesInv, LeftOf, Needs, Surplus
<1>. QED  BY <1>4, <1>5 DEF GatesInv

LEMMA BeginKeeps ==
    ASSUME GatesInv, NEW r \in Changes, NEW k \in SonarKeys \union SonarBranches,
           NEW op \in {"connect", "branch", "switch"}, NEW p \in Presets, BeginAsk(r, k, op, p)
    PROVE  GatesInv'
<1> DEFINE mine == [at |-> "look", op |-> op, key |-> k, preset |-> p]
<1>1. ask' = [ask EXCEPT ![r] = mine] /\ UNCHANGED <<gate, touched>> /\ mine \in Plain
  BY DEF BeginAsk, Plain
<1>2. ask' \in [Changes -> Asks] /\ ask'[r].at = "look" /\ \A x \in Changes \ {r} : ask'[x] = ask[x]
  BY <1>1 DEF GatesInv, GatesShape, Asks
<1>3. GatesShape'
  BY <1>1, <1>2 DEF GatesInv, GatesShape, Conditions
<1>4. ASSUME NEW x \in Changes \ touched', ask'[x].at = "fix"
      PROVE  LeftOf(x, ask[x].preset, gate[ask[x].preset])'
  BY <1>1, <1>2, <1>4 DEF GatesInv, LeftOf, Needs, Surplus
<1>. QED  BY <1>3, <1>4 DEF GatesInv

LEMMA GatesStep == GatesInv /\ [GatesNext]_gateVars => GatesInv'
<1> SUFFICES ASSUME GatesInv, [GatesNext]_gateVars PROVE GatesInv'
  OBVIOUS
<1>1. CASE \/ UNCHANGED gateVars
           \/ \E k \in SonarKeys : ConnectToNamed(k) \/ ChooseGate(k)
  <2>1. UNCHANGED <<gate, ask, touched>>
    BY <1>1 DEF gateVars, ConnectToNamed, ChooseGate
  <2>. QED  BY <2>1 DEF GatesInv, GatesShape, Conditions, LeftOf, Needs, Surplus
<1>2. ASSUME NEW r \in Changes, NEW k \in SonarKeys, ConnectProject(r, k) PROVE GatesInv'
  BY <1>2, BeginKeeps, DefaultAssumption DEF ConnectProject
<1>3. ASSUME NEW r \in Changes, NEW k \in SonarKeys, NEW p \in Presets, Switch(r, k, p) PROVE GatesInv'
  BY <1>3, BeginKeeps DEF Switch
<1>4. ASSUME NEW r \in Changes, NEW k \in SonarBranches, BeforeBranch(r, k) PROVE GatesInv'
  BY <1>4, BeginKeeps, DefaultAssumption DEF BeforeBranch
<1>5. ASSUME NEW r \in Changes, Reconciled(r) \/ AssignGate(r) \/ CommitRow(r) \/ CallFails(r) \/ Drop(r)
      PROVE  GatesInv'
  <2>1. PICK at \in {"assign", "row", "done"} : GoesTo(r, at)
    <3>1. Reconciled(r) \/ CommitRow(r) \/ Drop(r) => GoesTo(r, "assign") \/ GoesTo(r, "done")
      BY DEF Reconciled, CommitRow, Drop
    <3>2. AssignGate(r) \/ CallFails(r) => GoesTo(r, "row") \/ GoesTo(r, "done")
      BY DEF AssignGate, CallFails
    <3>. QED  BY <1>5, <3>1, <3>2
  <2>2. ask[r].at # "idle" /\ UNCHANGED <<gate, touched>>
    BY <1>5 DEF Reconciled, AssignGate, CommitRow, CallFails, Drop
  <2>. QED  BY <2>1, <2>2, MoveKeeps
<1>. QED
  BY <1>1, <1>2, <1>3, <1>4, <1>5, CreateKeeps, ReadKeeps, SetAndDropKeep, EditKeeps DEF GatesNext

\* A request that goes on to assign its gate has nothing left to set or to drop.
LEMMA EndsAtPreset ==
    GatesInv /\ [GatesNext]_gateVars =>
        \A r \in Changes \ touched :
            ask[r].at = "fix" /\ ask'[r].at = "assign" => gate[ask[r].preset] = Intended[ask[r].preset]
<1> SUFFICES ASSUME GatesInv, [GatesNext]_gateVars, NEW r \in Changes \ touched, ask[r].at = "fix",
                    ask'[r].at = "assign"
             PROVE  gate[ask[r].preset] = Intended[ask[r].preset]
  OBVIOUS
<1>1. ask \in [Changes -> Asks] /\ ask[r] \in Fixing
  BY DEF GatesInv, GatesShape, Asks, Plain
<1>2. ask' # ask
  OBVIOUS
<1>3. ASSUME NEW x \in Changes, NEW to, ask' = [ask EXCEPT ![x] = to], to.at # "assign" \/ x # r PROVE FALSE
  BY <1>1, <1>3
<1>4. ASSUME NEW x \in Changes, NEW k, NEW op, NEW p, BeginAsk(x, k, op, p) PROVE FALSE
  BY <1>3, <1>4 DEF BeginAsk
<1>5. ASSUME NEW x \in Changes, NEW at, GoesTo(x, at), ask[x].at # "idle", x # r \/ at # "assign" PROVE FALSE
  <2>1. ask' = [ask EXCEPT ![x] = [ask[x] EXCEPT !.at = at]]
    BY <1>5 DEF GoesTo
  <2>2. [ask[x] EXCEPT !.at = at].at = at
    BY <1>1, <1>5 DEF Asks, Plain, Fixing
  <2>. QED  BY <1>3, <1>5, <2>1, <2>2
<1>6. ASSUME NEW x \in Changes, NEW m, SetCondition(x, m) \/ DropCondition(x, m) PROVE FALSE
  <2>1. PICK to : ask' = [ask EXCEPT ![x] = to] /\ to.at = ask[x].at
    <3>1. ask[x] \in Fixing
      BY <1>1, <1>6 DEF SetCondition, DropCondition, Asks, Plain
    <3>2. CASE SetCondition(x, m)
      <4>1. ask' = [ask EXCEPT ![x] = [ask[x] EXCEPT !.sets = ask[x].sets \ {m}]]
        BY <3>2 DEF SetCondition
      <4>. QED  BY <3>1, <4>1 DEF Fixing
    <3>3. CASE DropCondition(x, m)
      <4>1. ask' = [ask EXCEPT ![x] = [ask[x] EXCEPT !.drops = ask[x].drops \ {m}]]
        BY <3>3 DEF DropCondition
      <4>. QED  BY <3>1, <4>1 DEF Fixing
    <3>. QED  BY <1>6, <3>2, <3>3
  <2>. QED  BY <1>3, <2>1
<1>7. ASSUME NEW x \in Changes, ReadConditions(x) PROVE FALSE
  BY <1>3, <1>7 DEF ReadConditions
<1>8. ASSUME NEW x \in Changes, CreateGate(x) \/ CommitRow(x) \/ CallFails(x) \/ Drop(x) \/ AssignGate(x)
      PROVE  FALSE
  <2>1. PICK at : GoesTo(x, at) /\ at # "assign" /\ ask[x].at # "idle"
    BY <1>8 DEF CreateGate, CommitRow, CallFails, Drop, AssignGate
  <2>. QED  BY <1>5, <2>1
<1>9. ASSUME NEW x \in Changes, Reconciled(x) PROVE gate[ask[r].preset] = Intended[ask[r].preset]
  <2>1. x = r
    BY <1>5, <1>9 DEF Reconciled
  <2>2. ask[r].sets = {} /\ ask[r].drops = {}
    BY <1>9, <2>1 DEF Reconciled
  <2>3. LeftOf(r, ask[r].preset, gate[ask[r].preset]) /\ ask[r].preset \in Presets /\ Conditions(gate[ask[r].preset])
    BY DEF GatesInv, GatesShape
  <2>. QED  BY <2>2, <2>3, NothingLeft DEF LeftOf
<1>10. ~ \E k \in SonarKeys : ConnectToNamed(k) \/ ChooseGate(k)
  BY <1>2 DEF ConnectToNamed, ChooseGate
<1>11. ~ \E p \in Presets, m \in Metrics : EditGate(p, m)
  BY <1>2 DEF EditGate
<1>12. ~ UNCHANGED gateVars
  BY <1>2 DEF gateVars
<1>13. ~ \E x \in Changes, k \in SonarKeys : ConnectProject(x, k) \/ \E p \in Presets : Switch(x, k, p)
  BY <1>4 DEF ConnectProject, Switch
<1>14. ~ \E x \in Changes, k \in SonarBranches : BeforeBranch(x, k)
  BY <1>4 DEF BeforeBranch
<1>. QED
  BY <1>6, <1>7, <1>8, <1>9, <1>10, <1>11, <1>12, <1>13, <1>14 DEF GatesNext

(***************************************************************************)
(* ensure_quality_gate that runs to its end, with nobody else changing the *)
(* gate it read, leaves it with the preset's conditions and no others.     *)
(***************************************************************************)
THEOREM ReconciledIsPresetCorrect == GatesSpec => ReconciledIsPreset
<1>1. GatesInit => GatesInv
  BY DEF GatesInit, GatesInv, GatesShape, Asks
<1>. QED  BY <1>1, GatesStep, EndsAtPreset, PTL DEF GatesSpec, ReconciledIsPreset

-----------------------------------------------------------------------------
(* Webhooks.  A row that is neither stale nor mixed has its project's      *)
(* number, so what is registered for it is on the right project; and until *)
(* a stale row is reconnected at most one request is under way for it,     *)
(* whose commit forgets the webhook it read.                               *)

GitlabRows == [at : Hosts, kind : {"own", "synced"}, number : Numbers, hook : Calls \union {NoHook}]
HookCalls  == [at : {"reconnect", "post", "save", "done"}, path : Paths, hook : Calls \union {NoHook}]

\* The webhook on the project of path p, on its host, registered by call i.
HookOf(p, i) == [at |-> rows[p].at, number |-> number[rows[p].at][p], row |-> p, secret |-> i]

GitlabShape ==
    /\ rows \in [Paths -> GitlabRows \union {NoRow}] /\ number \in [Hosts -> [Paths -> Numbers]]
    /\ call \in [Calls -> HookCalls \union {Unused}] /\ stale \subseteq Paths /\ mixed \subseteq Paths
    /\ \A i \in Calls : call[i].at # "idle" => Connected(call[i].path)

\* The row of path p is in step with its host.
InStep(p) ==
    /\ rows[p].number = number[rows[p].at][p]
    /\ rows[p].hook # NoHook => HookOf(p, rows[p].hook) \in hooks
    /\ \A i \in Calls : call[i].at = "save" /\ call[i].path = p => HookOf(p, i) \in hooks

\* Requests for path p do not overlap, and a reconnection has read the row as it is.
OneAtATime(p) ==
    \A i \in Underway(p) : /\ \A k \in Underway(p) : k = i
                           /\ call[i].at = "reconnect" => call[i].hook = rows[p].hook

HooksInv ==
    /\ GitlabShape
    /\ \A p \in Paths \ (stale \union mixed) : Connected(p) => InStep(p)
    /\ \A p \in stale \ mixed : OneAtATime(p)

LEMMA ConnectedRows ==
    ASSUME GitlabShape, NEW p \in Paths
    PROVE  Connected(p) <=> rows[p] \in GitlabRows
BY HostsAssumption DEF GitlabShape, Connected, GitlabRows, NoRow

\* What a step does to one path matters to no other: it keeps the others in step.
LEMMA OthersKeep ==
    ASSUME HooksInv, NEW p \in Paths, NEW q \in Paths \ {p},
           number' = number, rows'[q] = rows[q], hooks \subseteq hooks', call' \in [Calls -> HookCalls \union {Unused}],
           \A i \in Calls : call'[i] # call[i] => call'[i].path = p /\ call'[i].at # "idle",
           \A i \in Calls : call'[i] # call[i] => call[i].at = "idle" \/ call[i].path = p
    PROVE  /\ q \notin stale \union mixed /\ Connected(q)' => InStep(q)'
           /\ q \in stale \ mixed => OneAtATime(q)'
<1>1. q \notin stale \union mixed /\ Connected(q)' => InStep(q)'
  <2> SUFFICES ASSUME q \notin stale \union mixed, Connected(q)' PROVE InStep(q)'
    OBVIOUS
  <2>1. Connected(q) /\ InStep(q) /\ UNCHANGED HookOf(q, rows[q].hook)
    BY DEF Connected, HooksInv, HookOf
  <2>2. rows'[q].number = number'[rows'[q].at][q] /\ (rows'[q].hook # NoHook => HookOf(q, rows[q].hook)' \in hooks')
    BY <2>1 DEF InStep
  <2>3. ASSUME NEW i \in Calls, call'[i].at = "save", call'[i].path = q PROVE HookOf(q, i)' \in hooks'
    <3>1. call'[i] = call[i]
      BY <2>3
    <3>2. HookOf(q, i) \in hooks
      BY <2>1, <2>3, <3>1 DEF InStep
    <3>. QED  BY <3>2 DEF HookOf
  <2>. QED  BY <2>2, <2>3 DEF InStep
<1>2. q \in stale \ mixed => OneAtATime(q)'
  <2> SUFFICES ASSUME q \in stale \ mixed PROVE OneAtATime(q)'
    OBVIOUS
  <2>1. OneAtATime(q)
    BY DEF HooksInv
  <2>2. \A i \in Underway(q)' : i \in Underway(q) /\ call'[i] = call[i]
    BY DEF Underway
  <2>. QED  BY <2>1, <2>2 DEF OneAtATime
<1>. QED  BY <1>1, <1>2

LEMMA GitlabStart == GitlabInit => HooksInv
<1> SUFFICES ASSUME GitlabInit PROVE HooksInv
  OBVIOUS
<1>1. /\ rows = [p \in Paths |-> NoRow] /\ call = [i \in Calls |-> Unused] /\ stale = {} /\ mixed = {}
      /\ number \in [Hosts -> Numbering]
  BY DEF GitlabInit
<1>2. GitlabShape
  BY <1>1 DEF GitlabShape, Numbering, Unused
<1>3. \A p \in Paths : ~Connected(p)
  BY <1>1 DEF Connected, NoRow
<1>. QED  BY <1>1, <1>2, <1>3 DEF HooksInv

\* A row that appears has its project's number, no webhook and no request yet.
LEMMA RowsAppear ==
    ASSUME HooksInv, NEW h \in Hosts, NEW kind \in {"own", "synced"}, NEW new \in SUBSET Paths,
           \A p \in new : ~Connected(p), stale' = stale \ new, UNCHANGED <<number, hooks, call, mixed>>,
           rows' = [p \in Paths |-> IF p \in new THEN HookRow(h, p, kind) ELSE rows[p]]
    PROVE  HooksInv'
<1>1. GitlabShape
  BY DEF HooksInv
<1>2. \A p \in Paths : HookRow(h, p, kind) \in GitlabRows
  BY <1>1 DEF HookRow, GitlabRows, GitlabShape
<1>3. \A p \in new : rows'[p] = HookRow(h, p, kind) /\ Connected(p)'
  BY <1>2, HostsAssumption DEF Connected, GitlabRows
<1>4. \A p \in Paths \ new : rows'[p] = rows[p] /\ (Connected(p)' <=> Connected(p))
  BY DEF Connected
<1>5. rows' \in [Paths -> GitlabRows \union {NoRow}]
  BY <1>1, <1>2 DEF GitlabShape
<1>6. \A i \in Calls : call[i].at # "idle" => call[i].path \in Paths \ new
  BY <1>1 DEF GitlabShape, HookCalls, Unused
<1>7. GitlabShape'
  BY <1>1, <1>4, <1>5, <1>6 DEF GitlabShape
<1>8. ASSUME NEW p \in Paths \ (stale' \union mixed'), Connected(p)' PROVE InStep(p)'
  <2>1. CASE p \in new
    <3>1. rows'[p].number = number'[rows'[p].at][p] /\ rows'[p].hook = NoHook
      BY <1>3, <2>1 DEF HookRow
    <3>2. \A i \in Calls : ~(call'[i].at = "save" /\ call'[i].path = p)
      BY <1>6, <2>1
    <3>. QED  BY <3>1, <3>2 DEF InStep
  <2>2. CASE p \notin new
    <3>1. InStep(p) /\ rows'[p] = rows[p]
      BY <1>4, <1>8, <2>2 DEF HooksInv
    <3>. QED  BY <3>1 DEF InStep, HookOf
  <2>. QED  BY <2>1, <2>2
<1>9. ASSUME NEW p \in stale' \ mixed' PROVE OneAtATime(p)'
  <2>1. OneAtATime(p) /\ rows'[p] = rows[p]
    BY <1>1, <1>4, <1>9 DEF HooksInv, GitlabShape
  <2>. QED  BY <2>1 DEF OneAtATime, Underway
<1>. QED  BY <1>7, <1>8, <1>9 DEF HooksInv

LEMMA ConnectAndSyncKeep ==
    ASSUME HooksInv, NEW h \in Hosts,
           (\E p \in Paths : ConnectRepository(h, p)) \/ (\E new \in SUBSET Paths : SyncRepositories(h, new))
    PROVE  HooksInv'
<1>1. ASSUME NEW p \in Paths, ConnectRepository(h, p) PROVE HooksInv'
  <2>1. rows' = [q \in Paths |-> IF q \in {p} THEN HookRow(h, q, "own") ELSE rows[q]]
    BY <1>1 DEF ConnectRepository, HooksInv, GitlabShape
  <2>. QED  BY <1>1, <2>1, RowsAppear DEF ConnectRepository
<1>2. ASSUME NEW new \in SUBSET Paths, SyncRepositories(h, new) PROVE HooksInv'
  BY <1>2, RowsAppear DEF SyncRepositories
<1>. QED  BY <1>1, <1>2

LEMMA BeginCallKeeps ==
    ASSUME HooksInv, NEW p \in Paths, NEW at \in {"post", "reconnect"}, BeginCall(p, at)
    PROVE  HooksInv'
<1>1. GitlabShape /\ Connected(p) /\ rows[p] \in GitlabRows /\ UNCHANGED <<rows, number, hooks>>
  BY ConnectedRows DEF BeginCall, HooksInv
<1>2. PICK i \in Calls : call[i] = Unused /\ call' = [call EXCEPT ![i] = [at |-> at, path |-> p, hook |-> rows[p].hook]]
  BY DEF BeginCall
<1>3. [at |-> at, path |-> p, hook |-> rows[p].hook] \in HookCalls
  BY <1>1 DEF HookCalls, GitlabRows
<1>4. /\ call' \in [Calls -> HookCalls \union {Unused}]
      /\ call'[i].at = at /\ call'[i].path = p /\ call'[i].hook = rows[p].hook
      /\ \A k \in Calls \ {i} : call'[k] = call[k]
  BY <1>1, <1>2, <1>3 DEF GitlabShape
<1> DEFINE redone == IF at = "reconnect" /\ Underway(p) = {} THEN mixed \intersect {p} ELSE {}
<1>5. /\ mixed' = IF p \in stale /\ Underway(p) # {} THEN mixed \union {p} ELSE mixed \ redone
      /\ stale' = stale \union redone
  BY DEF BeginCall
<1>6. GitlabShape'
  <2>1. stale' \subseteq Paths /\ mixed' \subseteq Paths
    BY <1>1, <1>5 DEF GitlabShape
  <2>2. \A k \in Calls : call'[k].at # "idle" => Connected(call[k].path)'
    BY <1>1, <1>4 DEF GitlabShape, Connected
  <2>. QED  BY <1>1, <1>4, <2>1, <2>2 DEF GitlabShape
<1>7. \A q \in Paths \ {p} : (q \in stale' <=> q \in stale) /\ (q \in mixed' <=> q \in mixed)
  BY <1>5
<1>8. call[i].at = "idle" /\ at # "idle" /\ at # "save"
  BY <1>2 DEF Unused
<1>9. ASSUME NEW q \in Paths \ {p}
      PROVE  /\ q \notin stale' \union mixed' /\ Connected(q)' => InStep(q)'
             /\ q \in stale' \ mixed' => OneAtATime(q)'
  BY <1>1, <1>4, <1>7, <1>8, OthersKeep
<1>10. p \notin stale' \union mixed' => InStep(p)'
  <2> SUFFICES ASSUME p \notin stale' \union mixed' PROVE InStep(p)'
    OBVIOUS
  <2>1. p \notin stale \union mixed
    BY <1>5
  <2>2. InStep(p)
    BY <1>1, <2>1 DEF HooksInv
  <2>3. \A k \in Calls : call'[k].at = "save" => call'[k] = call[k]
    BY <1>4, <1>8
  <2>. QED  BY <1>1, <2>2, <2>3 DEF InStep, HookOf
<1>11. p \in stale' \ mixed' => OneAtATime(p)'
  <2> SUFFICES ASSUME p \in stale' \ mixed' PROVE OneAtATime(p)'
    OBVIOUS
  <2>1. Underway(p) = {}
    BY <1>5
  <2>2. Underway(p)' = {i}
    <3>1. \A k \in Calls \ {i} : k \notin Underway(p)'
      BY <1>4, <2>1 DEF Underway
    <3>2. i \in Underway(p)' /\ Underway(p)' \subseteq Calls
      BY <1>4 DEF Underway
    <3>. QED  BY <3>1, <3>2
  <2>. QED  BY <1>1, <1>4, <2>2 DEF OneAtATime
<1>. QED  BY <1>6, <1>9, <1>10, <1>11 DEF HooksInv, GitlabShape

\* A call that goes on, the row of its path changing at most, leaves the rest alone.
LEMMA CallGoesOn ==
    ASSUME HooksInv, NEW i \in Calls, NEW to \in HookCalls, call' = [call EXCEPT ![i] = to],
           NEW p \in Paths, p = call[i].path, to.path = p, call[i].at # "idle", NEW row \in GitlabRows,
           rows' = [rows EXCEPT ![p] = row],
           row.at = rows[p].at, stale' = stale \/ stale' = stale \ {p}, UNCHANGED <<number, mixed>>,
           hooks \subseteq hooks'
    PROVE  /\ GitlabShape'
           /\ call'[i] = to /\ \A k \in Calls \ {i} : call'[k] = call[k]
           /\ rows'[p] = row
           /\ \A q \in Paths \ {p} :
                  /\ q \notin stale' \union mixed' /\ Connected(q)' => InStep(q)'
                  /\ q \in stale' \ mixed' => OneAtATime(q)'
<1>1. GitlabShape
  BY DEF HooksInv
<1>2. call[i] \in HookCalls
  BY <1>1 DEF GitlabShape, Unused
<1>3. p \in Paths /\ p = call[i].path
  OBVIOUS
<1>6. /\ call' \in [Calls -> HookCalls \union {Unused}] /\ call'[i] = to
      /\ \A k \in Calls \ {i} : call'[k] = call[k]
  BY <1>1 DEF GitlabShape
<1>7. /\ rows' \in [Paths -> GitlabRows \union {NoRow}] /\ rows'[p] = row
      /\ \A q \in Paths \ {p} : rows'[q] = rows[q]
  BY <1>1, <1>3 DEF GitlabShape
<1>8. Connected(p) /\ rows[p] \in GitlabRows
  BY <1>1, <1>2, <1>3, ConnectedRows DEF GitlabShape
<1>9. GitlabShape'
  <2>1. \A q \in Paths : Connected(q) => Connected(q)'
    BY <1>3, <1>7 DEF Connected
  <2>2. ASSUME NEW k \in Calls, call'[k].at # "idle" PROVE Connected(call[k].path)'
    <3>1. CASE k = i
      <4>1. call'[k].path = p
        BY <1>6, <3>1
      <4>. QED  BY <1>8, <2>1, <4>1 DEF Connected
    <3>2. CASE k # i
      <4>1. call'[k] = call[k] /\ Connected(call[k].path) /\ call[k].path \in Paths
        BY <1>1, <1>6, <2>2, <3>2 DEF GitlabShape, HookCalls, Unused
      <4>. QED  BY <2>1, <4>1 DEF Connected
    <3>. QED  BY <3>1, <3>2
  <2>3. stale' \subseteq Paths /\ mixed' \subseteq Paths /\ number' \in [Hosts -> [Paths -> Numbers]]
    BY <1>1 DEF GitlabShape
  <2>. QED  BY <1>6, <1>7, <2>2, <2>3 DEF GitlabShape
<1>10. ASSUME NEW q \in Paths \ {p}
       PROVE  /\ q \notin stale' \union mixed' /\ Connected(q)' => InStep(q)'
              /\ q \in stale' \ mixed' => OneAtATime(q)'
  <2>1. (q \in stale' <=> q \in stale) /\ mixed' = mixed
    BY <1>3
  <2>2. /\ q \notin stale \union mixed /\ Connected(q)' => InStep(q)'
        /\ q \in stale \ mixed => OneAtATime(q)'
    BY <1>2, <1>3, <1>6, <1>7, OthersKeep DEF HookCalls
  <2>. QED  BY <2>1, <2>2
<1>. QED  BY <1>6, <1>7, <1>9, <1>10

LEMMA ReconnectKeeps == ASSUME HooksInv, NEW i \in Calls, ReconnectCommit(i) PROVE HooksInv'
<1>1. GitlabShape /\ call[i].at = "reconnect" /\ UNCHANGED <<number, hooks, mixed>>
  BY DEF HooksInv, ReconnectCommit
<1>2. PICK p \in Paths : p = call[i].path
  BY <1>1 DEF GitlabShape, HookCalls, Unused
<1>3. rows[p] \in GitlabRows /\ Connected(p) /\ call[i] \in HookCalls
  BY <1>1, <1>2, ConnectedRows DEF GitlabShape, Unused
<1>4. PICK h : h = ForgetsHook(i)
  OBVIOUS
<1>5. h \in {NoHook, rows[p].hook} /\ (call[i].hook = rows[p].hook => h = NoHook)
  BY <1>2, <1>4 DEF ForgetsHook
<1>6. PICK row : row = [rows[p] EXCEPT !.number = number[rows[p].at][p], !.hook = h]
  OBVIOUS
<1>7. row \in GitlabRows /\ row.at = rows[p].at /\ row.number = number[rows[p].at][p] /\ row.hook = h
  <2>1. number[rows[p].at][p] \in Numbers /\ h \in Calls \union {NoHook}
    BY <1>1, <1>3, <1>5 DEF GitlabShape, GitlabRows
  <2>. QED  BY <1>3, <1>6, <2>1 DEF GitlabRows
<1>8. rows' = [rows EXCEPT ![p] = row]
  BY <1>1, <1>2, <1>4, <1>6 DEF ReconnectCommit, GitlabShape
<1>9. stale' = stale \ {p}
  BY <1>2 DEF ReconnectCommit
<1>10. PICK to \in HookCalls : /\ call' = [call EXCEPT ![i] = to] /\ to.path = p
                               /\ to.at \in {"post", "done"}
  <2>1. PICK at \in {"post", "done"} : call' = [call EXCEPT ![i].at = at]
    BY DEF ReconnectCommit
  <2> DEFINE to == [call[i] EXCEPT !.at = at]
  <2>2. to \in HookCalls /\ to.at = at /\ to.path = p
    BY <1>2, <1>3 DEF HookCalls
  <2>. QED  BY <2>1, <2>2
<1>11. /\ GitlabShape'
       /\ call'[i] = to /\ rows'[p] = row /\ \A k \in Calls \ {i} : call'[k] = call[k]
       /\ \A q \in Paths \ {p} : /\ q \notin stale' \union mixed' /\ Connected(q)' => InStep(q)'
                                 /\ q \in stale' \ mixed' => OneAtATime(q)'
  <2>1. /\ call[i].at # "idle"
        /\ stale' = stale \/ stale' = stale \ {p}
        /\ hooks \subseteq hooks' /\ row \in GitlabRows /\ row.at = rows[p].at
    BY <1>1, <1>7, <1>9
  <2>. QED  BY <1>1, <1>2, <1>8, <1>10, <2>1, CallGoesOn
<1>12. p \notin stale' \union mixed' => InStep(p)'
  <2> SUFFICES ASSUME p \notin mixed PROVE InStep(p)'
    BY <1>1
  <2>1. row.number = number'[row.at][p]
    BY <1>1, <1>7
  <2>2. CASE p \in stale
    <3>1. \A k \in Underway(p) : k = i
      BY <1>1, <1>2, <2>2 DEF HooksInv, OneAtATime, Underway
    <3>2. h = NoHook
      BY <1>1, <1>2, <1>5, <2>2 DEF HooksInv, OneAtATime, Underway
    <3>3. \A k \in Calls : ~(call'[k].at = "save" /\ call'[k].path = p)
      BY <1>10, <1>11, <3>1 DEF Underway
    <3>. QED  BY <1>7, <1>11, <2>1, <3>2, <3>3 DEF InStep
  <2>3. CASE p \notin stale
    <3>1. InStep(p)
      BY <1>3, <2>3 DEF HooksInv
    <3>2. \A k : HookOf(p, k)' = HookOf(p, k)
      BY <1>1, <1>7, <1>11 DEF HookOf
    <3>3. h # NoHook => HookOf(p, h) \in hooks
      BY <1>5, <3>1 DEF InStep
    <3>4. \A k \in Calls : call'[k].at = "save" /\ call'[k].path = p => HookOf(p, k) \in hooks
      BY <1>10, <1>11, <3>1 DEF InStep
    <3>5. h = NoHook \/ HookOf(p, h)' \in hooks'
      BY <1>1, <3>2, <3>3
    <3>. QED  BY <1>1, <1>7, <1>11, <2>1, <3>2, <3>4, <3>5 DEF InStep
  <2>. QED  BY <2>2, <2>3
<1>. QED  BY <1>9, <1>11, <1>12 DEF HooksInv, GitlabShape

LEMMA PostSaveEndKeep ==
    ASSUME HooksInv, NEW i \in Calls, Post(i) \/ Save(i) \/ EndCall(i)
    PROVE  HooksInv'
<1>1. GitlabShape /\ call[i].at \in {"reconnect", "post", "save"} /\ UNCHANGED <<number, stale, mixed>>
  BY DEF HooksInv, Post, Save, EndCall
<1>2. PICK p \in Paths : p = call[i].path
  BY <1>1 DEF GitlabShape, HookCalls, Unused
<1>3. rows[p] \in GitlabRows /\ Connected(p)
  BY <1>1, <1>2, ConnectedRows DEF GitlabShape, Unused
<1>4. PICK to \in HookCalls :
         /\ call' = [call EXCEPT ![i] = to] /\ to.path = p /\ to.at \in {"save", "done"}
         /\ to.at = "save" => Post(i)
  <2>1. PICK at \in {"save", "done"} : call' = [call EXCEPT ![i].at = at] /\ (at = "save" => Post(i))
    BY DEF Post, Save, EndCall
  <2> DEFINE to == [call[i] EXCEPT !.at = at]
  <2>2. to \in HookCalls /\ to.at = at /\ to.path = p
    BY <1>1, <1>2 DEF HookCalls, GitlabShape, Unused
  <2>. QED  BY <2>1, <2>2
<1>5. PICK row \in GitlabRows :
         /\ rows' = [rows EXCEPT ![p] = row] /\ row.at = rows[p].at /\ row.number = rows[p].number
         /\ row.hook = IF call[i].at = "save" /\ Save(i) THEN i ELSE rows[p].hook
  <2>1. CASE Save(i)
    <3> DEFINE row == [rows[p] EXCEPT !.hook = i]
    <3>1. row \in GitlabRows /\ row.at = rows[p].at /\ row.number = rows[p].number /\ row.hook = i
      BY <1>3 DEF GitlabRows
    <3>2. rows' = [rows EXCEPT ![p] = row] /\ call[i].at = "save"
      BY <1>2, <2>1 DEF Save
    <3>. QED  BY <2>1, <3>1, <3>2
  <2>2. CASE ~Save(i)
    <3>1. rows' = rows /\ rows = [rows EXCEPT ![p] = rows[p]]
      BY <1>1, <2>2 DEF Post, EndCall, GitlabShape
    <3>. QED  BY <1>3, <2>2, <3>1
  <2>. QED  BY <2>1, <2>2
<1>6. hooks \subseteq hooks'
  BY DEF Post, Save, EndCall
<1>7. /\ GitlabShape'
      /\ call'[i] = to /\ rows'[p] = row /\ \A k \in Calls \ {i} : call'[k] = call[k]
      /\ \A q \in Paths \ {p} : /\ q \notin stale' \union mixed' /\ Connected(q)' => InStep(q)'
                                /\ q \in stale' \ mixed' => OneAtATime(q)'
  <2>1. call[i].at # "idle" /\ (stale' = stale \/ stale' = stale \ {p}) /\ UNCHANGED <<number, mixed>>
    BY <1>1
  <2>2. rows' = [rows EXCEPT ![p] = row] /\ row.at = rows[p].at
    BY <1>5
  <2>3. call' = [call EXCEPT ![i] = to] /\ to.path = p
    BY <1>4
  <2>4. GitlabShape'
    BY <1>2, <1>6, <2>1, <2>2, <2>3, CallGoesOn
  <2>5. call'[i] = to /\ rows'[p] = row /\ \A k \in Calls \ {i} : call'[k] = call[k]
    BY <1>1, <2>2, <2>3 DEF GitlabShape
  <2>6. ASSUME NEW q \in Paths \ {p}
        PROVE  /\ q \notin stale' \union mixed' /\ Connected(q)' => InStep(q)'
               /\ q \in stale' \ mixed' => OneAtATime(q)'
    BY <1>2, <1>6, <2>1, <2>2, <2>3, CallGoesOn
  <2>. QED  BY <2>4, <2>5, <2>6
<1>8. p \notin stale' \union mixed' => InStep(p)'
  <2> SUFFICES ASSUME p \notin stale \union mixed PROVE InStep(p)'
    BY <1>1
  <2>1. InStep(p)
    BY <1>3 DEF HooksInv
  <2>2. \A k : HookOf(p, k)' = HookOf(p, k)
    BY <1>1, <1>5, <1>7 DEF HookOf
  <2>3. row.number = number'[row.at][p]
    BY <1>1, <1>5, <2>1 DEF InStep
  <2>4. row.hook # NoHook => HookOf(p, row.hook) \in hooks
    BY <1>2, <1>5, <2>1 DEF InStep
  <2>5. to.at = "save" => HookOf(p, i) \in hooks'
    <3> SUFFICES ASSUME to.at = "save" PROVE HookOf(p, i) \in hooks'
      OBVIOUS
    <3>1. hooks' = hooks \union {[at |-> rows[p].at, number |-> rows[p].number, row |-> p, secret |-> i]}
      BY <1>2, <1>4 DEF Post
    <3>. QED  BY <2>1, <3>1 DEF InStep, HookOf
  <2>6. ASSUME NEW k \in Calls, call'[k].at = "save", call'[k].path = p PROVE HookOf(p, k) \in hooks'
    BY <1>6, <1>7, <2>1, <2>5, <2>6 DEF InStep
  <2>7. row.hook = NoHook \/ HookOf(p, row.hook)' \in hooks'
    BY <1>6, <2>2, <2>4
  <2>. QED  BY <1>7, <2>2, <2>3, <2>6, <2>7 DEF InStep
<1>9. p \in stale' \ mixed' => OneAtATime(p)'
  <2> SUFFICES ASSUME p \in stale \ mixed PROVE OneAtATime(p)'
    BY <1>1
  <2>1. OneAtATime(p) /\ i \in Underway(p)
    BY <1>1, <1>2 DEF HooksInv, Underway
  <2>2. \A k \in Underway(p)' : k = i
    BY <1>7, <2>1 DEF OneAtATime, Underway
  <2>3. call'[i].at # "reconnect"
    BY <1>4, <1>7
  <2>. QED  BY <2>2, <2>3 DEF OneAtATime
<1>. QED  BY <1>7, <1>8, <1>9 DEF HooksInv, GitlabShape

LEMMA ReinstallKeeps == ASSUME HooksInv, NEW h \in Hosts, Reinstall(h) PROVE HooksInv'
<1>1. GitlabShape /\ UNCHANGED <<rows, call, mixed>>
  BY DEF HooksInv, Reinstall
<1>2. PICK f \in Numbering : number' = [number EXCEPT ![h] = f]
  BY DEF Reinstall
<1>3. /\ number' \in [Hosts -> [Paths -> Numbers]] /\ \A g \in Hosts \ {h} : number'[g] = number[g]
      /\ stale' = stale \union {p \in Paths : rows[p].at = h} /\ hooks' = {k \in hooks : k.at # h}
      /\ \A p \in Paths : rows[p].at = h => Underway(p) = {}
  BY <1>1, <1>2 DEF GitlabShape, Numbering, Reinstall
<1>4. GitlabShape'
  BY <1>1, <1>3 DEF GitlabShape, Connected
<1>5. ASSUME NEW p \in Paths \ (stale' \union mixed'), Connected(p)' PROVE InStep(p)'
  <2>1. rows[p].at # h /\ Connected(p) /\ InStep(p) /\ rows[p] \in GitlabRows
    BY <1>1, <1>3, <1>5, ConnectedRows DEF HooksInv, Connected
  <2>2. number'[rows[p].at] = number[rows[p].at]
    BY <1>3, <2>1 DEF GitlabRows
  <2>3. \A k : HookOf(p, k)' = HookOf(p, k) /\ (HookOf(p, k) \in hooks => HookOf(p, k) \in hooks')
    BY <1>1, <1>3, <2>1, <2>2 DEF HookOf
  <2>4. rows'[p].number = number'[rows'[p].at][p]
    BY <1>1, <2>1, <2>2 DEF InStep
  <2>5. \A k : HookOf(p, k) \in hooks => HookOf(p, k)' \in hooks'
    BY <2>3
  <2>6. rows[p].hook = NoHook \/ HookOf(p, rows[p].hook)' \in hooks'
    <3>1. PICK k : k = rows[p].hook
      OBVIOUS
    <3>2. k = NoHook \/ HookOf(p, k)' \in hooks'
      BY <2>1, <2>5, <3>1 DEF InStep
    <3>. QED  BY <1>1, <3>1, <3>2 DEF HookOf
  <2>7. ASSUME NEW k \in Calls, call[k].at = "save", call[k].path = p PROVE HookOf(p, k)' \in hooks'
    BY <2>1, <2>5, <2>7 DEF InStep
  <2>. QED  BY <1>1, <2>4, <2>6, <2>7 DEF InStep
<1>6. ASSUME NEW p \in stale' \ mixed' PROVE OneAtATime(p)'
  <2>1. CASE p \in stale
    <3>1. OneAtATime(p)
      BY <1>1, <1>6, <2>1 DEF HooksInv
    <3>. QED  BY <1>1, <3>1 DEF OneAtATime, Underway
  <2>2. CASE p \notin stale
    <3>1. Underway(p) = {}
      BY <1>3, <1>6, <2>2
    <3>. QED  BY <1>1, <3>1 DEF OneAtATime, Underway
  <2>. QED  BY <2>1, <2>2
<1>. QED  BY <1>4, <1>5, <1>6 DEF HooksInv

LEMMA GitlabStep == HooksInv /\ [GitlabNext]_hookVars => HooksInv'
<1> SUFFICES ASSUME HooksInv, [GitlabNext]_hookVars PROVE HooksInv'
  OBVIOUS
<1>1. CASE UNCHANGED hookVars
  BY <1>1 DEF hookVars, HooksInv, GitlabShape, InStep, HookOf, OneAtATime, Underway, Connected
<1>2. ASSUME NEW p \in Paths, BeginRegister(p) \/ BeginReconnect(p) PROVE HooksInv'
  BY <1>2, BeginCallKeeps DEF BeginRegister, BeginReconnect
<1>. QED
  BY <1>1, <1>2, ConnectAndSyncKeep, ReconnectKeeps, PostSaveEndKeep, ReinstallKeeps DEF GitlabNext

(***************************************************************************)
(* A repository shown with a webhook has one, on its own project and with  *)
(* its secret, unless its host was reinstalled since it was reconnected or *)
(* that reconnection and a registration overlapped.                        *)
(***************************************************************************)
THEOREM RegisteredHearsCorrect == GitlabSpec => []RegisteredHears
<1>1. HooksInv => RegisteredHears
  BY DEF HooksInv, InStep, HookOf, RegisteredHears
<1>. QED  BY <1>1, GitlabStart, GitlabStep, PTL DEF GitlabSpec

-----------------------------------------------------------------------------
(* Repositories and markers.  Markers and rows are never removed, so what  *)
(* a request found there it can rely on; what it found absent is still so  *)
(* as long as it is alone.                                                 *)

SourceOps == {"map", "public", "bulk", "bulkpublic", "provision", "analyze", "create", "run"}
SourceReqs ==
    [op : SourceOps, repo : Repos, proj : Projects,
     at : {"connect", "commit", "look", "take", "read", "create", "row", "sha"},
     marked : BOOLEAN, moves : BOOLEAN, todo : Seq(Repos), pending : SUBSET Repos]
Closed == [at |-> "done"]

SourceShape ==
    /\ mapping \in [Repos -> Projects \union {Unrecorded, Unmapped}]
    /\ sonarOf \in [Repos -> Projects \union {Unrecorded}]
    /\ provisions \in Seq([repo : Repos, proj : Projects])
    /\ req \in [Requests -> SourceReqs \union {Unmade, Closed}]
    /\ crowded \subseteq Requests /\ troubles \in Nat

\* A repository that is provisioned has a row, or will when the bulk request that
\* queued it ends, or that request did not end well.
Excused(r) == \/ mapping[r] # Unrecorded
              \/ troubles > 0
              \/ \E e \in lost : e.op = "bulkpublic"
              \/ \E k \in Active : req[k].op = "bulkpublic" /\ r \in req[k].pending

HasMarker(q) == <<q.proj, Source(q.repo)>> \in marks
OneSource(q) == /\ \A n \in DOMAIN q.todo : Source(q.todo[n]) = Source(q.repo)
                /\ \A r \in q.pending : Source(r) = Source(q.repo)

\* What is true of a request at its place, whoever else is at work.
Asking(q) ==
    q.at \in {"connect", "commit"} =>
        /\ q.op \in {"map", "public"} /\ (q.at = "commit" => HasMarker(q))
        /\ q.op = "map" => mapping[q.repo] # Unrecorded
        /\ q.op = "public" => q.moves
Listing(q) ==
    q.at \in {"look", "take"} =>
        /\ q.op \in {"bulk", "bulkpublic"} /\ OneSource(q)
        /\ IF q.marked THEN HasMarker(q) ELSE q.pending = {}
        /\ q.at = "take" /\ q.op = "bulk" => mapping[q.repo] # Unrecorded
        /\ q.at = "take" /\ q.op = "bulkpublic" => q.moves
Making(q) ==
    q.at \in {"read", "create", "row", "sha"} =>
        /\ q.op \notin {"bulk", "bulkpublic"}
        /\ q.at # "sha" => IF q.op = "provision" THEN Excused(q.repo) ELSE mapping[q.repo] # Unrecorded
Sound(q) == Asking(q) /\ Listing(q) /\ Making(q)

\* What it has read is still so, when nobody else is.
Calm(q) ==
    /\ q.at = "connect" \/ (q.at \in {"look", "take"} /\ ~q.marked) => ~HasMarker(q)
    /\ q.op = "public" /\ q.at \in {"connect", "commit"} => mapping[q.repo] = Unrecorded
    /\ q.op = "bulkpublic" /\ q.at = "take" => mapping[q.repo] = Unrecorded
    /\ q.at \in {"create", "row"} => sonarOf[q.repo] = Unrecorded
    /\ q.at = "row" /\ <<q.proj, "sonar">> \in marks => q.marked

Queued == \A n \in DOMAIN provisions, r \in Repos : provisions[n].repo = r => Excused(r)

SourceInv ==
    /\ SourceShape /\ MappedIsMarked /\ RefusedOnlyInACrowd /\ Queued
    /\ \A i \in Active : Sound(req[i])
    /\ \A i \in Active \ crowded : Active = {i} /\ Calm(req[i])

-----------------------------------------------------------------------------
LEMMA ActiveRequests ==
    ASSUME SourceShape, NEW i \in Requests
    PROVE  i \in Active <=> req[i] \in SourceReqs
BY DEF SourceShape, SourceReqs, Unmade, Closed, Active, Made

\* No step takes a row, a marker, a refusal or a failure back.
Grows ==
    /\ marks \subseteq marks' /\ lost \subseteq lost' /\ crowded \subseteq crowded'
    /\ \A r \in Repos : mapping[r] # Unrecorded => mapping'[r] # Unrecorded
    /\ troubles > 0 => troubles' > 0
    /\ mapping' \in [Repos -> Projects \union {Unrecorded, Unmapped}]
    /\ sonarOf' \in [Repos -> Projects \union {Unrecorded}]
    /\ crowded' \subseteq Requests /\ troubles' \in Nat

LEMMA SoundStays ==
    ASSUME NEW q \in SourceReqs, Sound(q), Grows, \A r \in Repos : Excused(r) => Excused(r)'
    PROVE  Sound(q)'
<1>1. q.repo \in Repos
  BY DEF SourceReqs
<1>2. HasMarker(q) => HasMarker(q)'
  BY DEF Grows, HasMarker
<1>3. Asking(q)'
  BY <1>1, <1>2 DEF Sound, Asking, Grows
<1>4. Listing(q)'
  BY <1>1, <1>2 DEF Sound, Listing, OneSource, Grows
<1>5. Making(q)'
  BY <1>1 DEF Sound, Making, Grows
<1>. QED  BY <1>3, <1>4, <1>5 DEF Sound

\* What a bulk request of public repositories that goes on, or ends, still excuses.
StillExcused(i, to) ==
    \A r \in req[i].pending :
        req[i].op = "bulkpublic" =>
            \/ mapping'[r] # Unrecorded \/ troubles' > 0 \/ \E e \in lost' : e.op = "bulkpublic"
            \/ to \in SourceReqs /\ to.op = "bulkpublic" /\ r \in to.pending

LEMMA ExcusesStay ==
    ASSUME SourceShape, SourceShape', Grows, NEW i \in Active, NEW to, req' = [req EXCEPT ![i] = to],
           StillExcused(i, to), NEW r \in Repos, Excused(r)
    PROVE  Excused(r)'
<1>1. CASE mapping[r] # Unrecorded \/ troubles > 0 \/ \E e \in lost : e.op = "bulkpublic"
  BY <1>1 DEF Excused, Grows
<1>2. CASE \E k \in Active : req[k].op = "bulkpublic" /\ r \in req[k].pending
  <2>1. PICK k \in Active : req[k].op = "bulkpublic" /\ r \in req[k].pending
    BY <1>2
  <2>2. k \in Requests /\ i \in Requests
    BY DEF Active, Made
  <2>3. CASE k = i
    <3>1. \/ mapping'[r] # Unrecorded \/ troubles' > 0 \/ \E e \in lost' : e.op = "bulkpublic"
          \/ to \in SourceReqs /\ to.op = "bulkpublic" /\ r \in to.pending
      BY <2>1, <2>3 DEF StillExcused
    <3>2. CASE to \in SourceReqs /\ to.op = "bulkpublic" /\ r \in to.pending
      <4>1. req'[i] = to
        BY <2>2 DEF SourceShape
      <4>2. i \in Active'
        BY <2>2, <3>2, <4>1 DEF Active, Made, SourceReqs
      <4>. QED  BY <3>2, <4>1, <4>2 DEF Excused
    <3>. QED  BY <3>1, <3>2 DEF Excused
  <2>4. CASE k # i
    <3>1. req'[k] = req[k]
      BY <2>2, <2>4 DEF SourceShape
    <3>2. k \in Active'
      BY <2>2, <3>1 DEF Active, Made
    <3>. QED  BY <2>1, <3>1, <3>2 DEF Excused
  <2>. QED  BY <2>3, <2>4
<1>. QED  BY <1>1, <1>2 DEF Excused

\* The queue keeps its jobs, loses its first or gets one more.
LEMMA QueueStays ==
    ASSUME SourceShape, Queued, \A r \in Repos : Excused(r) => Excused(r)',
           \/ provisions' = provisions
           \/ provisions # <<>> /\ provisions' = Tail(provisions)
           \/ \E r \in Repos, p \in Projects :
                 provisions' = Append(provisions, [repo |-> r, proj |-> p]) /\ Excused(r)'
    PROVE  Queued' /\ provisions' \in Seq([repo : Repos, proj : Projects])
<1>1. provisions \in Seq([repo : Repos, proj : Projects])
  BY DEF SourceShape
<1>2. \A n \in DOMAIN provisions, r \in Repos : provisions[n].repo = r => Excused(r)'
  BY <1>1 DEF Queued
<1>3. CASE provisions' = provisions
  BY <1>1, <1>2, <1>3 DEF Queued
<1>4. CASE provisions # <<>> /\ provisions' = Tail(provisions)
  <2>1. provisions' \in Seq([repo : Repos, proj : Projects])
    BY <1>1, <1>4
  <2>2. ASSUME NEW n \in DOMAIN provisions' PROVE n + 1 \in DOMAIN provisions /\ provisions'[n] = provisions[n + 1]
    BY <1>1, <1>4, <2>2
  <2>. QED  BY <1>2, <2>1, <2>2 DEF Queued
<1>5. ASSUME NEW r \in Repos, NEW p \in Projects, Excused(r)',
             provisions' = Append(provisions, [repo |-> r, proj |-> p])
      PROVE  Queued' /\ provisions' \in Seq([repo : Repos, proj : Projects])
  <2>1. provisions' \in Seq([repo : Repos, proj : Projects])
    BY <1>1, <1>5
  <2>2. ASSUME NEW n \in DOMAIN provisions', NEW s \in Repos, provisions'[n].repo = s PROVE Excused(s)'
    <3>1. CASE n \in DOMAIN provisions
      <4>1. provisions'[n] = provisions[n]
        BY <1>1, <1>5, <3>1
      <4>. QED  BY <1>2, <2>2, <3>1, <4>1
    <3>2. CASE n \notin DOMAIN provisions
      <4>1. provisions'[n] = [repo |-> r, proj |-> p]
        BY <1>1, <1>5, <2>2, <3>2
      <4>2. s = r
        BY <2>2, <4>1
      <4>. QED  BY <1>5, <4>2
    <3>. QED  BY <3>1, <3>2
  <2>. QED  BY <2>1, <2>2 DEF Queued
<1>. QED  BY <1>3, <1>4, <1>5

\* A request advances, and what it does beside leaves everything else sound.
LEMMA RequestGoesOn ==
    ASSUME SourceInv, NEW i \in Active, NEW to \in SourceReqs \union {Closed}, req' = [req EXCEPT ![i] = to],
           Grows, crowded' = crowded, MappedIsMarked', RefusedOnlyInACrowd', StillExcused(i, to),
           \/ provisions' = provisions
           \/ \E r \in Repos, p \in Projects :
                 provisions' = Append(provisions, [repo |-> r, proj |-> p]) /\ Excused(r)',
           to \in SourceReqs => Sound(to)' /\ (i \notin crowded => Calm(to)')
    PROVE  SourceInv'
<1>1. SourceShape /\ i \in Requests
  BY DEF SourceInv, Active, Made
<1>2. req' \in [Requests -> SourceReqs \union {Unmade, Closed}] /\ req'[i] = to
      /\ \A k \in Requests \ {i} : req'[k] = req[k]
  BY <1>1 DEF SourceShape
<1>3. SourceShape'
  <2>1. ASSUME NEW r \in Repos, NEW p \in Projects, provisions' = Append(provisions, [repo |-> r, proj |-> p])
        PROVE  provisions' \in Seq([repo : Repos, proj : Projects])
    BY <1>1, <2>1 DEF SourceShape
  <2>2. provisions' \in Seq([repo : Repos, proj : Projects])
    BY <1>1, <2>1 DEF SourceShape
  <2>. QED  BY <1>2, <2>2 DEF SourceShape, Grows
<1>4. \A r \in Repos : Excused(r) => Excused(r)'
  BY <1>1, <1>3, ExcusesStay
<1>5. Queued'
  BY <1>1, <1>4, QueueStays DEF SourceInv
<1>6. Active' \subseteq Active /\ (i \in Active' => to \in SourceReqs)
  <2>1. \A k \in Requests \ {i} : k \in Active' <=> k \in Active
    BY <1>2 DEF Active, Made
  <2>2. i \in Active' => to \in SourceReqs
    BY <1>2 DEF Active, Made, Closed
  <2>3. Active' \subseteq Requests
    BY DEF Active, Made
  <2>. QED  BY <2>1, <2>2, <2>3
<1>7. ASSUME NEW k \in Active', NEW q, q = req'[k] PROVE Sound(q)'
  <2>1. CASE k = i
    BY <1>2, <1>6, <1>7, <2>1
  <2>2. CASE k # i
    <3>1. k \in Active /\ k \in Requests /\ q = req[k]
      BY <1>2, <1>6, <1>7, <2>2 DEF Active, Made
    <3>2. q \in SourceReqs /\ Sound(q)
      BY <1>1, <3>1, ActiveRequests DEF SourceInv
    <3>. QED  BY <1>4, <3>2, SoundStays
  <2>. QED  BY <2>1, <2>2
<1>8. ASSUME NEW k \in Active' \ crowded', NEW q, q = req'[k] PROVE Active' = {k} /\ Calm(q)'
  <2>1. k \in Active \ crowded
    BY <1>6
  <2>2. Active = {k}
    BY <2>1 DEF SourceInv
  <2>3. k = i /\ Active' = {k}
    BY <1>6, <1>8, <2>2
  <2>. QED  BY <1>2, <1>6, <1>8, <2>1, <2>3
<1>9. \A k \in Active' : Sound(req[k])'
  <2> SUFFICES ASSUME NEW k \in Active' PROVE Sound(req[k])'
    OBVIOUS
  <2>1. PICK q : q = req'[k]
    OBVIOUS
  <2>2. Sound(q)'
    BY <1>7, <2>1
  <2>. QED  BY <2>1, <2>2 DEF Sound, Asking, Listing, Making, HasMarker, OneSource, Excused
<1>10. \A k \in Active' \ crowded' : Active' = {k} /\ Calm(req[k])'
  <2> SUFFICES ASSUME NEW k \in Active' \ crowded' PROVE Active' = {k} /\ Calm(req[k])'
    OBVIOUS
  <2>1. PICK q : q = req'[k]
    OBVIOUS
  <2>2. Active' = {k} /\ Calm(q)'
    BY <1>8, <2>1
  <2>. QED  BY <2>1, <2>2 DEF Calm, HasMarker
<1>. QED  BY <1>3, <1>5, <1>9, <1>10 DEF SourceInv

\* A request begins: it is sound and calm, or not the only one.
LEMMA RequestBegins ==
    ASSUME SourceInv, NEW q \in SourceReqs, Begin(q), UNCHANGED <<mapping, marks, sonarOf, lost, troubles>>,
           provisions' = provisions \/ (provisions # <<>> /\ provisions' = Tail(provisions)),
           Sound(q), Calm(q)
    PROVE  SourceInv'
<1>1. SourceShape
  BY DEF SourceInv
<1>2. PICK i \in Requests \ Made :
         /\ req' = [req EXCEPT ![i] = q]
         /\ crowded' = IF Active = {} THEN crowded ELSE crowded \union Active \union {i}
  BY DEF Begin
<1>3. req' \in [Requests -> SourceReqs \union {Unmade, Closed}] /\ req'[i] = q
      /\ \A k \in Requests \ {i} : req'[k] = req[k]
  BY <1>1, <1>2 DEF SourceShape
<1>4. i \notin Active /\ Active' = Active \union {i} /\ Active \subseteq Requests
  <2>1. i \notin Active
    BY <1>2 DEF Active, Made
  <2>2. \A k \in Requests \ {i} : k \in Active' <=> k \in Active
    BY <1>3 DEF Active, Made
  <2>3. i \in Active'
    BY <1>2, <1>3 DEF Active, Made, SourceReqs
  <2>4. Active' \subseteq Requests /\ Active \subseteq Requests
    BY DEF Active, Made
  <2>. QED  BY <2>1, <2>2, <2>3, <2>4
<1>5. Grows
  BY <1>1, <1>2, <1>4 DEF Grows, SourceShape
<1>6. \A r \in Repos : Excused(r) => Excused(r)'
  <2> SUFFICES ASSUME NEW r \in Repos, Excused(r) PROVE Excused(r)'
    OBVIOUS
  <2>1. ASSUME NEW k \in Active PROVE k \in Active' /\ req'[k] = req[k]
    BY <1>3, <1>4
  <2>. QED  BY <2>1 DEF Excused
<1>7. Queued' /\ provisions' \in Seq([repo : Repos, proj : Projects])
  BY <1>1, <1>6, QueueStays DEF SourceInv
<1>8. SourceShape' /\ MappedIsMarked' /\ RefusedOnlyInACrowd'
  BY <1>1, <1>3, <1>5, <1>7 DEF SourceShape, Grows, SourceInv, MappedIsMarked, RefusedOnlyInACrowd
<1>9. ASSUME NEW k \in Active', NEW s, s = req'[k] PROVE Sound(s)'
  <2>1. s \in SourceReqs /\ Sound(s)
    <3>1. CASE k = i
      BY <1>3, <1>9, <3>1
    <3>2. CASE k # i
      <4>1. k \in Active /\ s = req[k]
        BY <1>3, <1>4, <1>9, <3>2
      <4>. QED  BY <1>1, <1>4, <4>1, ActiveRequests DEF SourceInv
    <3>. QED  BY <3>1, <3>2
  <2>. QED  BY <1>5, <1>6, <2>1, SoundStays
<1>10. ASSUME NEW k \in Active' \ crowded', NEW s, s = req'[k] PROVE Active' = {k} /\ Calm(s)'
  <2>1. Active = {}
    <3>1. CASE Active # {}
      BY <1>2, <1>4, <3>1
    <3>. QED  BY <3>1
  <2>2. k = i /\ s = q
    BY <1>3, <1>4, <1>10, <2>1
  <2>3. Calm(q)'
    BY DEF Calm, HasMarker
  <2>. QED  BY <1>4, <2>1, <2>2, <2>3
<1>11. \A k \in Active' : Sound(req[k])'
  <2> SUFFICES ASSUME NEW k \in Active' PROVE Sound(req[k])'
    OBVIOUS
  <2>1. PICK s : s = req'[k]
    OBVIOUS
  <2>2. Sound(s)'
    BY <1>9, <2>1
  <2>. QED  BY <2>1, <2>2 DEF Sound, Asking, Listing, Making, HasMarker, OneSource, Excused
<1>12. \A k \in Active' \ crowded' : Active' = {k} /\ Calm(req[k])'
  <2> SUFFICES ASSUME NEW k \in Active' \ crowded' PROVE Active' = {k} /\ Calm(req[k])'
    OBVIOUS
  <2>1. PICK s : s = req'[k]
    OBVIOUS
  <2>2. Active' = {k} /\ Calm(s)'
    BY <1>10, <2>1
  <2>. QED  BY <2>1, <2>2 DEF Calm, HasMarker
<1>. QED  BY <1>7, <1>8, <1>11, <1>12 DEF SourceInv

\* A table changes behind every request's back.
LEMMA TableChanges ==
    ASSUME SourceInv, Grows, UNCHANGED <<sonarOf, provisions, req, lost, troubles>>,
           crowded' = crowded \union Active, MappedIsMarked'
    PROVE  SourceInv'
<1>1. SourceShape /\ Active' = Active
  BY DEF SourceInv, Active, Made
<1>2. SourceShape'
  BY <1>1 DEF SourceShape, Grows
<1>3. \A r \in Repos : Excused(r) => Excused(r)'
  BY <1>1 DEF Excused, Grows
<1>4. Queued'
  BY <1>1, <1>3, QueueStays DEF SourceInv
<1>5. ASSUME NEW k \in Active' PROVE Sound(req[k])'
  <2>1. PICK s : s = req[k]
    OBVIOUS
  <2>2. s \in SourceReqs /\ Sound(s)
    <3>1. k \in Active /\ k \in Requests
      BY <1>1, <1>5 DEF Active, Made
    <3>. QED  BY <1>1, <2>1, <3>1, ActiveRequests DEF SourceInv
  <2>3. Sound(s)'
    BY <1>3, <2>2, SoundStays
  <2>4. s = req'[k]
    BY <2>1
  <2>. QED  BY <2>3, <2>4 DEF Sound, Asking, Listing, Making, HasMarker, OneSource, Excused
<1>6. Active' \ crowded' = {}
  BY <1>1
<1>7. RefusedOnlyInACrowd'
  BY DEF SourceInv, RefusedOnlyInACrowd
<1>. QED  BY <1>2, <1>4, <1>5, <1>6, <1>7 DEF SourceInv

LEMMA SyncAndAddKeep ==
    ASSUME SourceInv,
           (\E repos \in {Hub, Lab} : Sync(repos))
             \/ \E p \in Projects, m \in {"github", "gitlab", "sonar"} : AddIntegration(p, m)
    PROVE  SourceInv'
<1>1. SourceShape /\ MappedIsMarked /\ Active \subseteq Requests
  BY DEF SourceInv, Active, Made
<1>2. ASSUME NEW repos \in {Hub, Lab}, Sync(repos) PROVE SourceInv'
  <2>1. /\ mapping' = [r \in Repos |-> IF r \in repos /\ mapping[r] = Unrecorded THEN Unmapped ELSE mapping[r]]
        /\ crowded' = crowded \union Active /\ UNCHANGED <<marks, sonarOf, provisions, req, lost, troubles>>
    BY <1>2 DEF Sync
  <2>2. \A r \in Repos : mapping'[r] = mapping[r] \/ mapping'[r] = Unmapped
    BY <2>1
  <2>3. MappedIsMarked'
    BY <1>1, <2>1, <2>2, StatesAssumption DEF MappedIsMarked
  <2>4. \A r \in Repos : mapping[r] # Unrecorded => mapping'[r] # Unrecorded
    BY <2>2, StatesAssumption
  <2>5. mapping' \in [Repos -> Projects \union {Unrecorded, Unmapped}]
    BY <1>1, <2>1 DEF SourceShape
  <2>6. Grows
    BY <1>1, <2>1, <2>4, <2>5 DEF Grows, SourceShape
  <2>. QED  BY <2>1, <2>3, <2>6, TableChanges
<1>3. ASSUME NEW p \in Projects, NEW m \in {"github", "gitlab", "sonar"}, AddIntegration(p, m) PROVE SourceInv'
  <2>1. /\ marks' = marks \union {<<p, m>>} /\ crowded' = crowded \union Active
        /\ UNCHANGED <<mapping, sonarOf, provisions, req, lost, troubles>>
    BY <1>3 DEF AddIntegration
  <2>2. MappedIsMarked'
    BY <1>1, <2>1 DEF MappedIsMarked
  <2>3. Grows
    BY <1>1, <2>1 DEF Grows, SourceShape
  <2>. QED  BY <2>1, <2>2, <2>3, TableChanges
<1>. QED  BY <1>2, <1>3

LEMMA NothingYet == <<>> \in Seq(Repos) /\ {} \subseteq Repos /\ TRUE \in BOOLEAN /\ FALSE \in BOOLEAN
OBVIOUS

LEMMA AskMapKeeps ==
    ASSUME SourceInv, NEW r \in Repos, NEW p \in Projects, AskMap(r, p) \/ AskConnectPublic(r, p)
    PROVE  SourceInv'
<1>1. PICK at \in {"connect", "commit"} : at = IF <<p, Source(r)>> \in marks THEN "commit" ELSE "connect"
  OBVIOUS
<1>2. UNCHANGED <<mapping, marks, sonarOf, lost, troubles, provisions>>
  BY DEF AskMap, AskConnectPublic
<1>3. CASE AskMap(r, p)
  <2>1. PICK moves \in BOOLEAN : moves = (mapping[r] # p)
    BY Zenon
  <2>2. PICK q : q = [Request("map", r, p, at) EXCEPT !.moves = moves]
    BY Zenon
  <2>3. q \in SourceReqs /\ q.op = "map" /\ q.repo = r /\ q.proj = p /\ q.at = at
    <3>1. q \in SourceReqs
      BY <2>2, NothingYet DEF SourceOps, SourceReqs, Request
    <3>. QED  BY <2>2, <3>1 DEF Request
  <2>4. Begin(q) /\ mapping[r] # Unrecorded
    BY <1>1, <1>3, <2>1, <2>2 DEF AskMap
  <2>5. Sound(q) /\ Calm(q)
    BY <1>1, <2>3, <2>4 DEF Sound, Asking, Listing, Making, Calm, HasMarker
  <2>. QED  BY <1>2, <2>3, <2>4, <2>5, RequestBegins
<1>4. CASE AskConnectPublic(r, p)
  <2>1. r \in Open /\ Source(r) = "github"
    BY <1>4, ReposAssumption DEF AskConnectPublic, Source
  <2>2. PICK q : q = [Request("public", r, p, at) EXCEPT !.moves = TRUE]
    OBVIOUS
  <2>3. q \in SourceReqs /\ q.op = "public" /\ q.repo = r /\ q.proj = p /\ q.at = at /\ q.moves = TRUE
    <3>1. q \in SourceReqs
      BY <2>2, NothingYet DEF SourceOps, SourceReqs, Request
    <3>. QED  BY <2>2, <3>1 DEF Request
  <2>4. Begin(q) /\ mapping[r] = Unrecorded
    BY <1>1, <1>4, <2>1, <2>2 DEF AskConnectPublic
  <2>5. Sound(q) /\ Calm(q)
    BY <1>1, <2>3, <2>4 DEF Sound, Asking, Listing, Making, Calm, HasMarker
  <2>. QED  BY <1>2, <2>3, <2>4, <2>5, RequestBegins
<1>. QED  BY <1>3, <1>4

LEMMA AskBulkKeeps ==
    ASSUME SourceInv, NEW op \in {"bulk", "bulkpublic"}, NEW rs \in Lists, NEW p \in Projects, AskBulk(op, rs, p)
    PROVE  SourceInv'
<1>1. UNCHANGED <<mapping, marks, sonarOf, lost, troubles, provisions>>
  BY DEF AskBulk
<1>2. rs \in Seq(Repos) /\ rs # <<>> /\ rs[1] \in Repos /\ 1 \in DOMAIN rs
  <2>1. rs \in Seq(Repos) /\ rs # <<>>
    BY ListsAssumption DEF Repos
  <2>. QED  BY <2>1
<1>3. \A n \in DOMAIN rs : Source(rs[n]) = Source(rs[1])
  <2>1. PICK from \in {Hub, Lab, Open} : \A n \in DOMAIN rs : rs[n] \in from
    BY DEF AskBulk
  <2>. QED  BY <1>2, <2>1, ReposAssumption DEF Source
<1>4. PICK marked \in BOOLEAN : marked = (<<p, Source(rs[1])>> \in marks)
  <2>1. CASE <<p, Source(rs[1])>> \in marks
    <3>1. TRUE = (<<p, Source(rs[1])>> \in marks)
      BY <2>1, Zenon
    <3>. QED  BY <3>1, NothingYet, Zenon
  <2>2. CASE ~ (<<p, Source(rs[1])>> \in marks)
    <3>1. FALSE = (<<p, Source(rs[1])>> \in marks)
      BY <2>2, SMT
    <3>. QED  BY <3>1, NothingYet, Zenon
  <2>. QED  BY <2>1, <2>2
<1>5. PICK q : q = [Request(op, rs[1], p, "look") EXCEPT !.todo = rs, !.marked = marked]
  OBVIOUS
<1>6. /\ q \in SourceReqs /\ q.op = op /\ q.repo = rs[1] /\ q.proj = p /\ q.at = "look"
      /\ q.marked = marked /\ q.todo = rs /\ q.pending = {}
  <2>1. q \in SourceReqs
    BY <1>2, <1>5, NothingYet DEF SourceOps, SourceReqs, Request
  <2>. QED  BY <1>5, <2>1 DEF Request
<1>7. Begin(q)
  BY <1>4, <1>5 DEF AskBulk
<1>8. q.marked <=> HasMarker(q)
  BY <1>4, <1>6 DEF HasMarker
<1>9. OneSource(q)
  BY <1>3, <1>6 DEF OneSource
<1>10. Sound(q) /\ Calm(q)
  BY <1>6, <1>8, <1>9 DEF Sound, Asking, Listing, Making, Calm
<1>. QED  BY <1>1, <1>6, <1>7, <1>10, RequestBegins

LEMMA OthersBegin ==
    ASSUME SourceInv,
           \/ PickUp
           \/ \E r \in Repos : AskAnalyze(r) \/ AskRun(r) \/ \E p \in Projects : AskCreate(r, p)
    PROVE  SourceInv'
<1>1. SourceShape
  BY DEF SourceInv
<1>2. ASSUME NEW r \in Repos, NEW p \in Projects, NEW op \in {"provision", "analyze", "create", "run"},
             NEW at \in {"read", "create", "sha"}, Begin(Request(op, r, p, at)),
             UNCHANGED <<mapping, marks, sonarOf, lost, troubles>>,
             provisions' = provisions \/ (provisions # <<>> /\ provisions' = Tail(provisions)),
             at # "sha" => IF op = "provision" THEN Excused(r) ELSE mapping[r] # Unrecorded,
             at = "create" => sonarOf[r] = Unrecorded
      PROVE  SourceInv'
  <2>1. PICK q : q = Request(op, r, p, at)
    OBVIOUS
  <2>2. q \in SourceReqs /\ q.op = op /\ q.repo = r /\ q.proj = p /\ q.at = at
    <3>1. q \in SourceReqs
      BY <2>1, NothingYet DEF SourceOps, SourceReqs, Request
    <3>. QED  BY <2>1, <3>1 DEF Request
  <2>3. Sound(q) /\ Calm(q)
    BY <1>2, <2>2 DEF Sound, Asking, Listing, Making, Calm
  <2>. QED  BY <1>2, <2>1, <2>2, <2>3, RequestBegins
<1>3. CASE PickUp
  <2>1. provisions # <<>> /\ Head(provisions) \in [repo : Repos, proj : Projects]
        /\ Head(provisions) = provisions[1] /\ 1 \in DOMAIN provisions
    <3>1. provisions \in Seq([repo : Repos, proj : Projects]) /\ provisions # <<>>
      BY <1>1, <1>3 DEF PickUp, SourceShape
    <3> DEFINE Queue == [repo : Repos, proj : Projects]
    <3> HIDE DEF Queue
    <3>2. provisions \in Seq(Queue)
      BY <3>1 DEF Queue
    <3>3. Head(provisions) \in Queue /\ Head(provisions) = provisions[1] /\ 1 \in DOMAIN provisions
      BY <3>1, <3>2
    <3>. QED  BY <3>1, <3>3 DEF Queue
  <2>2. PICK r \in Repos, p \in Projects : r = Head(provisions).repo /\ p = Head(provisions).proj
    BY <2>1
  <2>3. Excused(r)
    BY <2>1, <2>2 DEF SourceInv, Queued
  <2>4. /\ Begin(Request("provision", r, p, "read")) /\ UNCHANGED <<mapping, marks, sonarOf, lost, troubles>>
        /\ provisions' = Tail(provisions)
    BY <1>3, <2>2 DEF PickUp
  <2>. QED  BY <1>2, <2>1, <2>3, <2>4
<1>4. ASSUME NEW r \in Repos, AskAnalyze(r) PROVE SourceInv'
  <2>1. PICK p \in Projects : p = mapping[r]
    BY <1>4 DEF AskAnalyze
  <2>2. mapping[r] # Unrecorded
    BY <2>1, StatesAssumption
  <2>3. Begin(Request("analyze", r, p, "read")) /\ UNCHANGED <<mapping, marks, sonarOf, lost, troubles, provisions>>
    BY <1>4, <2>1 DEF AskAnalyze
  <2>. QED  BY <1>2, <2>2, <2>3
<1>5. ASSUME NEW r \in Repos, AskRun(r) PROVE SourceInv'
  <2>1. PICK p \in Projects : p = sonarOf[r]
    BY <1>1, <1>5 DEF AskRun, SourceShape
  <2>2. Begin(Request("run", r, p, "sha")) /\ UNCHANGED <<mapping, marks, sonarOf, lost, troubles, provisions>>
    BY <1>5, <2>1 DEF AskRun
  <2>. QED  BY <1>2, <2>2
<1>6. ASSUME NEW r \in Repos, NEW p \in Projects, AskCreate(r, p) PROVE SourceInv'
  <2>1. mapping[r] # Unrecorded /\ sonarOf[r] = Unrecorded
    BY <1>6, StatesAssumption DEF AskCreate
  <2>2. Begin(Request("create", r, p, "create")) /\ UNCHANGED <<mapping, marks, sonarOf, lost, troubles, provisions>>
    BY <1>6 DEF AskCreate
  <2>. QED  BY <1>2, <2>1, <2>2
<1>. QED  BY <1>3, <1>4, <1>5, <1>6

LEMMA AtWork ==
    ASSUME SourceInv, NEW i \in Active
    PROVE  /\ req[i] \in SourceReqs /\ Sound(req[i]) /\ i \in Requests
           /\ i \notin crowded => Active = {i} /\ Calm(req[i])
<1>1. i \in Requests
  BY DEF Active, Made
<1>. QED  BY <1>1, ActiveRequests DEF SourceInv

\* A request that only comes to another place.
LEMMA ComesTo ==
    ASSUME SourceInv, NEW i \in Active, NEW q, q = req[i], NEW at, Goes(i, at),
           at \in {"connect", "commit", "look", "take", "read", "create", "row", "sha"}
    PROVE  \E to \in SourceReqs :
              /\ req' = [req EXCEPT ![i] = to] /\ to.at = at /\ to.op = q.op /\ to.repo = q.repo /\ to.proj = q.proj
              /\ to.marked = q.marked /\ to.moves = q.moves /\ to.todo = q.todo /\ to.pending = q.pending
<1>1. q \in SourceReqs
  BY AtWork
<1> DEFINE to == [q EXCEPT !.at = at]
<1>2. req' = [req EXCEPT ![i] = to]
  BY DEF Goes
<1>3. /\ to \in SourceReqs /\ to.at = at /\ to.op = q.op /\ to.repo = q.repo /\ to.proj = q.proj
      /\ to.marked = q.marked /\ to.moves = q.moves /\ to.todo = q.todo /\ to.pending = q.pending
  BY <1>1 DEF SourceReqs
<1>. QED  BY <1>2, <1>3

LEMMA TablesStand ==
    ASSUME SourceInv, UNCHANGED <<mapping, marks, sonarOf, crowded>>, lost \subseteq lost',
           troubles' \in Nat, troubles > 0 => troubles' > 0
    PROVE  Grows /\ MappedIsMarked'
BY DEF SourceInv, SourceShape, Grows, MappedIsMarked

LEMMA RefusalKeeps ==
    ASSUME SourceInv, NEW i \in Active, NEW why, Refused(i, why), UNCHANGED <<provisions, crowded, troubles>>,
           \/ why = "key" \/ i \in crowded
           \/ why = "repo" /\ (troubles > 0 \/ \E k \in lost : k.op = "bulkpublic")
    PROVE  SourceInv'
<1>1. PICK e : e = [id |-> i, op |-> req[i].op, why |-> why]
  OBVIOUS
<1>2. /\ req' = [req EXCEPT ![i] = Closed] /\ lost' = lost \union {e}
      /\ UNCHANGED <<mapping, marks, sonarOf>>
  BY <1>1 DEF Refused, Ends, Closed, tables
<1>3. troubles' \in Nat /\ lost \subseteq lost'
  BY <1>2 DEF SourceInv, SourceShape
<1>4. Grows /\ MappedIsMarked'
  BY <1>2, <1>3, TablesStand
<1>5. RefusedOnlyInACrowd'
  <2>1. ASSUME NEW x \in lost
        PROVE  \/ x.why = "key" \/ x.id \in crowded
               \/ x.why = "repo" /\ (troubles > 0 \/ \E k \in lost' : k.op = "bulkpublic")
    BY <1>2 DEF SourceInv, RefusedOnlyInACrowd
  <2>2. \/ e.why = "key" \/ e.id \in crowded
        \/ e.why = "repo" /\ (troubles > 0 \/ \E k \in lost' : k.op = "bulkpublic")
    BY <1>1, <1>2
  <2>. QED  BY <1>2, <2>1, <2>2 DEF RefusedOnlyInACrowd
<1>6. StillExcused(i, Closed)
  BY <1>1, <1>2 DEF StillExcused
<1>7. Closed \notin SourceReqs
  BY DEF Closed, SourceReqs
<1>. QED  BY <1>2, <1>4, <1>5, <1>6, <1>7, RequestGoesOn

LEMMA LostStands ==
    ASSUME SourceInv, UNCHANGED <<lost, crowded>>, troubles > 0 => troubles' > 0
    PROVE  RefusedOnlyInACrowd'
BY DEF SourceInv, RefusedOnlyInACrowd

\* A request that ends leaves nothing behind that another one counts on.
LEMMA EndKeeps ==
    ASSUME SourceInv, NEW i \in Active, Ends(i), UNCHANGED <<provisions, lost, crowded>>, Grows, MappedIsMarked',
           \A r \in req[i].pending : req[i].op = "bulkpublic" => mapping'[r] # Unrecorded \/ troubles' > 0
    PROVE  SourceInv'
<1>1. req' = [req EXCEPT ![i] = Closed] /\ Closed \notin SourceReqs
  BY DEF Ends, Closed, SourceReqs
<1>2. RefusedOnlyInACrowd'
  BY LostStands DEF Grows
<1>3. StillExcused(i, Closed)
  BY DEF StillExcused
<1>. QED  BY <1>1, <1>2, <1>3, RequestGoesOn

\* Mapping repositories to a project whose marker is there.
LEMMA MappingKeeps ==
    ASSUME SourceInv, NEW rs \in SUBSET Repos, NEW p \in Projects, mapping' = Mapped(rs, p),
           marks \subseteq marks', \A r \in rs : <<p, Source(r)>> \in marks', UNCHANGED <<sonarOf, lost, crowded, troubles>>
    PROVE  Grows /\ MappedIsMarked' /\ \A r \in rs : mapping'[r] # Unrecorded
<1>1. \A r \in Repos : mapping'[r] = IF r \in rs THEN p ELSE mapping[r]
  BY DEF Mapped
<1>2. p # Unrecorded
  BY StatesAssumption
<1>3. mapping' \in [Repos -> Projects \union {Unrecorded, Unmapped}]
  BY DEF SourceInv, SourceShape, Mapped
<1>4. MappedIsMarked'
  BY <1>1 DEF SourceInv, MappedIsMarked
<1>. QED  BY <1>1, <1>2, <1>3, <1>4 DEF SourceInv, SourceShape, Grows

LEMMA ConnectKeeps == ASSUME SourceInv, NEW i \in Active, Connect(i) PROVE SourceInv'
<1>1. PICK q : q = req[i]
  OBVIOUS
<1>2. /\ q \in SourceReqs /\ Sound(q) /\ q.at \in {"connect", "commit"} /\ UNCHANGED <<provisions, crowded, troubles>>
      /\ i \notin crowded => Calm(q)
  BY <1>1, AtWork DEF Connect
<1>3. q.repo \in Repos /\ q.proj \in Projects /\ q.op \in {"map", "public"}
  BY <1>2 DEF SourceReqs, Sound, Asking
<1>4. CASE q.at = "connect" /\ HasMarker(q) /\ Refused(i, "marker")
  <2>1. i \in crowded
    BY <1>2, <1>4 DEF Calm
  <2>. QED  BY <1>2, <1>4, <2>1, RefusalKeeps
<1>5. CASE NameTaken(q) /\ Refused(i, "name")
  <2>1. i \in crowded
    BY <1>2, <1>5 DEF Calm, NameTaken
  <2>. QED  BY <1>2, <1>5, <2>1, RefusalKeeps
<1>6. CASE /\ mapping' = IF q.moves THEN Mapped({q.repo}, q.proj) ELSE mapping
           /\ marks' = IF q.at = "connect" THEN Connects(q) ELSE marks
           /\ Goes(i, "read") /\ UNCHANGED <<sonarOf, lost>>
  <2>1. marks \subseteq marks' /\ <<q.proj, Source(q.repo)>> \in marks'
    BY <1>2, <1>6 DEF Connects, Sound, Asking, HasMarker
  <2>2. Grows /\ MappedIsMarked' /\ mapping'[q.repo] # Unrecorded
    <3>1. CASE q.moves
      <4>1. mapping' = Mapped({q.repo}, q.proj)
        BY <1>6, <3>1
      <4>. QED  BY <1>2, <1>3, <1>6, <2>1, <4>1, MappingKeeps
    <3>2. CASE ~q.moves
      <4>1. mapping' = mapping /\ mapping[q.repo] # Unrecorded
        BY <1>2, <1>3, <1>6, <3>2 DEF Sound, Asking
      <4>2. MappedIsMarked'
        BY <1>6, <2>1, <4>1 DEF SourceInv, MappedIsMarked
      <4>. QED  BY <1>2, <1>6, <2>1, <4>1, <4>2 DEF SourceInv, SourceShape, Grows
    <3>. QED  BY <3>1, <3>2
  <2>3. PICK to \in SourceReqs : /\ req' = [req EXCEPT ![i] = to] /\ to.at = "read" /\ to.op = q.op /\ to.repo = q.repo
    BY <1>1, <1>6, ComesTo
  <2>4. Sound(to)' /\ Calm(to)'
    BY <1>3, <2>2, <2>3 DEF Sound, Asking, Listing, Making, Calm
  <2>5. StillExcused(i, to)
    BY <1>1, <1>3 DEF StillExcused
  <2>6. RefusedOnlyInACrowd'
    BY <1>2, <1>6, LostStands
  <2>. QED  BY <1>2, <2>2, <2>3, <2>4, <2>5, <2>6, RequestGoesOn
<1>. QED  BY <1>1, <1>4, <1>5, <1>6 DEF Connect, HasMarker

LEMMA LookKeeps == ASSUME SourceInv, NEW i \in Active, BulkLook(i) PROVE SourceInv'
<1>1. PICK q : q = req[i]
  OBVIOUS
<1>2. /\ q \in SourceReqs /\ Sound(q) /\ q.at = "look" /\ q.todo # <<>> /\ (i \notin crowded => Calm(q))
      /\ UNCHANGED <<mapping, marks, sonarOf, lost, crowded, troubles, provisions>>
  BY <1>1, AtWork DEF BulkLook
<1>3. PICK moves \in BOOLEAN : moves = (mapping[Head(q.todo)] # q.proj)
  BY Zenon
<1>4. PICK to : /\ req' = [req EXCEPT ![i] = to]
                /\ to = IF Skips(q) THEN [q EXCEPT !.todo = Tail(q.todo)]
                        ELSE [q EXCEPT !.at = "take", !.repo = Head(q.todo), !.todo = Tail(q.todo), !.moves = moves]
  BY <1>1, <1>3 DEF BulkLook
<1>5. /\ q.todo \in Seq(Repos) /\ Head(q.todo) \in Repos /\ Tail(q.todo) \in Seq(Repos)
      /\ Head(q.todo) = q.todo[1] /\ 1 \in DOMAIN q.todo
      /\ \A n \in DOMAIN Tail(q.todo) : n + 1 \in DOMAIN q.todo /\ Tail(q.todo)[n] = q.todo[n + 1]
  <2>1. q.todo \in Seq(Repos)
    BY <1>2 DEF SourceReqs
  <2>. QED  BY <1>2, <2>1
<1>6. /\ to \in SourceReqs /\ to.op = q.op /\ to.proj = q.proj /\ to.marked = q.marked /\ to.pending = q.pending
      /\ to.todo = Tail(q.todo)
      /\ \/ to.at = "look" /\ to.repo = q.repo
         \/ to.at = "take" /\ to.repo = Head(q.todo) /\ ~Skips(q) /\ to.moves = moves
  <2>1. CASE Skips(q)
    BY <1>2, <1>4, <1>5, <2>1 DEF SourceReqs
  <2>2. CASE ~Skips(q)
    BY <1>2, <1>4, <1>5, <2>2 DEF SourceReqs
  <2>. QED  BY <2>1, <2>2
<1>7. OneSource(q) /\ (IF q.marked THEN HasMarker(q) ELSE q.pending = {}) /\ q.op \in {"bulk", "bulkpublic"}
  BY <1>2 DEF Sound, Listing
<1>8. Source(to.repo) = Source(q.repo)
  BY <1>5, <1>6, <1>7 DEF OneSource
<1>9. OneSource(to) /\ (HasMarker(to) <=> HasMarker(q))
  BY <1>5, <1>6, <1>7, <1>8 DEF OneSource, HasMarker
<1>10. to.at = "take" => /\ to.op = "bulk" => mapping[to.repo] # Unrecorded
                         /\ to.op = "bulkpublic" => mapping[to.repo] = Unrecorded /\ to.moves
  <2> SUFFICES ASSUME to.at = "take"
               PROVE  /\ to.op = "bulk" => mapping[to.repo] # Unrecorded
                      /\ to.op = "bulkpublic" => mapping[to.repo] = Unrecorded /\ to.moves
    OBVIOUS
  <2>1. ~Skips(q) /\ to.repo = Head(q.todo) /\ to.op = q.op /\ to.moves = moves
    BY <1>6
  <2>2. q.proj \in Projects
    BY <1>2 DEF SourceReqs
  <2>3. to.op = "bulk" => mapping[to.repo] # Unrecorded
    BY <2>1, <2>2, StatesAssumption DEF Skips
  <2>4. to.op = "bulkpublic" => mapping[to.repo] = Unrecorded
    BY <1>7, <2>1 DEF Skips
  <2>5. mapping[to.repo] = Unrecorded => moves
    BY <1>3, <2>1, <2>2, StatesAssumption
  <2>. QED  BY <2>1, <2>3, <2>4, <2>5
<1>11. Sound(to) /\ (i \notin crowded => Calm(to))
  BY <1>2, <1>6, <1>7, <1>9, <1>10 DEF Sound, Asking, Listing, Making, Calm
<1>12. Grows /\ MappedIsMarked' /\ RefusedOnlyInACrowd'
  BY <1>2, TablesStand, LostStands DEF SourceInv, SourceShape
<1>13. Sound(to)' /\ (i \notin crowded => Calm(to)')
  <2>1. Calm(to) => Calm(to)'
    BY <1>2 DEF Calm, HasMarker
  <2>2. Sound(to)'
    BY <1>2, <1>6, <1>7, <1>11 DEF Sound, Asking, Listing, Making, OneSource, HasMarker
  <2>. QED  BY <1>11, <2>1, <2>2
<1>14. StillExcused(i, to)
  BY <1>1, <1>6 DEF StillExcused
<1>. QED  BY <1>2, <1>4, <1>6, <1>12, <1>13, <1>14, RequestGoesOn

LEMMA TakeKeeps == ASSUME SourceInv, NEW i \in Active, BulkTake(i) PROVE SourceInv'
<1>1. PICK q, r, later : q = req[i] /\ r = q.repo /\ later = IF q.moves THEN q.pending \union {r} ELSE q.pending
  OBVIOUS
<1>2. /\ q \in SourceReqs /\ Sound(q) /\ q.at = "take" /\ (i \notin crowded => Calm(q))
      /\ UNCHANGED <<crowded, troubles>>
  BY <1>1, AtWork DEF BulkTake
<1>3. /\ OneSource(q) /\ (IF q.marked THEN HasMarker(q) ELSE q.pending = {}) /\ q.op \in {"bulk", "bulkpublic"}
      /\ q.op = "bulk" => mapping[r] # Unrecorded
      /\ q.op = "bulkpublic" => q.moves
  BY <1>1, <1>2 DEF Sound, Listing
<1>4. r \in Repos /\ q.proj \in Projects /\ later \in SUBSET Repos /\ q.pending \subseteq later
      /\ \A s \in later : Source(s) = Source(r)
  BY <1>1, <1>2, <1>3 DEF SourceReqs, OneSource
<1>5. CASE q.op = "bulkpublic" /\ mapping[r] # Unrecorded /\ Refused(i, "name") /\ UNCHANGED provisions
  <2>1. i \in crowded
    BY <1>1, <1>2, <1>5 DEF Calm
  <2>. QED  BY <1>2, <1>5, <2>1, RefusalKeeps
<1>6. CASE ~q.marked /\ <<q.proj, Source(r)>> \in marks /\ Refused(i, "marker") /\ UNCHANGED provisions
  <2>1. i \in crowded
    BY <1>1, <1>2, <1>6 DEF Calm, HasMarker
  <2>. QED  BY <1>2, <1>6, <2>1, RefusalKeeps
<1>7. CASE /\ q.marked /\ req' = [req EXCEPT ![i] = [q EXCEPT !.pending = later, !.at = "look"]]
           /\ provisions' = Append(provisions, [repo |-> r, proj |-> q.proj]) /\ UNCHANGED <<tables, lost>>
  <2>1. PICK to : to = [q EXCEPT !.pending = later, !.at = "look"]
    OBVIOUS
  <2>2. /\ to \in SourceReqs /\ to.op = q.op /\ to.at = "look" /\ to.repo = r /\ to.proj = q.proj
        /\ to.marked = q.marked /\ to.todo = q.todo /\ to.pending = later
    BY <1>1, <1>2, <1>4, <2>1 DEF SourceReqs
  <2>3. UNCHANGED <<mapping, marks, sonarOf, lost>> /\ req' = [req EXCEPT ![i] = to]
    BY <1>7, <2>1 DEF tables
  <2>4. Grows /\ MappedIsMarked' /\ RefusedOnlyInACrowd'
    BY <1>2, <2>3, TablesStand, LostStands DEF SourceInv, SourceShape
  <2>5. OneSource(to) /\ HasMarker(to)'
    BY <1>1, <1>3, <1>4, <1>7, <2>2, <2>3 DEF OneSource, HasMarker
  <2>6. Sound(to)' /\ Calm(to)'
    BY <1>3, <1>7, <2>2, <2>5 DEF Sound, Asking, Listing, Making, OneSource, Calm
  <2>7. StillExcused(i, to)
    BY <1>1, <1>4, <2>2 DEF StillExcused
  <2>8. Excused(r)'
    <3>1. CASE q.op = "bulk"
      BY <1>3, <2>3, <3>1 DEF Excused
    <3>2. CASE q.op = "bulkpublic"
      <4>1. r \in to.pending /\ to.op = "bulkpublic"
        BY <1>1, <1>3, <2>2, <3>2
      <4>2. i \in Requests /\ req'[i] = to
        BY <2>3, AtWork DEF SourceInv, SourceShape
      <4>3. i \in Active'
        BY <2>2, <4>2 DEF Active, Made
      <4>. QED  BY <4>1, <4>2, <4>3 DEF Excused
    <3>. QED  BY <1>3, <3>1, <3>2
  <2>. QED  BY <1>2, <1>4, <1>7, <2>2, <2>3, <2>4, <2>6, <2>7, <2>8, RequestGoesOn
<1>8. CASE /\ ~q.marked /\ marks' = Connects(q) /\ mapping' = Mapped(later, q.proj)
           /\ req' = [req EXCEPT ![i] = [q EXCEPT !.pending = {}, !.marked = TRUE, !.at = "look"]]
           /\ provisions' = Append(provisions, [repo |-> r, proj |-> q.proj]) /\ UNCHANGED <<sonarOf, lost>>
  <2>1. PICK to : to = [q EXCEPT !.pending = {}, !.marked = TRUE, !.at = "look"]
    OBVIOUS
  <2>2. /\ to \in SourceReqs /\ to.op = q.op /\ to.at = "look" /\ to.repo = r /\ to.proj = q.proj
        /\ to.marked = TRUE /\ to.todo = q.todo /\ to.pending = {}
    BY <1>1, <1>2, <1>4, <2>1 DEF SourceReqs
  <2>3. marks \subseteq marks' /\ <<q.proj, Source(r)>> \in marks' /\ req' = [req EXCEPT ![i] = to]
    BY <1>1, <1>8, <2>1 DEF Connects
  <2>4. Grows /\ MappedIsMarked' /\ \A s \in later : mapping'[s] # Unrecorded
    <3>1. \A s \in later : <<q.proj, Source(s)>> \in marks'
      BY <1>4, <2>3
    <3>. QED  BY <1>2, <1>4, <1>8, <2>3, <3>1, MappingKeeps
  <2>5. RefusedOnlyInACrowd'
    BY <1>2, <1>8, LostStands
  <2>6. OneSource(to) /\ HasMarker(to)'
    BY <1>1, <1>3, <2>2, <2>3 DEF OneSource, HasMarker
  <2>7. Sound(to)' /\ Calm(to)'
    BY <1>3, <2>2, <2>6 DEF Sound, Asking, Listing, Making, OneSource, Calm
  <2>8. StillExcused(i, to)
    BY <1>1, <1>4, <2>4 DEF StillExcused
  <2>9. Excused(r)'
    <3>1. mapping'[r] # Unrecorded
      BY <1>1, <1>3, <1>4, <2>4 DEF Grows
    <3>. QED  BY <3>1 DEF Excused
  <2>. QED  BY <1>2, <1>4, <1>8, <2>2, <2>3, <2>4, <2>5, <2>7, <2>8, <2>9, RequestGoesOn
<1>. QED  BY <1>1, <1>5, <1>6, <1>7, <1>8 DEF BulkTake

LEMMA EndAndDeadlockKeep ==
    ASSUME SourceInv, NEW i \in Active, BulkEnd(i) \/ BulkDeadlock(i)
    PROVE  SourceInv'
<1>1. PICK q : q = req[i]
  OBVIOUS
<1>2. q \in SourceReqs /\ Sound(q) /\ i \in Requests /\ (i \notin crowded => Active = {i})
  BY <1>1, AtWork
<1>3. CASE BulkEnd(i)
  <2>1. /\ q.at = "look" /\ Ends(i) /\ mapping' = Mapped(q.pending, q.proj)
        /\ UNCHANGED <<marks, sonarOf, provisions, crowded, lost, troubles>>
    BY <1>1, <1>3 DEF BulkEnd
  <2>2. q.pending \in SUBSET Repos /\ q.proj \in Projects
    BY <1>2 DEF SourceReqs
  <2>3. \A r \in q.pending : <<q.proj, Source(r)>> \in marks'
    BY <1>2, <2>1 DEF Sound, Listing, OneSource, HasMarker
  <2>4. Grows /\ MappedIsMarked' /\ \A r \in q.pending : mapping'[r] # Unrecorded
    BY <2>1, <2>2, <2>3, MappingKeeps
  <2>. QED  BY <1>1, <2>1, <2>4, EndKeeps
<1>4. CASE BulkDeadlock(i)
  <2>1. /\ Active # {i} /\ Refused(i, "deadlock") /\ UNCHANGED <<provisions, crowded, troubles>>
    BY <1>4 DEF BulkDeadlock
  <2>. QED  BY <1>2, <2>1, RefusalKeeps
<1>. QED  BY <1>3, <1>4

LEMMA ProvisioningKeeps ==
    ASSUME SourceInv, NEW i \in Active, ReadExisting(i) \/ CreateSonarSide(i) \/ EnqueueAnalysis(i)
    PROVE  SourceInv'
<1>1. PICK q : q = req[i]
  OBVIOUS
<1>2. /\ q \in SourceReqs /\ Sound(q) /\ (i \notin crowded => Calm(q))
      /\ UNCHANGED <<mapping, marks, sonarOf, crowded, lost, troubles, provisions>>
      /\ q.at \in {"read", "create", "sha"}
  BY <1>1, AtWork DEF ReadExisting, CreateSonarSide, EnqueueAnalysis
<1>3. Grows /\ MappedIsMarked' /\ RefusedOnlyInACrowd'
  BY <1>2, TablesStand, LostStands DEF SourceInv, SourceShape
<1>4. q.op \notin {"bulk", "bulkpublic"}
  BY <1>2 DEF Sound, Making
<1>5. CASE EnqueueAnalysis(i)
  <2>1. Ends(i)
    BY <1>5 DEF EnqueueAnalysis
  <2>. QED  BY <1>1, <1>2, <1>3, <1>4, <2>1, EndKeeps
<1>6. ASSUME NEW to \in SourceReqs, req' = [req EXCEPT ![i] = to], to.at \in {"create", "row", "sha"}, q.at # "sha",
             to.op = q.op, to.repo = q.repo, i \notin crowded => Calm(to)
      PROVE  SourceInv'
  <2>1. Sound(to)
    BY <1>2, <1>4, <1>6 DEF Sound, Asking, Listing, Making
  <2>2. StillExcused(i, to)
    BY <1>1, <1>4 DEF StillExcused
  <2>3. SourceShape'
    BY <1>2, <1>6 DEF SourceInv, SourceShape
  <2>4. \A r \in Repos : Excused(r) => Excused(r)'
    BY <1>3, <1>6, <2>2, <2>3, ExcusesStay DEF SourceInv
  <2>5. Sound(to)'
    BY <1>3, <2>1, <2>4, SoundStays
  <2>6. Calm(to) => Calm(to)'
    BY <1>2 DEF Calm, HasMarker
  <2>. QED  BY <1>2, <1>3, <1>6, <2>2, <2>5, <2>6, RequestGoesOn
<1>7. CASE ReadExisting(i)
  <2>1. PICK at \in {"create", "sha"} : at = IF sonarOf[q.repo] = Unrecorded THEN "create" ELSE "sha"
    OBVIOUS
  <2>2. Goes(i, at) /\ q.at = "read"
    BY <1>1, <1>7, <2>1 DEF ReadExisting
  <2>3. PICK to \in SourceReqs : /\ req' = [req EXCEPT ![i] = to] /\ to.at = at /\ to.op = q.op /\ to.repo = q.repo
    BY <1>1, <2>2, ComesTo
  <2>4. Calm(to)
    BY <1>4, <2>1, <2>3 DEF Calm
  <2>. QED  BY <1>6, <2>2, <2>3, <2>4
<1>8. CASE CreateSonarSide(i)
  <2>1. PICK marked \in BOOLEAN : marked = (<<q.proj, "sonar">> \in marks)
    <3>1. CASE <<q.proj, "sonar">> \in marks
      <4>1. TRUE = (<<q.proj, "sonar">> \in marks)
        BY <3>1, SMT
      <4>. QED  BY <4>1, NothingYet, Zenon
    <3>2. CASE <<q.proj, "sonar">> \notin marks
      <4>1. FALSE = (<<q.proj, "sonar">> \in marks)
        BY <3>2, SMT
      <4>. QED  BY <4>1, NothingYet, Zenon
    <3>. QED  BY <3>1, <3>2
  <2>2. PICK to : to = [q EXCEPT !.at = "row", !.marked = marked]
    OBVIOUS
  <2>3. to \in SourceReqs /\ to.at = "row" /\ to.op = q.op /\ to.repo = q.repo /\ to.proj = q.proj /\ to.marked = marked
    BY <1>2, <2>2 DEF SourceReqs
  <2>4. req' = [req EXCEPT ![i] = to] /\ q.at = "create"
    <3>1. req' = [req EXCEPT ![i].at = "row", ![i].marked = marked]
      BY <1>1, <1>8, <2>1 DEF CreateSonarSide, HasSonar
    <3>2. i \in DOMAIN req
      BY AtWork DEF SourceInv, SourceShape
    <3>. QED  BY <1>1, <1>8, <2>2, <3>1, <3>2 DEF CreateSonarSide
  <2>5. i \notin crowded => Calm(to)
    BY <1>2, <1>4, <2>1, <2>3, <2>4 DEF Calm
  <2>. QED  BY <1>6, <2>3, <2>4, <2>5
<1>. QED  BY <1>5, <1>7, <1>8

LEMMA RowKeeps == ASSUME SourceInv, NEW i \in Active, CreateRow(i) PROVE SourceInv'
<1>1. PICK q : q = req[i]
  OBVIOUS
<1>2. /\ q \in SourceReqs /\ Sound(q) /\ q.at = "row" /\ UNCHANGED <<provisions, crowded, troubles>>
      /\ (i \notin crowded => Active = {i} /\ Calm(q))
  BY <1>1, AtWork DEF CreateRow
<1>3. q.op \notin {"bulk", "bulkpublic"} /\ q.repo \in Repos /\ q.proj \in Projects
  BY <1>2 DEF Sound, Making, SourceReqs
<1>4. ASSUME NEW w \in Refusals(q), Refused(i, w) PROVE SourceInv'
  <2>1. w \in {"marker", "repo", "row", "key"}
    BY <1>4 DEF Refusals
  <2>2. w = "marker" => i \in crowded
    <3>1. w = "marker" => ~q.marked /\ <<q.proj, "sonar">> \in marks
      BY <1>4 DEF Refusals
    <3>. QED  BY <1>2, <3>1 DEF Calm
  <2>3. w = "row" => i \in crowded
    <3>1. w = "row" => sonarOf[q.repo] # Unrecorded
      BY <1>4 DEF Refusals
    <3>. QED  BY <1>2, <3>1 DEF Calm
  <2>4. w = "repo" => i \in crowded \/ troubles > 0 \/ \E k \in lost : k.op = "bulkpublic"
    <3> SUFFICES ASSUME w = "repo", Active = {i} PROVE troubles > 0 \/ \E k \in lost : k.op = "bulkpublic"
      BY <1>2
    <3>1. mapping[q.repo] = Unrecorded
      BY <1>4 DEF Refusals
    <3>2. Excused(q.repo)
      BY <1>2, <3>1 DEF Sound, Making
    <3>. QED  BY <1>1, <1>3, <3>1, <3>2 DEF Excused
  <2>. QED  BY <1>2, <1>4, <2>1, <2>2, <2>3, <2>4, RefusalKeeps
<1>5. ASSUME sonarOf' = [sonarOf EXCEPT ![q.repo] = q.proj], marks' = marks \union {<<q.proj, "sonar">>},
             Ends(i) \/ Goes(i, "sha"), UNCHANGED <<mapping, lost>>
      PROVE  SourceInv'
  <2>1. Grows
    BY <1>2, <1>3, <1>5 DEF SourceInv, SourceShape, Grows
  <2>2. MappedIsMarked'
    <3>1. \A r \in Repos : sonarOf'[r] = IF r = q.repo THEN q.proj ELSE sonarOf[r]
      BY <1>3, <1>5 DEF SourceInv, SourceShape
    <3> SUFFICES ASSUME NEW r \in Repos
                 PROVE  /\ mapping'[r] \in Projects => <<mapping'[r], Source(r)>> \in marks'
                        /\ sonarOf'[r] # Unrecorded => <<sonarOf'[r], "sonar">> \in marks'
      BY DEF MappedIsMarked
    <3>2. /\ mapping[r] \in Projects => <<mapping[r], Source(r)>> \in marks
          /\ sonarOf[r] # Unrecorded => <<sonarOf[r], "sonar">> \in marks
      BY DEF SourceInv, MappedIsMarked
    <3>3. mapping'[r] \in Projects => <<mapping'[r], Source(r)>> \in marks'
      BY <1>5, <3>2
    <3>4. sonarOf'[r] # Unrecorded => <<sonarOf'[r], "sonar">> \in marks'
      BY <1>5, <3>1, <3>2
    <3>. QED  BY <3>3, <3>4
  <2>3. CASE Ends(i)
    BY <1>1, <1>2, <1>3, <1>5, <2>1, <2>2, <2>3, EndKeeps
  <2>4. CASE Goes(i, "sha")
    <3>1. PICK to \in SourceReqs : /\ req' = [req EXCEPT ![i] = to] /\ to.at = "sha" /\ to.op = q.op
      BY <1>1, <2>4, ComesTo
    <3>2. Sound(to)' /\ Calm(to)'
      BY <1>3, <3>1 DEF Sound, Asking, Listing, Making, Calm
    <3>3. StillExcused(i, to) /\ RefusedOnlyInACrowd'
      BY <1>1, <1>2, <1>3, <1>5, LostStands DEF StillExcused
    <3>. QED  BY <1>2, <2>1, <2>2, <3>1, <3>2, <3>3, RequestGoesOn
  <2>. QED  BY <1>5, <2>3, <2>4
<1>. QED  BY <1>1, <1>4, <1>5 DEF CreateRow

LEMMA FailureKeeps == ASSUME SourceInv, NEW i \in Requests, FailRequest(i) PROVE SourceInv'
<1>1. PICK q : q = req[i]
  OBVIOUS
<1>2. /\ i \in Active /\ troubles' = troubles + 1
      /\ UNCHANGED <<mapping, marks, sonarOf, provisions, crowded, lost>>
  BY DEF FailRequest
<1>3. q \in SourceReqs /\ Sound(q) /\ (i \notin crowded => Calm(q)) /\ troubles \in Nat
  BY <1>1, <1>2, AtWork DEF SourceInv, SourceShape
<1>4. troubles' > 0 /\ troubles' \in Nat
  BY <1>2, <1>3
<1>5. Grows /\ MappedIsMarked' /\ RefusedOnlyInACrowd'
  BY <1>2, <1>4, TablesStand, LostStands
<1>6. CASE Ends(i)
  BY <1>1, <1>2, <1>4, <1>5, <1>6, EndKeeps
<1>7. CASE LeavesOut(i) /\ Goes(i, "look")
  <2>1. q.at = "take" /\ q.op = "bulkpublic"
    BY <1>1, <1>7 DEF LeavesOut
  <2>2. PICK to \in SourceReqs :
           /\ req' = [req EXCEPT ![i] = to] /\ to.at = "look" /\ to.op = q.op /\ to.repo = q.repo /\ to.proj = q.proj
           /\ to.marked = q.marked /\ to.todo = q.todo /\ to.pending = q.pending
    BY <1>1, <1>2, <1>7, ComesTo
  <2>3. Sound(to)'
    BY <1>2, <1>3, <2>1, <2>2 DEF Sound, Asking, Listing, Making, OneSource, HasMarker
  <2>4. i \notin crowded => Calm(to)'
    BY <1>2, <1>3, <2>1, <2>2 DEF Calm, HasMarker
  <2>5. StillExcused(i, to)
    BY <1>4 DEF StillExcused
  <2>. QED  BY <1>2, <1>5, <2>2, <2>3, <2>4, <2>5, RequestGoesOn
<1>. QED  BY <1>6, <1>7 DEF FailRequest

LEMMA SourceStart == SourceInit => SourceInv
<1> SUFFICES ASSUME SourceInit PROVE SourceInv
  OBVIOUS
<1>1. /\ mapping = [r \in Repos |-> Unrecorded] /\ sonarOf = [r \in Repos |-> Unrecorded] /\ provisions = <<>>
      /\ req = [i \in Requests |-> Unmade] /\ crowded = {} /\ troubles = 0 /\ lost = {}
  BY DEF SourceInit
<1>2. SourceShape
  BY <1>1 DEF SourceShape
<1>3. Active = {}
  BY <1>1 DEF Active, Made, Unmade
<1>4. MappedIsMarked /\ RefusedOnlyInACrowd /\ Queued
  BY <1>1, StatesAssumption DEF MappedIsMarked, RefusedOnlyInACrowd, Queued
<1>. QED  BY <1>2, <1>3, <1>4 DEF SourceInv

LEMMA SourceStep == SourceInv /\ [SourceNext]_srcVars => SourceInv'
<1> SUFFICES ASSUME SourceInv, [SourceNext]_srcVars PROVE SourceInv'
  OBVIOUS
<1>1. CASE UNCHANGED srcVars
  BY <1>1 DEF srcVars, SourceInv, SourceShape, MappedIsMarked, RefusedOnlyInACrowd, Queued, Excused, Active, Made,
              Sound, Asking, Listing, Making, Calm, HasMarker, OneSource
<1>2. ASSUME NEW i \in Requests, Advance(i) PROVE SourceInv'
  BY <1>2, ConnectKeeps, LookKeeps, TakeKeeps, EndAndDeadlockKeep, ProvisioningKeeps, RowKeeps DEF Advance
<1>. QED
  BY <1>1, <1>2, SyncAndAddKeep, AskMapKeeps, AskBulkKeeps, OthersBegin, FailureKeeps DEF SourceNext

(***************************************************************************)
(* A repository is mapped to, and has a Sonar project in, projects that    *)
(* have the integration only; and the database refuses a request nobody    *)
(* overlapped only for a shared Sonar key, or a row a bulk request failed  *)
(* to make.                                                                *)
(***************************************************************************)
THEOREM MarkersHoldCorrect == SourceSpec => []MarkersHold
<1>1. SourceInv => MarkersHold
  BY DEF SourceInv, MarkersHold
<1>. QED  BY <1>1, SourceStart, SourceStep, PTL DEF SourceSpec

-----------------------------------------------------------------------------
(* What is drawn from analyses.  Every analysis starts after the others, so *)
(* an insight belongs to one of them; and while no two of a repository      *)
(* overlapped, what the one under way found when it began is what it is     *)
(* compared with when it ends.                                              *)

Begins == {0} \union {analysis[n].started : n \in Ids}

Findings  == Measures \union {CHOOSE m \in Measures : TRUE}
Histories == SUBSET {m.gate : m \in Findings}
HealthRows ==
    [source : Tracked, status : {"running", "success", "failed"}, started : Nat, over : BOOLEAN,
     judged : BOOLEAN, found : Findings, past : Histories]

Rules     == {"quality_gate_failed", "scan_result_changed_from_pass", "new_issues_introduced",
              "coverage_dropped", "duplication_increased"}
Grades    == {"HIGH", "MEDIUM", "LOW"}
AnInsight == [kind : Rules, severity : Grades]
InsightRows == [at : Nat, what : AnInsight]

RowOK(r) ==
    /\ r \in HealthRows
    /\ r.status = "running" => ~r.over
    /\ r.status = "failed" => r.over
    /\ r.judged => r.over
    /\ r.status = "success" => r.found \in Measures

HealthShape ==
    /\ analysis \in Seq(HealthRows) /\ insights \in Seq(InsightRows)
    /\ overlaps \subseteq Tracked
    /\ \A n \in Ids : RowOK(analysis[n])

\* Starts is the last start there was.
Counted ==
    /\ Starts \in Nat /\ Starts \in Begins
    /\ \A n \in Ids : analysis[n].started \in 1 .. Starts
    /\ \A i \in DOMAIN insights : insights[i].at \in 1 .. Starts

Distinct == \A n, k \in Ids : analysis[n].started = analysis[k].started => n = k
Unreported == \A n \in Ids : ~analysis[n].judged => \A i \in DOMAIN insights : insights[i].at # analysis[n].started
OneAtOnce ==
    \A n, k \in Ids : /\ analysis[n].source = analysis[k].source /\ analysis[n].source \notin overlaps
                      /\ ~analysis[n].over /\ ~analysis[k].over
                      => n = k
Remembers ==
    \A n \in Ids : analysis[n].source \notin overlaps /\ ~analysis[n].over
                     => analysis[n].past = Past(analysis[n].source, n)

HealthInv ==
    HealthShape /\ Counted /\ Distinct /\ Unreported /\ OneAtOnce /\ Remembers /\ RegressionsReported

LEMMA MaxIs ==
    ASSUME NEW S \in SUBSET Int, NEW x \in S, \A y \in S : x >= y
    PROVE  Max(S) = x
<1> DEFINE P(z) == z \in S /\ \A y \in S : z >= y
<1>1. P(x)
  OBVIOUS
<1>2. Max(S) = CHOOSE z : P(z)
  BY DEF Max
<1>3. P(Max(S))
  BY <1>1, <1>2
<1>4. Max(S) \in Int /\ Max(S) >= x /\ x >= Max(S) /\ x \in Int
  BY <1>3
<1>. QED  BY <1>4

\* A set of numbers has a least one.
LEMMA LeastNat == ASSUME NEW T \in SUBSET Nat, T # {} PROVE \E x \in T : \A y \in T : x <= y
<1> DEFINE R == {p \in Nat \X Nat : p[1] < p[2]}
<1>1. R = OpToRel(<, Nat)
  BY Zenon DEF OpToRel
<1>2. IsWellFoundedOn(R, Nat)
  BY <1>1, NatLessThanWellFounded, Zenon
<1> HIDE DEF R
<1>3. PICK x \in T : \A y \in T : ~(<<y, x>> \in R)
  BY <1>2, WFMin
<1>4. x \in Nat /\ \A y \in T : y \in Nat /\ ~(y < x)
  BY <1>3 DEF R
<1>5. \A y \in T : x <= y
  BY <1>4
<1>. QED  BY <1>5

LEMMA LatestIn ==
    ASSUME Counted, NEW S \in SUBSET Ids, S # {}
    PROVE  Latest(S) \in S
<1> DEFINE T == {Starts - analysis[n].started : n \in S}
<1>1. \A n \in S : analysis[n].started \in Nat /\ analysis[n].started <= Starts
  BY DEF Counted
<1>2. Starts \in Nat
  BY DEF Counted
<1>3. T \in SUBSET Nat /\ T # {}
  BY <1>1, <1>2
<1>4. PICK x \in T : \A y \in T : x <= y
  BY <1>3, LeastNat
<1>5. PICK n \in S : x = Starts - analysis[n].started
  BY <1>4
<1>6. \A k \in S : analysis[k].started <= analysis[n].started
  <2> SUFFICES ASSUME NEW k \in S PROVE analysis[k].started <= analysis[n].started
    OBVIOUS
  <2>1. x <= Starts - analysis[k].started
    BY <1>4
  <2>. QED  BY <1>1, <1>2, <1>5, <2>1
<1>. QED  BY <1>5, <1>6 DEF Latest

-----------------------------------------------------------------------------
(* A step writes one row.                                                   *)

Puts(n, row) ==
    /\ Ids' = Ids \union {n} /\ analysis'[n] = row
    /\ \A k \in Ids \ {n} : analysis'[k] = analysis[k]

LEMMA ExceptPuts ==
    ASSUME HealthShape, NEW n \in Ids, NEW row \in HealthRows, analysis' = [analysis EXCEPT ![n] = row]
    PROVE  Puts(n, row) /\ analysis' \in Seq(HealthRows)
<1>1. Len(analysis) \in Nat /\ DOMAIN analysis = 1 .. Len(analysis) /\ DOMAIN analysis' = 1 .. Len(analysis)
      /\ analysis \in [1 .. Len(analysis) -> HealthRows]
  BY LenProperties DEF HealthShape, Ids
<1>2. analysis' \in [1 .. Len(analysis) -> HealthRows]
  BY <1>1 DEF Ids
<1>3. analysis' \in Seq(HealthRows)
  BY <1>1, <1>2, SeqDef
<1>. QED  BY <1>1, <1>3 DEF Puts, Ids

LEMMA AppendPuts ==
    ASSUME HealthShape, NEW row \in HealthRows, analysis' = Append(analysis, row)
    PROVE  /\ Puts(Len(analysis) + 1, row) /\ Len(analysis) + 1 \notin Ids
           /\ analysis' \in Seq(HealthRows)
<1>1. analysis \in Seq(HealthRows) /\ Len(analysis) \in Nat /\ DOMAIN analysis = 1 .. Len(analysis)
  BY LenProperties DEF HealthShape
<1>2. /\ analysis' \in Seq(HealthRows) /\ Len(analysis') = Len(analysis) + 1
      /\ analysis'[Len(analysis) + 1] = row
      /\ \A k \in 1 .. Len(analysis) : analysis'[k] = analysis[k]
  BY <1>1, AppendProperties
<1>3. DOMAIN analysis' = 1 .. Len(analysis) + 1
  BY <1>2, LenProperties
<1>. QED  BY <1>1, <1>2, <1>3 DEF Puts, Ids

LEMMA PastStands ==
    ASSUME Counted, NEW n, NEW row, Puts(n, row), NEW t, NEW k,
           k = n \/ (row.source # t /\ (n \in Ids => analysis[n].source # t))
    PROVE  Past(t, k)' = Past(t, k)
<1> DEFINE S == Successes(t) \ {k}
<1>1. n \notin S /\ n \notin S' /\ S' = S
  BY DEF Puts, Successes
<1>2. \A x \in S : analysis'[x] = analysis[x]
  BY <1>1 DEF Puts, Successes
<1>3. Latest(S)' = Latest(S)
  <2>1. Latest(S)' = CHOOSE x \in S : \A y \in S : analysis'[y].started <= analysis'[x].started
    BY <1>1 DEF Latest
  <2>2. \A x \in S : (\A y \in S : analysis'[y].started <= analysis'[x].started)
                     <=> (\A y \in S : analysis[y].started <= analysis[x].started)
    BY <1>2
  <2>. QED  BY <2>1, <2>2 DEF Latest
<1>4. CASE S = {}
  BY <1>1, <1>4 DEF Past
<1>5. CASE S # {}
  <2>1. Latest(S) \in S
    BY <1>5, LatestIn DEF Successes
  <2>2. Past(t, k)' = {analysis'[Latest(S)'].found.gate}
    BY <1>1, <1>5 DEF Past
  <2>3. Past(t, k) = {analysis[Latest(S)].found.gate}
    BY <1>5 DEF Past
  <2>. QED  BY <1>2, <1>3, <2>1, <2>2, <2>3
<1>. QED  BY <1>4, <1>5

-----------------------------------------------------------------------------
(* The steps.                                                               *)

LEMMA StartedRow ==
    ASSUME HealthInv, NEW s \in Tracked, NEW n
    PROVE  /\ RowOK(Started(s, n)) /\ Started(s, n).source = s /\ ~Started(s, n).over /\ ~Started(s, n).judged
           /\ Started(s, n).started = Starts + 1 /\ Started(s, n).past = Past(s, n)
<1> DEFINE S == Successes(s) \ {n}
<1>1. Past(s, n) \in Histories
  <2>1. CASE S = {}
    BY <2>1 DEF Past, Histories
  <2>2. CASE S # {}
    <3>1. Latest(S) \in Ids
      BY <2>2, LatestIn DEF Successes, HealthInv
    <3>2. analysis[Latest(S)].found \in Findings
      BY <3>1 DEF HealthInv, HealthShape, RowOK, HealthRows
    <3>. QED  BY <2>2, <3>2 DEF Past, Histories
  <2>. QED  BY <2>1, <2>2
<1>2. (CHOOSE m \in Measures : TRUE) \in Findings /\ Starts + 1 \in Nat
  BY DEF Findings, HealthInv, Counted
<1>. QED  BY <1>1, <1>2 DEF Started, RowOK, HealthRows

LEMMA BegunCounts ==
    ASSUME Counted, NEW n, NEW row, Puts(n, row), row.started = Starts + 1, UNCHANGED insights
    PROVE  Counted' /\ Starts' = Starts + 1
<1>1. Starts \in Nat /\ \A k \in Ids : analysis[k].started \in 1 .. Starts
  BY DEF Counted
<1>2. Begins' \subseteq Begins \union {Starts + 1} /\ Starts + 1 \in Begins'
  BY DEF Begins, Puts
<1>3. Begins' \in SUBSET Int /\ \A y \in Begins' : Starts + 1 >= y
  BY <1>1, <1>2 DEF Begins
<1>4. Starts' = Max(Begins')
  BY DEF Starts, Begins
<1>5. Starts' = Starts + 1
  <2>1. \A S \in SUBSET Int : \A x \in S : (\A y \in S : x >= y) => Max(S) = x
    BY MaxIs
  <2>. QED  BY <1>2, <1>3, <1>4, <2>1
<1>6. \A k \in Ids' : analysis'[k].started \in 1 .. Starts + 1
  BY <1>1 DEF Puts
<1>7. \A i \in DOMAIN insights : insights[i].at \in 1 .. Starts + 1
  BY <1>1 DEF Counted
<1>. QED  BY <1>1, <1>2, <1>5, <1>6, <1>7 DEF Counted

LEMMA RewrittenCounts ==
    ASSUME Counted, NEW n \in Ids, NEW row, Puts(n, row), row.started = analysis[n].started,
           \A i \in DOMAIN insights' : \/ i \in DOMAIN insights /\ insights'[i] = insights[i]
                                       \/ insights'[i].at = row.started
    PROVE  Counted' /\ Starts' = Starts
<1>1. Ids' = Ids /\ \A k \in Ids : analysis'[k].started = analysis[k].started
  BY DEF Puts
<1>2. Begins' = Begins
  BY <1>1 DEF Begins
<1>3. Starts' = Starts
  BY <1>2 DEF Starts, Begins
<1>4. row.started \in 1 .. Starts
  BY DEF Counted
<1>. QED  BY <1>1, <1>2, <1>3, <1>4 DEF Counted

\* An analysis begins, of row n.
LEMMA BegunKeeps ==
    ASSUME HealthInv, NEW s \in Tracked, NEW n, n \in Ids => analysis[n].source = s /\ analysis[n].over,
           Puts(n, Started(s, n)), Began(s),
           analysis' \in Seq(HealthRows)
    PROVE  HealthInv'
<1> DEFINE r == Started(s, n)
<1>1. RowOK(r) /\ r.source = s /\ ~r.over /\ ~r.judged /\ r.started = Starts + 1 /\ r.past = Past(s, n)
  BY StartedRow
<1> HIDE DEF r
<1>2. /\ Ids' = Ids \union {n} /\ analysis'[n] = r /\ \A k \in Ids \ {n} : analysis'[k] = analysis[k]
      /\ UNCHANGED insights /\ overlaps \subseteq overlaps' /\ overlaps' \subseteq overlaps \union {s}
      /\ Ongoing(s) => s \in overlaps'
  BY DEF Puts, Began, r
<1>3. HealthShape'
  BY <1>1, <1>2 DEF HealthInv, HealthShape, Ids
<1>4. Counted' /\ Starts' = Starts + 1
  BY <1>1, <1>2, BegunCounts DEF HealthInv, Puts
<1>5. /\ Starts \in Nat
      /\ \A k \in Ids : analysis[k].started \in 1 .. Starts
      /\ \A i \in DOMAIN insights : insights[i].at \in 1 .. Starts
  BY DEF HealthInv, Counted
<1>6. Distinct'
  <2> SUFFICES ASSUME NEW j \in Ids', NEW k \in Ids', analysis'[j].started = analysis'[k].started
               PROVE  j = k
    BY DEF Distinct
  <2>1. \A m \in Ids : analysis[m].started # Starts + 1
    BY <1>5
  <2>. QED  BY <1>1, <1>2, <2>1 DEF HealthInv, Distinct
<1>7. Unreported'
  <2>1. \A i \in DOMAIN insights : insights[i].at # Starts + 1
    BY <1>5
  <2>. QED  BY <1>1, <1>2, <2>1 DEF HealthInv, Unreported
<1>8. s \notin overlaps' => \A k \in Ids : analysis[k].source = s => analysis[k].over
  BY <1>2 DEF Ongoing, HealthInv, HealthShape, RowOK, HealthRows
<1>9. OneAtOnce'
  BY <1>1, <1>2, <1>8 DEF HealthInv, OneAtOnce
<1>10. Remembers'
  <2> SUFFICES ASSUME NEW k \in Ids', NEW t, t = analysis'[k].source, t \notin overlaps', ~analysis'[k].over
               PROVE  analysis'[k].past = Past(t, k)'
    BY DEF Remembers
  <2>1. CASE k = n
    <3>1. Past(t, n)' = Past(t, n)
      BY PastStands DEF HealthInv
    <3>. QED  BY <1>1, <1>2, <2>1, <3>1
  <2>2. CASE k # n
    <3>1. k \in Ids /\ analysis'[k] = analysis[k] /\ analysis[k].source = t /\ t \notin overlaps
      BY <1>2, <2>2
    <3>2. t # s
      BY <1>2, <1>8, <2>2, <3>1
    <3>3. n \in Ids => analysis[n].source # t
      BY <3>2
    <3>4. Past(t, k)' = Past(t, k)
      BY <1>1, <3>2, <3>3, PastStands DEF HealthInv, r
    <3>. QED  BY <3>1, <3>4 DEF HealthInv, Remembers
  <2>. QED  BY <2>1, <2>2
<1>11. RegressionsReported'
  BY <1>1, <1>2 DEF HealthInv, RegressionsReported, Reported
<1>. QED  BY <1>3, <1>4, <1>6, <1>7, <1>9, <1>10, <1>11 DEF HealthInv

\* The analysis of row n goes on, or ends.
LEMMA RewriteKeeps ==
    ASSUME HealthInv, NEW n \in Ids, ~analysis[n].over, NEW row, Puts(n, row), RowOK(row),
           row.source = analysis[n].source, row.started = analysis[n].started, row.past = analysis[n].past,
           analysis' \in Seq(HealthRows),
           insights' \in Seq(InsightRows), UNCHANGED overlaps,
           \A i \in DOMAIN insights' : \/ i \in DOMAIN insights /\ insights'[i] = insights[i]
                                       \/ insights'[i].at = row.started
    PROVE  HealthShape' /\ Counted' /\ Distinct' /\ OneAtOnce' /\ Remembers'
<1>1. /\ Ids' = Ids /\ analysis'[n] = row /\ \A k \in Ids \ {n} : analysis'[k] = analysis[k]
  BY DEF Puts
<1>2. HealthShape'
  BY <1>1 DEF HealthInv, HealthShape, Ids
<1>3. Counted'
  BY RewrittenCounts DEF HealthInv
<1>4. Distinct'
  BY <1>1 DEF HealthInv, Distinct
<1>5. OneAtOnce'
  BY <1>1 DEF HealthInv, OneAtOnce
<1>6. Remembers'
  <2> SUFFICES ASSUME NEW k \in Ids', NEW t, t = analysis'[k].source, t \notin overlaps', ~analysis'[k].over
               PROVE  analysis'[k].past = Past(t, k)'
    BY DEF Remembers
  <2>1. analysis[k].past = Past(t, k) /\ analysis'[k].past = analysis[k].past /\ analysis[k].source = t
        /\ ~analysis[k].over
    BY <1>1 DEF HealthInv, Remembers
  <2>2. k = n \/ (row.source # t /\ (n \in Ids => analysis[n].source # t))
    BY <1>1, <2>1 DEF HealthInv, OneAtOnce
  <2>3. Past(t, k)' = Past(t, k)
    BY <2>2, PastStands DEF HealthInv
  <2>. QED  BY <2>1, <2>3
<1>. QED  BY <1>2, <1>3, <1>4, <1>5, <1>6

LEMMA QuietKeeps ==
    ASSUME HealthInv, NEW n \in Ids, ~analysis[n].over, NEW row, analysis' = [analysis EXCEPT ![n] = row], RowOK(row),
           row.source = analysis[n].source, row.started = analysis[n].started, row.past = analysis[n].past,
           ~row.judged, UNCHANGED <<insights, overlaps>>
    PROVE  HealthInv'
<1>1. Puts(n, row) /\ analysis' \in Seq(HealthRows)
  BY ExceptPuts DEF HealthInv, RowOK
<1>2. HealthShape' /\ Counted' /\ Distinct' /\ OneAtOnce' /\ Remembers'
  BY <1>1, RewriteKeeps DEF HealthInv, HealthShape
<1>3. Unreported'
  <2>1. ~analysis[n].judged
    BY DEF HealthInv, HealthShape, RowOK
  <2>. QED  BY <1>1, <2>1 DEF HealthInv, Unreported, Puts
<1>4. RegressionsReported'
  BY <1>1 DEF HealthInv, RegressionsReported, Reported, Puts
<1>. QED  BY <1>2, <1>3, <1>4 DEF HealthInv

-----------------------------------------------------------------------------
(* What the rules find.                                                     *)

Says(s, kind) == \E i \in DOMAIN s : s[i].kind = kind


LEMMA OneSays ==
    ASSUME NEW kind \in Rules, NEW severity \in Grades, NEW about
    PROVE  /\ Insight(kind, severity) \in Seq(AnInsight) /\ (Says(Insight(kind, severity), about) <=> about = kind)
           /\ <<>> \in Seq(AnInsight) /\ ~Says(<<>>, about)
<1> DEFINE x == [kind |-> kind, severity |-> severity]
<1>1. x \in AnInsight /\ x.kind = kind
  BY DEF AnInsight
<1> HIDE DEF x
<1>2. <<x>> \in Seq(AnInsight) /\ DOMAIN <<x>> = {1} /\ <<x>>[1] = x
  BY <1>1
<1>3. <<>> \in Seq(AnInsight) /\ DOMAIN <<>> = {}
  OBVIOUS
<1>4. Insight(kind, severity) = <<x>>
  BY DEF Insight, x
<1>5. Says(<<x>>, about) <=> about = kind
  BY <1>1, <1>2 DEF Says
<1>6. ~Says(<<>>, about)
  BY <1>3 DEF Says
<1>. QED  BY <1>2, <1>3, <1>4, <1>5, <1>6

LEMMA JoinSays ==
    ASSUME NEW R, NEW s \in Seq(R), NEW t \in Seq(R), NEW about
    PROVE  s \o t \in Seq(R) /\ (Says(s \o t, about) <=> Says(s, about) \/ Says(t, about))
<1>1. s \o t \in Seq(R) /\ Len(s \o t) = Len(s) + Len(t) /\ Len(s) \in Nat /\ Len(t) \in Nat
      /\ DOMAIN s = 1 .. Len(s) /\ DOMAIN t = 1 .. Len(t) /\ DOMAIN (s \o t) = 1 .. Len(s) + Len(t)
      /\ \A i \in 1 .. Len(s) + Len(t) : (s \o t)[i] = IF i <= Len(s) THEN s[i] ELSE t[i - Len(s)]
  BY ConcatProperties, LenProperties
<1>2. ASSUME NEW i \in DOMAIN (s \o t), (s \o t)[i].kind = about PROVE Says(s, about) \/ Says(t, about)
  <2>1. CASE i <= Len(s)
    BY <1>1, <1>2, <2>1 DEF Says
  <2>2. CASE ~(i <= Len(s))
    <3>1. i - Len(s) \in DOMAIN t /\ t[i - Len(s)].kind = about
      BY <1>1, <1>2, <2>2
    <3>. QED  BY <3>1 DEF Says
  <2>. QED  BY <2>1, <2>2
<1>3. ASSUME NEW i \in DOMAIN s, s[i].kind = about PROVE Says(s \o t, about)
  BY <1>1, <1>3 DEF Says
<1>4. ASSUME NEW i \in DOMAIN t, t[i].kind = about PROVE Says(s \o t, about)
  <2>1. i + Len(s) \in DOMAIN (s \o t) /\ (s \o t)[i + Len(s)] = t[i]
    <3>1. i \in Nat /\ 1 <= i /\ i <= Len(t)
      BY <1>1
    <3>2. i + Len(s) \in 1 .. Len(s) + Len(t) /\ ~(i + Len(s) <= Len(s)) /\ (i + Len(s)) - Len(s) = i
      BY <1>1, <3>1
    <3>. QED  BY <1>1, <3>2
  <2>. QED  BY <1>4, <2>1 DEF Says
<1>. QED  BY <1>1, <1>2, <1>3, <1>4 DEF Says

Regression == "scan_result_changed_from_pass"

LEMMA ComparedSays ==
    ASSUME NEW now, NEW was
    PROVE  /\ Compared(now, was) \in Seq(AnInsight)
           /\ Says(Compared(now, was), Regression) <=> was.gate = "OK" /\ now.gate # "OK"
<1> DEFINE worse == ScanResultRegressed(now, was)
           more == NewIssuesIntroduced(now, was)
           covered == CoverageDropped(now, was)
           copied == DuplicationIncreased(now, was)
<1>1. worse \in Seq(AnInsight) /\ (Says(worse, Regression) <=> was.gate = "OK" /\ now.gate # "OK")
  <2>1. worse = IF was.gate = "OK" /\ now.gate # "OK" THEN Insight(Regression, "HIGH") ELSE <<>>
    BY DEF ScanResultRegressed, When, Regression
  <2>2. Regression \in Rules
    BY DEF Regression, Rules
  <2> HIDE DEF worse
  <2>. QED  BY <2>1, <2>2, OneSays DEF Grades
<1>2. more \in Seq(AnInsight) /\ ~Says(more, Regression)
  <2>1. more \in {Insight("new_issues_introduced", "HIGH"), Insight("new_issues_introduced", "MEDIUM"), <<>>}
    BY DEF NewIssuesIntroduced, When
  <2> HIDE DEF more
  <2>. QED  BY <2>1, OneSays DEF Regression, Rules, Grades
<1>3. covered \in Seq(AnInsight) /\ ~Says(covered, Regression)
  <2>1. covered \in {Insight("coverage_dropped", "MEDIUM"), <<>>}
    BY DEF CoverageDropped, When
  <2> HIDE DEF covered
  <2>. QED  BY <2>1, OneSays DEF Regression, Rules, Grades
<1>4. copied \in Seq(AnInsight) /\ ~Says(copied, Regression)
  <2>1. copied \in {Insight("duplication_increased", "LOW"), <<>>}
    BY DEF DuplicationIncreased, When
  <2> HIDE DEF copied
  <2>. QED  BY <2>1, OneSays DEF Regression, Rules, Grades
<1>5. Compared(now, was) = ((worse \o more) \o covered) \o copied
  BY DEF Compared
<1> HIDE DEF worse, more, covered, copied
<1>6. worse \o more \in Seq(AnInsight) /\ (Says(worse \o more, Regression) <=> Says(worse, Regression))
  BY <1>1, <1>2, JoinSays
<1>7. /\ (worse \o more) \o covered \in Seq(AnInsight)
      /\ (Says((worse \o more) \o covered, Regression) <=> Says(worse, Regression))
  BY <1>3, <1>6, JoinSays
<1>8. /\ ((worse \o more) \o covered) \o copied \in Seq(AnInsight)
      /\ (Says(((worse \o more) \o covered) \o copied, Regression) <=> Says(worse, Regression))
  BY <1>4, <1>7, JoinSays
<1>. QED  BY <1>1, <1>5, <1>8

LEMMA FiredSays ==
    ASSUME NEW n
    PROVE  /\ Fired(n) \in Seq(AnInsight)
           /\ Says(Fired(n), Regression) <=>
                Before(n) # {} /\ analysis[PreviousRun(n)].found.gate = "OK" /\ analysis[n].found.gate # "OK"
<1> DEFINE now == analysis[n].found
           was == analysis[PreviousRun(n)].found
           failing == QualityGateFailed(now)
           compared == When(Before(n) # {}, Compared(now, was))
<1>1. failing \in Seq(AnInsight) /\ ~Says(failing, Regression)
  <2>1. failing \in {Insight("quality_gate_failed", "HIGH"), <<>>}
    BY DEF QualityGateFailed, When
  <2> HIDE DEF failing
  <2>. QED  BY <2>1, OneSays DEF Regression, Rules, Grades
<1>2. compared = IF Before(n) # {} THEN Compared(now, was) ELSE <<>>
  BY DEF When
<1>3. <<>> \in Seq(AnInsight) /\ ~Says(<<>>, Regression)
  BY OneSays DEF Rules, Grades
<1>4. Fired(n) = failing \o compared
  BY DEF Fired
<1> HIDE DEF failing, compared, now, was
<1>5. compared \in Seq(AnInsight)
      /\ (Says(compared, Regression) <=> Before(n) # {} /\ was.gate = "OK" /\ now.gate # "OK")
  BY <1>2, <1>3, ComparedSays
<1>6. failing \o compared \in Seq(AnInsight) /\ (Says(failing \o compared, Regression) <=> Says(compared, Regression))
  BY <1>1, <1>5, JoinSays
<1>. QED  BY <1>4, <1>5, <1>6 DEF now, was

LEMMA JoinedEntries ==
    ASSUME NEW R, NEW s \in Seq(R), NEW t \in Seq(R)
    PROVE  /\ s \o t \in Seq(R)
           /\ \A i \in DOMAIN s : i \in DOMAIN (s \o t) /\ (s \o t)[i] = s[i]
           /\ \A i \in DOMAIN (s \o t) : \/ i \in DOMAIN s /\ (s \o t)[i] = s[i]
                                         \/ \E j \in DOMAIN t : (s \o t)[i] = t[j]
           /\ \A j \in DOMAIN t : \E i \in DOMAIN (s \o t) : (s \o t)[i] = t[j]
<1> DEFINE u == s \o t
<1>1. u \in Seq(R) /\ Len(u) = Len(s) + Len(t) /\ Len(s) \in Nat /\ Len(t) \in Nat
      /\ DOMAIN s = 1 .. Len(s) /\ DOMAIN t = 1 .. Len(t) /\ DOMAIN u = 1 .. Len(s) + Len(t)
      /\ \A i \in 1 .. Len(s) + Len(t) : u[i] = IF i <= Len(s) THEN s[i] ELSE t[i - Len(s)]
  BY ConcatProperties, LenProperties
<1> HIDE DEF u
<1>4. \A i \in DOMAIN s : i \in DOMAIN u /\ u[i] = s[i]
  BY <1>1
<1>5. \A i \in DOMAIN u : \/ i \in DOMAIN s /\ u[i] = s[i]
                          \/ i - Len(s) \in DOMAIN t /\ u[i] = t[i - Len(s)]
  BY <1>1
<1>6. \A j \in DOMAIN t : j + Len(s) \in DOMAIN u /\ u[j + Len(s)] = t[j]
  <2> SUFFICES ASSUME NEW j \in DOMAIN t PROVE j + Len(s) \in DOMAIN u /\ u[j + Len(s)] = t[j]
    OBVIOUS
  <2>1. j \in Nat /\ 1 <= j /\ j <= Len(t)
    BY <1>1
  <2>2. j + Len(s) \in 1 .. Len(s) + Len(t) /\ ~(j + Len(s) <= Len(s)) /\ (j + Len(s)) - Len(s) = j
    BY <1>1, <2>1
  <2>. QED  BY <1>1, <2>2
<1>. QED  BY <1>1, <1>4, <1>5, <1>6 DEF u

LEMMA EvaluateKeeps == ASSUME HealthInv, NEW n \in Ids, EvaluateAndStore(n) PROVE HealthInv'
<1> DEFINE row == [analysis[n] EXCEPT !.over = TRUE, !.judged = TRUE]
           t == [i \in DOMAIN Fired(n) |-> [at |-> analysis[n].started, what |-> Fired(n)[i]]]
<1>1. /\ analysis[n].status = "success" /\ ~analysis[n].over /\ ~analysis[n].judged
      /\ analysis' = [analysis EXCEPT ![n] = row] /\ insights' = insights \o t /\ UNCHANGED overlaps
  BY DEF EvaluateAndStore, HealthInv, HealthShape, RowOK
<1>2. RowOK(analysis[n]) /\ analysis[n].source \in Tracked
  BY DEF HealthInv, HealthShape, RowOK, HealthRows
<1>3. /\ RowOK(row) /\ row.source = analysis[n].source /\ row.started = analysis[n].started
      /\ row.past = analysis[n].past /\ row.found = analysis[n].found /\ row.judged
  BY <1>1, <1>2 DEF RowOK, HealthRows
<1>4. Puts(n, row) /\ analysis' \in Seq(HealthRows)
  BY <1>1, <1>3, ExceptPuts DEF HealthInv, RowOK
<1>5. Fired(n) \in Seq(AnInsight)
  BY FiredSays
<1>6. t \in Seq(InsightRows) /\ DOMAIN t = DOMAIN Fired(n)
  <2>1. DOMAIN Fired(n) = 1 .. Len(Fired(n)) /\ Len(Fired(n)) \in Nat
        /\ \A i \in DOMAIN Fired(n) : Fired(n)[i] \in AnInsight
    BY <1>5, LenProperties
  <2>2. analysis[n].started \in Nat
    BY DEF HealthInv, HealthShape, RowOK, HealthRows
  <2>3. t \in [1 .. Len(Fired(n)) -> InsightRows]
    BY <2>1, <2>2 DEF InsightRows
  <2>. QED  BY <2>1, <2>3, SeqDef
<1>7. \A i \in DOMAIN t : t[i].at = analysis[n].started /\ t[i].what = Fired(n)[i]
  OBVIOUS
<1> HIDE DEF row, t
<1>8. /\ insights' \in Seq(InsightRows)
      /\ \A i \in DOMAIN insights : i \in DOMAIN insights' /\ insights'[i] = insights[i]
      /\ \A i \in DOMAIN insights' : \/ i \in DOMAIN insights /\ insights'[i] = insights[i]
                                     \/ \E j \in DOMAIN t : insights'[i] = t[j]
      /\ \A j \in DOMAIN t : \E i \in DOMAIN insights' : insights'[i] = t[j]
  <2> DEFINE u == insights \o t
  <2>1. insights \in Seq(InsightRows)
    BY DEF HealthInv, HealthShape
  <2>2. /\ u \in Seq(InsightRows)
        /\ \A i \in DOMAIN insights : i \in DOMAIN u /\ u[i] = insights[i]
        /\ \A i \in DOMAIN u : \/ i \in DOMAIN insights /\ u[i] = insights[i]
                               \/ \E j \in DOMAIN t : u[i] = t[j]
        /\ \A j \in DOMAIN t : \E i \in DOMAIN u : u[i] = t[j]
    BY <1>6, <2>1, JoinedEntries
  <2>3. insights' = u
    BY <1>1
  <2> HIDE DEF u
  <2>. QED  BY <2>2, <2>3
<1>9. HealthShape' /\ Counted' /\ Distinct' /\ OneAtOnce' /\ Remembers'
  <2>1. \A i \in DOMAIN insights' :
          \/ i \in DOMAIN insights /\ insights'[i] = insights[i]
          \/ insights'[i].at = row.started
    BY <1>3, <1>7, <1>8
  <2>. QED  BY <1>1, <1>3, <1>4, <1>8, <2>1, RewriteKeeps
<1>10. \A k \in Ids \ {n} : analysis[k].started # analysis[n].started
  BY DEF HealthInv, Distinct
<1>11. Unreported'
  BY <1>3, <1>4, <1>7, <1>8, <1>10 DEF HealthInv, Unreported, Puts
<1>12. ASSUME NEW k \in Ids \ {n} PROVE Reported(k, Regression)' <=> Reported(k, Regression)
  <2>1. analysis'[k].started = analysis[k].started /\ analysis[k].started # analysis[n].started
    BY <1>4, <1>10 DEF Puts
  <2>. QED  BY <1>7, <1>8, <2>1 DEF Reported
<1>13. Reported(n, Regression)' <=> Says(Fired(n), Regression)
  <2>1. \A i \in DOMAIN insights : insights[i].at # analysis[n].started
    BY <1>1 DEF HealthInv, Unreported
  <2>2. analysis'[n].started = analysis[n].started
    BY <1>3, <1>4 DEF Puts
  <2>3. ASSUME NEW i \in DOMAIN insights', insights'[i].at = analysis[n].started, insights'[i].what.kind = Regression
        PROVE  Says(Fired(n), Regression)
    <3>1. PICK j \in DOMAIN t : insights'[i] = t[j]
      BY <1>8, <2>1, <2>3
    <3>. QED  BY <1>6, <1>7, <2>3, <3>1 DEF Says
  <2>4. ASSUME NEW j \in DOMAIN Fired(n), Fired(n)[j].kind = Regression
        PROVE  Reported(n, Regression)'
    <3>1. PICK i \in DOMAIN insights' : insights'[i] = t[j]
      BY <1>6, <1>8
    <3>. QED  BY <1>6, <1>7, <2>2, <2>4, <3>1 DEF Reported
  <2>. QED  BY <2>2, <2>3, <2>4 DEF Reported, Says
<1>14. analysis[n].source \notin overlaps =>
         (Says(Fired(n), Regression) <=> analysis[n].found.gate # "OK" /\ "OK" \in analysis[n].past)
  <2> SUFFICES ASSUME analysis[n].source \notin overlaps
               PROVE  Says(Fired(n), Regression) <=> analysis[n].found.gate # "OK" /\ "OK" \in analysis[n].past
    OBVIOUS
  <2>1. analysis[n].past = Past(analysis[n].source, n)
    BY <1>1 DEF HealthInv, Remembers
  <2>2. analysis[n].past = IF Before(n) = {} THEN {} ELSE {analysis[PreviousRun(n)].found.gate}
    BY <2>1 DEF Past, Before, PreviousRun
  <2>. QED  BY <2>2, FiredSays
<1>15. RegressionsReported'
  <2> SUFFICES ASSUME NEW k \in Ids', analysis'[k].judged, analysis'[k].source \notin overlaps'
               PROVE  Reported(k, Regression)' <=> analysis'[k].found.gate # "OK" /\ "OK" \in analysis'[k].past
    BY DEF RegressionsReported, Regression
  <2>1. CASE k = n
    BY <1>1, <1>3, <1>4, <1>13, <1>14, <2>1 DEF Puts
  <2>2. CASE k # n
    BY <1>1, <1>4, <1>12, <2>2 DEF Puts, HealthInv, RegressionsReported, Regression
  <2>. QED  BY <2>1, <2>2
<1>. QED  BY <1>9, <1>11, <1>15 DEF HealthInv

LEMMA HealthStarts == HealthInit => HealthInv
<1> SUFFICES ASSUME HealthInit PROVE HealthInv
  OBVIOUS
<1>1. analysis = <<>> /\ insights = <<>> /\ overlaps = {} /\ Ids = {} /\ DOMAIN insights = {}
  BY DEF HealthInit, Ids
<1>2. HealthShape
  BY <1>1 DEF HealthShape
<1>3. Counted
  <2>1. Begins = {0}
    BY <1>1 DEF Begins
  <2>2. Starts = 0
    BY <1>1, <2>1, MaxIs DEF Starts, Begins
  <2>. QED  BY <1>1, <2>1, <2>2 DEF Counted
<1>. QED  BY <1>1, <1>2, <1>3 DEF HealthInv, Distinct, Unreported, OneAtOnce, Remembers, RegressionsReported

LEMMA HealthStep == HealthInv /\ [HealthNext]_healthVars => HealthInv'
<1> SUFFICES ASSUME HealthInv, [HealthNext]_healthVars PROVE HealthInv'
  OBVIOUS
<1>1. CASE \E s \in Tracked : BeginAnalysis(s)
  <2>1. PICK s \in Tracked : BeginAnalysis(s)
    BY <1>1
  <2>. QED  BY <2>1, StartedRow, AppendPuts, BegunKeeps DEF BeginAnalysis, HealthInv, RowOK
<1>2. ASSUME NEW n \in Ids, AnalyzeAgain(n) PROVE HealthInv'
  <2>1. analysis[n].source \in Tracked
    BY DEF HealthInv, HealthShape, RowOK, HealthRows
  <2>. QED  BY <1>2, <2>1, StartedRow, ExceptPuts, BegunKeeps DEF AnalyzeAgain, HealthInv, RowOK
<1>3. ASSUME NEW n \in Ids, CommitAnalysis(n) PROVE HealthInv'
  <2>1. PICK m \in Measures : analysis' = [analysis EXCEPT ![n].status = "success", ![n].found = m]
    BY <1>3 DEF CommitAnalysis
  <2> DEFINE row == [analysis[n] EXCEPT !.status = "success", !.found = m]
  <2>2. analysis[n].status = "running" /\ ~analysis[n].over /\ RowOK(analysis[n]) /\ analysis[n].source \in Tracked
        /\ ~analysis[n].judged /\ analysis' = [analysis EXCEPT ![n] = row] /\ UNCHANGED <<insights, overlaps>>
    BY <1>3, <2>1 DEF CommitAnalysis, HealthInv, HealthShape, RowOK, HealthRows
  <2>3. RowOK(row) /\ row.source = analysis[n].source /\ row.started = analysis[n].started
        /\ row.past = analysis[n].past /\ ~row.judged
    BY <2>2 DEF RowOK, HealthRows, Findings
  <2> HIDE DEF row
  <2>. QED  BY <2>2, <2>3, QuietKeeps
<1>4. ASSUME NEW n \in Ids, FailAnalysis(n) PROVE HealthInv'
  <2> DEFINE row == [analysis[n] EXCEPT !.status = "failed", !.over = TRUE]
  <2>2. analysis[n].status = "running" /\ ~analysis[n].over /\ RowOK(analysis[n]) /\ analysis[n].source \in Tracked
        /\ ~analysis[n].judged /\ analysis' = [analysis EXCEPT ![n] = row] /\ UNCHANGED <<insights, overlaps>>
    BY <1>4 DEF FailAnalysis, HealthInv, HealthShape, RowOK, HealthRows
  <2>3. RowOK(row) /\ row.source = analysis[n].source /\ row.started = analysis[n].started
        /\ row.past = analysis[n].past /\ ~row.judged
    BY <2>2 DEF RowOK, HealthRows, Findings
  <2> HIDE DEF row
  <2>. QED  BY <2>2, <2>3, QuietKeeps
<1>5. ASSUME NEW n \in Ids, InsightsLost(n) PROVE HealthInv'
  <2>1. PICK status \in {"success", "failed"} :
          analysis' = [analysis EXCEPT ![n].over = TRUE, ![n].status = status]
    BY <1>5 DEF InsightsLost
  <2> DEFINE row == [analysis[n] EXCEPT !.over = TRUE, !.status = status]
  <2>2. analysis[n].status = "success" /\ ~analysis[n].over /\ RowOK(analysis[n]) /\ analysis[n].source \in Tracked
        /\ ~analysis[n].judged /\ analysis' = [analysis EXCEPT ![n] = row] /\ UNCHANGED <<insights, overlaps>>
    BY <1>5, <2>1 DEF InsightsLost, HealthInv, HealthShape, RowOK, HealthRows
  <2>3. RowOK(row) /\ row.source = analysis[n].source /\ row.started = analysis[n].started
        /\ row.past = analysis[n].past /\ ~row.judged
    BY <2>2 DEF RowOK, HealthRows, Findings
  <2> HIDE DEF row
  <2>. QED  BY <2>2, <2>3, QuietKeeps
<1>6. CASE UNCHANGED healthVars
  <2>1. /\ UNCHANGED <<analysis, insights, overlaps>> /\ Ids' = Ids
    BY <1>6 DEF healthVars, Ids
  <2>2. HealthShape' /\ Distinct' /\ Unreported' /\ OneAtOnce'
    BY <2>1 DEF HealthInv, HealthShape, Distinct, Unreported, OneAtOnce
  <2>3. Counted'
    BY <2>1 DEF HealthInv, Counted, Starts, Begins
  <2>4. RegressionsReported'
    BY <2>1 DEF HealthInv, RegressionsReported, Reported
  <2>5. \A s, n : Past(s, n)' = Past(s, n)
    BY <2>1 DEF Past, Successes, Latest
  <2>6. Remembers'
    BY <2>1, <2>5 DEF HealthInv, Remembers
  <2>. QED  BY <2>2, <2>3, <2>4, <2>6 DEF HealthInv
<1>. QED  BY <1>1, <1>2, <1>3, <1>4, <1>5, <1>6, EvaluateKeeps DEF HealthNext

LEMMA HealthTypes == HealthInv => HealthTyped
BY DEF HealthInv, HealthShape, RowOK, HealthRows, Counted, HealthTyped

-----------------------------------------------------------------------------
(* Sums over a finite set.  SumFunction takes one element after another    *)
(* from a set; that there is such a function of the subsets, and what its  *)
(* value is bounded by, is shown for the smallest subset it could fail on. *)

AnyOf(s)      == CHOOSE x \in s : TRUE
Sums(g, S, iter) == iter = [s \in S |-> IF s = {} THEN 0 ELSE g[AnyOf(s)] + iter[s \ {AnyOf(s)}]]
Smaller(S, n) == {s \in SUBSET S : Cardinality(s) <= n}

LEMMA AnyLess ==
    ASSUME NEW S, IsFiniteSet(S), NEW s \in SUBSET S, s # {}
    PROVE  /\ AnyOf(s) \in s /\ s \ {AnyOf(s)} \in SUBSET S
           /\ Cardinality(s) \in Nat \ {0} /\ Cardinality(s \ {AnyOf(s)}) = Cardinality(s) - 1
<1>1. AnyOf(s) \in s
  BY DEF AnyOf
<1>2. IsFiniteSet(s)
  BY FS_Subset
<1>3. Cardinality(s) \in Nat /\ Cardinality(s \ {AnyOf(s)}) = Cardinality(s) - 1
      /\ Cardinality(s) # 0
  BY <1>1, <1>2, FS_CardinalityType, FS_RemoveElement, FS_EmptySet
<1>. QED  BY <1>1, <1>3

LEMMA SumsTo ==
    ASSUME NEW S, IsFiniteSet(S), NEW g, NEW n \in Nat
    PROVE  \E iter : Sums(g, Smaller(S, n), iter)
<1> DEFINE T == {k \in Nat : ~ \E iter : Sums(g, Smaller(S, k), iter)}
<1>1. ASSUME NEW k \in T, \A j \in T : k <= j PROVE FALSE
  <2>1. CASE k = 0
    <3>1. Smaller(S, k) = {{}}
      BY <2>1, FS_EmptySet, FS_Subset, FS_CardinalityType DEF Smaller
    <3> DEFINE iter == [s \in {{}} |-> 0]
    <3>2. Sums(g, Smaller(S, k), iter)
      BY <3>1 DEF Sums
    <3>. QED  BY <1>1, <3>2
  <2>2. CASE k # 0
    <3>1. k \in Nat /\ k - 1 \in Nat /\ k - 1 \notin T
      BY <1>1, <2>2
    <3>2. PICK old : Sums(g, Smaller(S, k - 1), old)
      BY <3>1
    <3> DEFINE new == [s \in Smaller(S, k) |-> IF s = {} THEN 0 ELSE g[AnyOf(s)] + old[s \ {AnyOf(s)}]]
    <3>3. \A s \in Smaller(S, k) : s # {} => s \ {AnyOf(s)} \in Smaller(S, k - 1)
      BY <3>1, AnyLess DEF Smaller
    <3>4. \A s \in Smaller(S, k - 1) : s \in Smaller(S, k)
      <4> SUFFICES ASSUME NEW s \in Smaller(S, k - 1) PROVE s \in Smaller(S, k)
        OBVIOUS
      <4>1. s \in SUBSET S /\ Cardinality(s) \in Nat /\ Cardinality(s) <= k - 1
        BY FS_Subset, FS_CardinalityType DEF Smaller
      <4>. QED  BY <3>1, <4>1 DEF Smaller
    <3>5. \A s \in Smaller(S, k - 1) : new[s] = old[s]
      BY <3>2, <3>4 DEF Sums
    <3>6. \A s \in Smaller(S, k) : s # {} => new[s \ {AnyOf(s)}] = old[s \ {AnyOf(s)}]
      BY <3>3, <3>5
    <3>7. Sums(g, Smaller(S, k), new)
      BY <3>6 DEF Sums
    <3>. QED  BY <1>1, <3>7
  <2>. QED  BY <2>1, <2>2
<1>2. T = {}
  <2>1. T \in SUBSET Nat
    OBVIOUS
  <2> HIDE DEF T
  <2>. QED  BY <1>1, <2>1, LeastNat
<1>. QED  BY <1>2

LEMMA SumExists ==
    ASSUME NEW S, IsFiniteSet(S), NEW g
    PROVE  \E iter : Sums(g, SUBSET S, iter)
<1>1. Cardinality(S) \in Nat
  BY FS_CardinalityType
<1>2. Smaller(S, Cardinality(S)) = SUBSET S
  BY FS_Subset DEF Smaller
<1>3. \E iter : Sums(g, Smaller(S, Cardinality(S)), iter)
  BY <1>1, SumsTo
<1>. QED  BY <1>2, <1>3

\* What is so of the sum of nothing, and of a sum when it is of one with an element
\* less, is so of every sum: for natural numbers, and for ones that are not positive.
LEMMA SumOfNaturals ==
    ASSUME NEW S, IsFiniteSet(S), NEW g, \A x \in S : g[x] \in Nat,
           NEW iter, Sums(g, SUBSET S, iter)
    PROVE  iter[S] \in Nat /\ \A x \in S : g[x] <= iter[S]
<1> DEFINE Good(s) == iter[s] \in Nat /\ \A x \in s : g[x] <= iter[s]
           T == {k \in Nat : \E s \in SUBSET S : Cardinality(s) = k /\ ~Good(s)}
<1>1. ASSUME NEW k \in T, \A j \in T : k <= j PROVE FALSE
  <2>1. PICK s \in SUBSET S : Cardinality(s) = k /\ ~Good(s)
    BY <1>1
  <2>2. CASE s = {}
    <3>1. iter[s] = 0
      BY <2>2 DEF Sums
    <3>. QED  BY <2>1, <2>2, <3>1
  <2>3. CASE s # {}
    <3> DEFINE x == AnyOf(s)
               t == s \ {x}
    <3>1. x \in s /\ t \in SUBSET S /\ Cardinality(t) = k - 1 /\ k \in Nat \ {0}
      BY <2>1, <2>3, AnyLess
    <3>2. iter[s] = g[x] + iter[t]
      BY <2>3 DEF Sums
    <3>3. k - 1 \in Nat /\ k - 1 \notin T
      BY <1>1, <3>1
    <3>4. Good(t)
      BY <3>1, <3>3
    <3>5. g[x] \in Nat /\ s = t \union {x}
      BY <3>1
    <3> HIDE DEF x, t
    <3>6. iter[t] \in Nat /\ \A y \in t : g[y] \in Nat /\ g[y] <= iter[t]
      BY <3>1, <3>4
    <3>7. Good(s)
      BY <3>2, <3>5, <3>6
    <3>. QED  BY <2>1, <3>7
  <2>. QED  BY <2>2, <2>3
<1>2. T \in SUBSET Nat
  OBVIOUS
<1>3. T = {}
  <2> HIDE DEF T
  <2>. QED  BY <1>1, <1>2, LeastNat
<1>4. Cardinality(S) \in Nat /\ S \in SUBSET S
  BY FS_CardinalityType
<1>5. Good(S)
  BY <1>3, <1>4
<1>. QED  BY <1>5

LEMMA SumOfLosses ==
    ASSUME NEW S, IsFiniteSet(S), NEW g, \A x \in S : g[x] \in Int /\ g[x] <= 0,
           NEW iter, Sums(g, SUBSET S, iter)
    PROVE  iter[S] \in Int /\ iter[S] <= 0
<1> DEFINE Good(s) == iter[s] \in Int /\ iter[s] <= 0
           T == {k \in Nat : \E s \in SUBSET S : Cardinality(s) = k /\ ~Good(s)}
<1>1. ASSUME NEW k \in T, \A j \in T : k <= j PROVE FALSE
  <2>1. PICK s \in SUBSET S : Cardinality(s) = k /\ ~Good(s)
    BY <1>1
  <2>2. CASE s = {}
    <3>1. iter[s] = 0
      BY <2>2 DEF Sums
    <3>. QED  BY <2>1, <2>2, <3>1
  <2>3. CASE s # {}
    <3> DEFINE x == AnyOf(s)
               t == s \ {x}
    <3>1. x \in s /\ t \in SUBSET S /\ Cardinality(t) = k - 1 /\ k \in Nat \ {0}
      BY <2>1, <2>3, AnyLess
    <3>2. iter[s] = g[x] + iter[t]
      BY <2>3 DEF Sums
    <3>3. k - 1 \in Nat /\ k - 1 \notin T
      BY <1>1, <3>1
    <3>4. Good(t) /\ g[x] \in Int /\ g[x] <= 0
      BY <3>1, <3>3
    <3> HIDE DEF x, t
    <3>5. Good(s)
      BY <3>2, <3>4
    <3>. QED  BY <2>1, <3>5
  <2>. QED  BY <2>2, <2>3
<1>2. T \in SUBSET Nat
  OBVIOUS
<1>3. T = {}
  <2> HIDE DEF T
  <2>. QED  BY <1>1, <1>2, LeastNat
<1>4. Cardinality(S) \in Nat /\ S \in SUBSET S
  BY FS_CardinalityType
<1>5. Good(S)
  BY <1>3, <1>4
<1>. QED  BY <1>5

SumOf(g, S) == (CHOOSE iter : Sums(g, SUBSET S, iter))[S]

LEMMA SumFunctionIs == ASSUME NEW g PROVE SumFunction(g) = SumOf(g, DOMAIN g)
BY Zenon DEF SumFunction, SumFunctionOnSet, FoldFunctionOnSet, MapThenFoldSet, SumOf, Sums, AnyOf

LEMMA NaturalSum ==
    ASSUME NEW S, IsFiniteSet(S), NEW g, \A x \in S : g[x] \in Nat
    PROVE  SumOf(g, S) \in Nat /\ \A x \in S : g[x] <= SumOf(g, S)
<1> DEFINE iter == CHOOSE iter : Sums(g, SUBSET S, iter)
<1>1. Sums(g, SUBSET S, iter)
  BY SumExists
<1> HIDE DEF iter
<1>2. iter[S] \in Nat /\ \A x \in S : g[x] <= iter[S]
  BY <1>1, SumOfNaturals
<1>. QED  BY <1>2 DEF SumOf, iter

LEMMA LosingSum ==
    ASSUME NEW S, IsFiniteSet(S), NEW g, \A x \in S : g[x] \in Int /\ g[x] <= 0
    PROVE  SumOf(g, S) \in Int /\ SumOf(g, S) <= 0
<1> DEFINE iter == CHOOSE iter : Sums(g, SUBSET S, iter)
<1>1. Sums(g, SUBSET S, iter)
  BY SumExists
<1> HIDE DEF iter
<1>2. iter[S] \in Int /\ iter[S] <= 0
  BY <1>1, SumOfLosses
<1>. QED  BY <1>2 DEF SumOf, iter

-----------------------------------------------------------------------------
(* The health score.                                                        *)

LEMMA LatestFoundIn ==
    ASSUME HealthInv
    PROVE  /\ IsFiniteSet(DOMAIN LatestFound)
           /\ \A s \in DOMAIN LatestFound : LatestFound[s] \in Measures
<1> DEFINE D == DOMAIN LatestFound
<1>1. Len(analysis) \in Nat /\ Ids = 1 .. Len(analysis)
  BY LenProperties DEF HealthInv, HealthShape, Ids
<1>2. IsFiniteSet(Ids)
  BY <1>1, FS_Interval
<1>3. D = {t \in Tracked : Successes(t) # {}}
  BY DEF LatestFound
<1>4. \A s \in D : Latest(Successes(s)) \in Successes(s) /\ LatestFound[s] = analysis[Latest(Successes(s))].found
  <2> SUFFICES ASSUME NEW s \in D
               PROVE  /\ Latest(Successes(s)) \in Successes(s)
                      /\ LatestFound[s] = analysis[Latest(Successes(s))].found
    OBVIOUS
  <2>1. Successes(s) \in SUBSET Ids /\ Successes(s) # {}
    BY <1>3 DEF Successes
  <2>. QED  BY <1>3, <2>1, LatestIn DEF HealthInv, LatestFound
<1>5. \A s \in D : LatestFound[s] \in Measures
  BY <1>4 DEF Successes, HealthInv, HealthShape, RowOK
<1>6. IsFiniteSet(D)
  <2> DEFINE f == [s \in D |-> Latest(Successes(s))]
  <2>1. \A s \in D : f[s] \in Ids /\ analysis[f[s]].source = s
    BY <1>4 DEF Successes
  <2> HIDE DEF D
  <2>2. f \in [D -> Ids] /\ \A s, t \in D : f[s] = f[t] => s = t
    BY <2>1
  <2>3. f \in Injection(D, Ids)
    BY <2>2 DEF Injection, IsInjective
  <2>. QED  BY <1>2, <2>3, FS_Injection
<1>. QED  BY <1>5, <1>6

LEMMA Totals ==
    ASSUME HealthInv, NEW measure \in {"bugs", "vulnerabilities"}
    PROVE  /\ Total(measure) \in Nat
           /\ \A s \in DOMAIN LatestFound : LatestFound[s][measure] \in Nat /\ LatestFound[s][measure] <= Total(measure)
<1> DEFINE D == DOMAIN LatestFound
           g == [s \in D |-> LatestFound[s][measure]]
<1>1. IsFiniteSet(D) /\ \A s \in D : LatestFound[s] \in Measures
  BY LatestFoundIn
<1>2. \A s \in D : LatestFound[s][measure] \in Nat
  BY <1>1, MeasuresAssumption
<1>3. Total(measure) = SumFunction(g)
  BY DEF Total
<1>4. DOMAIN g = D /\ \A s \in D : g[s] = LatestFound[s][measure]
  OBVIOUS
<1> HIDE DEF D, g
<1>5. SumFunction(g) = SumOf(g, D)
  BY <1>4, SumFunctionIs
<1>6. SumOf(g, D) \in Nat /\ \A s \in D : g[s] <= SumOf(g, D)
  BY <1>1, <1>2, <1>4, NaturalSum
<1>. QED  BY <1>2, <1>3, <1>4, <1>5, <1>6 DEF D

LEMMA InsightsCost ==
    ASSUME HealthInv, NEW newest \in Newest
    PROVE  InsightDeduction(newest) \in -20 .. 0
<1> DEFINE g == [i \in newest |-> PerSeverity[insights[i].what.severity]]
<1>1. insights \in Seq(InsightRows) /\ Len(insights) \in Nat /\ DOMAIN insights = 1 .. Len(insights)
      /\ IsFiniteSet(DOMAIN insights)
  BY LenProperties, FS_Interval DEF HealthInv, HealthShape
<1>2. newest \in SUBSET DOMAIN insights
  BY DEF Newest, kSubset
<1>3. IsFiniteSet(newest)
  BY <1>1, <1>2, FS_Subset
<1>4. \A i \in newest : insights[i].what.severity \in Grades
  <2>1. \A i \in newest : insights[i] \in InsightRows
    BY <1>1, <1>2, ElementOfSeq
  <2>. QED  BY <2>1 DEF InsightRows, AnInsight
<1>5. \A i \in newest : g[i] \in Int /\ g[i] <= 0
  BY <1>4 DEF Grades, PerSeverity
<1>6. DOMAIN g = newest
  OBVIOUS
<1>7. InsightDeduction(newest) = Largest(SumFunction(g), -20)
  BY DEF InsightDeduction
<1> HIDE DEF g
<1>8. SumFunction(g) \in Int /\ SumFunction(g) <= 0
  BY <1>3, <1>5, <1>6, SumFunctionIs, LosingSum
<1>. QED  BY <1>7, <1>8 DEF Largest

LEMMA ScoreIsHonest == HealthInv => ScoreHidesNothing
<1> SUFFICES ASSUME HealthInv, NEW newest \in Newest
             PROVE  /\ Score(newest) \in 0 .. 100
                    /\ \A s \in DOMAIN LatestFound :
                         /\ LatestFound[s].gate = "ERROR" => Score(newest) <= 60
                         /\ LatestFound[s].vulnerabilities > 0 => Score(newest) <= 95
                         /\ LatestFound[s].vulnerabilities > 5 => Score(newest) <= 70
  BY DEF ScoreHidesNothing
<1> DEFINE v == Total("vulnerabilities")
           bugs == Total("bugs")
           gates == {LatestFound[s].gate : s \in DOMAIN LatestFound}
<1>1. v \in Nat /\ bugs \in Nat
  BY Totals
<1>2. \A s \in DOMAIN LatestFound : LatestFound[s].vulnerabilities \in Nat /\ LatestFound[s].vulnerabilities <= v
  BY Totals
<1>3. InsightDeduction(newest) \in -20 .. 0
  BY InsightsCost
<1>4. CoverageDeduction \in {-10, 0} /\ DuplicationDeduction \in {-10, 0}
  BY DEF CoverageDeduction, DuplicationDeduction
<1>5. GateDeduction \in {-40, -15, 0} /\ \A s \in DOMAIN LatestFound : LatestFound[s].gate = "ERROR" => GateDeduction = -40
  BY DEF GateDeduction
<1> HIDE DEF v, bugs, gates
<1>6. /\ VulnerabilityDeduction \in -30 .. 0 /\ BugDeduction \in -20 .. 0
      /\ v > 0 => VulnerabilityDeduction <= -5
      /\ v > 5 => VulnerabilityDeduction = -30
  BY <1>1 DEF VulnerabilityDeduction, BugDeduction, Largest, v, bugs
<1>7. CASE DOMAIN LatestFound = {}
  BY <1>7 DEF Score
<1>8. CASE DOMAIN LatestFound # {}
  <2> DEFINE sum == 100 + GateDeduction + VulnerabilityDeduction + BugDeduction
                        + CoverageDeduction + DuplicationDeduction + InsightDeduction(newest)
  <2>1. Score(newest) = Largest(0, sum)
    BY <1>8 DEF Score
  <2>2. /\ sum \in Int /\ sum <= 100 + GateDeduction + VulnerabilityDeduction
        /\ GateDeduction \in Int /\ GateDeduction <= 0
        /\ VulnerabilityDeduction \in Int /\ VulnerabilityDeduction <= 0
    BY <1>3, <1>4, <1>5, <1>6
  <2> HIDE DEF sum
  <2>3. Score(newest) \in 0 .. 100
    BY <2>1, <2>2 DEF Largest
  <2>4. ASSUME NEW s \in DOMAIN LatestFound
        PROVE  /\ LatestFound[s].gate = "ERROR" => Score(newest) <= 60
               /\ LatestFound[s].vulnerabilities > 0 => Score(newest) <= 95
               /\ LatestFound[s].vulnerabilities > 5 => Score(newest) <= 70
    <3>1. /\ LatestFound[s].gate = "ERROR" => GateDeduction = -40
          /\ LatestFound[s].vulnerabilities > 0 => VulnerabilityDeduction <= -5
          /\ LatestFound[s].vulnerabilities > 5 => VulnerabilityDeduction = -30
      BY <1>1, <1>2, <1>5, <1>6
    <3>. QED  BY <2>1, <2>2, <3>1 DEF Largest
  <2>. QED  BY <2>3, <2>4
<1>. QED  BY <1>7, <1>8

(* A project's insights and its score are honest, whatever its analyses     *)
(* found, failed to find or were lost to.                                   *)
THEOREM HealthIsHonestCorrect == HealthSpec => []HealthIsHonest
<1>1. HealthInv => HealthIsHonest
  BY ScoreIsHonest DEF HealthInv, HealthIsHonest
<1>. QED  BY <1>1, HealthStarts, HealthStep, PTL DEF HealthSpec

-----------------------------------------------------------------------------
(* Types of every part.                                                     *)

\* The handlers' screens offer buttons there are.
LEMMA KeyboardTyped ==
    ASSUME NEW x \in Actions
    PROVE  Keyboard(x).offers \subseteq Actions /\ Keyboard(x).back \in Actions
                \union {Nowhere}
<1>2. RunOffered \subseteq {"ra"}
  BY DEF RunOffered, If
<1>3. /\ MainMenu.offers \subseteq {"pl", "ad"} /\ MainMenu.back = Nowhere
      /\ ProjectDetail.offers \subseteq {"pr", "mm"} /\ ProjectDetail.back = "pl"
      /\ MembersList.offers \subseteq {"me", "mc"} /\ MembersList.back = "p"
      /\ LinksList.offers \subseteq {"adu"} /\ LinksList.back = "ad"
      /\ ReposList.offers \subseteq {"ra"} /\ ReposList.back = "p"
  BY <1>2 DEF MainMenu, ProjectDetail, MembersList, LinksList, ReposList, Screen, If
<1>4. ProjectsList.offers \subseteq {"p", "pl", "ad"} /\ ProjectsList.back = Nowhere
  BY <1>3 DEF ProjectsList, Screen
<1>. QED  BY <1>3, <1>4 DEF Keyboard, Actions, Managing, Admin, Screen, Candidates, RolePicker,
              MemberActions, ConfirmRemove, AdminHome, ConfirmUnlink, BackOnly

LEMMA ShowsTyped ==
    ASSUME MenuTypeOK, NEW s, NEW new, Shows(s, new), s.offers \subseteq Actions, s.back \in Actions \union {Nowhere}
    PROVE  screen'.offers \subseteq Actions /\ screen'.back \in Actions \union {Nowhere} /\ seen' \subseteq Actions
BY DEF MenuTypeOK, Shows

LEMMA MenuTypes == MenuTypeOK /\ [MenuNext]_menuVars => MenuTypeOK'
<1> SUFFICES ASSUME MenuTypeOK, [MenuNext]_menuVars PROVE MenuTypeOK'
  OBVIOUS
<1> DEFINE Shown == screen'.offers \subseteq Actions /\ screen'.back \in Actions \union {Nowhere} /\ seen' \subseteq Actions
<1>1. \A x \in Actions : \A new : Shows(Keyboard(x), new) => Shown
  BY KeyboardTyped, ShowsTyped
<1>2. \A new : Shows(Refusal, new) => Shown
  <2>1. Refusal.offers \subseteq Actions /\ Refusal.back \in Actions
    BY DEF Refusal, BackOnly, Screen, Actions
  <2>. QED  BY <2>1, ShowsTyped
<1>3. \A new : Shows(MainMenu, new) => Shown
  <2>1. MainMenu = Keyboard("mn") /\ "mn" \in Actions
    BY DEF Keyboard, Actions
  <2>. QED  BY <1>1, <2>1
<1>4. UNCHANGED <<screen, seen>> => Shown
  BY DEF MenuTypeOK
<1> HIDE DEF Shown
<1>5. CASE Start \/ TapRun \/ TapUnlink
  <2>1. UNCHANGED <<account, other>>
    BY <1>5 DEF Start, TapRun, TapUnlink
  <2>2. Shown
    BY <1>1, <1>3, <1>4, <1>5 DEF Start, TapRun, TapUnlink, Actions, Admin
  <2>. QED  BY <2>1, <2>2 DEF MenuTypeOK, Shown
<1>6. ASSUME NEW x \in Actions, TapUnlinked(x) \/ TapLooks(x) \/ TapRefused(x) PROVE MenuTypeOK'
  <2>1. UNCHANGED <<account, other>>
    BY <1>6 DEF TapUnlinked, TapLooks, TapRefused
  <2>2. Shown
    BY <1>1, <1>2, <1>4, <1>6 DEF TapUnlinked, TapLooks, TapRefused
  <2>. QED  BY <2>1, <2>2 DEF MenuTypeOK, Shown
<1>7. ASSUME NEW x \in {"mr", "mu", "mdc"}, NEW self \in BOOLEAN, NEW r \in Roles, TapMember(x, self, r)
      PROVE  MenuTypeOK'
  <2>1. Shown
    BY <1>1, <1>7 DEF TapMember, Actions, Managing
  <2>2. account' \in [perms : SUBSET Permissions, global : BOOLEAN, role : Roles, active : BOOLEAN] /\ other' \in Roles
    BY <1>7 DEF TapMember, MenuTypeOK
  <2>. QED  BY <2>1, <2>2 DEF MenuTypeOK, Shown
<1>8. CASE Elsewhere
  <2>1. account' \in [perms : SUBSET Permissions, global : BOOLEAN, role : Roles, active : BOOLEAN] /\ other' \in Roles
    BY <1>8 DEF Elsewhere, MenuTypeOK
  <2>. QED  BY <1>8, <2>1 DEF Elsewhere, MenuTypeOK
<1>9. CASE UNCHANGED menuVars
  BY <1>9 DEF menuVars, MenuTypeOK
<1>. QED  BY <1>5, <1>6, <1>7, <1>8, <1>9 DEF MenuNext

\* The waits between polls that failed are of 5 to 60 seconds.
LEMMA Waits == ASSUME failures \in Nat, failures > 0 PROVE Backoff \in 5 .. 60
<1> DEFINE k == Capped(failures - 1, 10)
<1>1. k \in 0 .. 10
  BY DEF Capped
<1>3. Backoff = Capped(60, 5 * 2 ^ k)
  BY DEF Backoff
<1> HIDE DEF k
<1>4. k = 0 \/ k = 1 \/ k = 2 \/ k = 3 \/ k = 4 \/ k = 5 \/ k = 6 \/ k = 7 \/ k = 8 \/ k = 9 \/ k = 10
  BY <1>1
<1>5. 2 ^ k \in {1, 2, 4, 8, 16, 32, 64, 128, 256, 512, 1024}
  <2>0. CASE k = 0
    BY <2>0
  <2>1. CASE k = 1
    BY <2>1
  <2>2. CASE k = 2
    BY <2>2
  <2>3. CASE k = 3
    BY <2>3
  <2>4. CASE k = 4
    BY <2>4
  <2>5. CASE k = 5
    BY <2>5
  <2>6. CASE k = 6
    BY <2>6
  <2>7. CASE k = 7
    BY <2>7
  <2>8. CASE k = 8
    BY <2>8
  <2>9. CASE k = 9
    BY <2>9
  <2>10. CASE k = 10
    BY <2>10
  <2>. QED  BY <1>4, <2>0, <2>1, <2>2, <2>3, <2>4, <2>5, <2>6, <2>7, <2>8, <2>9, <2>10
<1>. QED  BY <1>3, <1>5 DEF Capped

PollShape == fails \in 0 .. MaxFails /\ failures \in 0 .. fails

LEMMA PollTypes ==
    ASSUME PollInv, LostInv, PollShape, [PollNext]_pollVars
    PROVE  PollShape'
<1>1. MaxFails \in Nat
  BY PollBoundsAssumption
<1>2. CASE PollFails
  BY <1>1, <1>2 DEF PollFails, PollShape
<1>3. CASE \E c \in Bots : Arrive(c) \/ SaveToken(c)
  BY <1>3 DEF Arrive, SaveToken, PollShape
<1>4. CASE GetUpdates \/ RestartBot
  BY <1>1, <1>4 DEF GetUpdates, RestartBot, PollShape
<1>5. CASE \E raises \in BOOLEAN : HandleUpdate(raises)
  BY <1>5 DEF HandleUpdate, PollShape
<1>6. CASE UNCHANGED pollVars
  BY <1>6 DEF pollVars, PollShape
<1>. QED  BY <1>2, <1>3, <1>4, <1>5, <1>6 DEF PollNext

LEMMA PollTyped == PollInv /\ PollShape => PollTypeOK
<1> SUFFICES ASSUME PollInv, PollShape PROVE PollTypeOK
  OBVIOUS
<1>1. failures \in 0 .. MaxFails /\ failures \in Nat
  BY PollBoundsAssumption DEF PollShape
<1>. QED  BY <1>1, Waits DEF PollInv, PollTypeOK

\* A host deals different numbers to its projects.
Dealt == \A h \in Hosts : number[h] \in Numbering

LEMMA GitlabTypes == HooksInv /\ Dealt /\ [GitlabNext]_hookVars => Dealt'
<1> SUFFICES ASSUME HooksInv, Dealt, [GitlabNext]_hookVars PROVE Dealt'
  OBVIOUS
<1>1. number \in [Hosts -> [Paths -> Numbers]]
  BY DEF HooksInv, GitlabShape
<1>2. ASSUME NEW h \in Hosts, Reinstall(h) PROVE Dealt'
  <2>1. PICK f \in Numbering : number' = [number EXCEPT ![h] = f]
    BY <1>2 DEF Reinstall
  <2>. QED  BY <1>1, <2>1 DEF Dealt
<1>3. CASE UNCHANGED number
  BY <1>3 DEF Dealt
<1>4. CASE UNCHANGED hookVars
  BY <1>3, <1>4 DEF hookVars
<1>5. ASSUME NEW p \in Paths, BeginRegister(p) \/ BeginReconnect(p) PROVE UNCHANGED number
  BY <1>5 DEF BeginRegister, BeginReconnect, BeginCall
<1>6. ASSUME NEW i \in Calls, ReconnectCommit(i) \/ Post(i) \/ Save(i) \/ EndCall(i) PROVE UNCHANGED number
  BY <1>6 DEF ReconnectCommit, Post, Save, EndCall
<1>7. ASSUME NEW h \in Hosts, (\E p \in Paths : ConnectRepository(h, p)) \/ (\E new \in SUBSET Paths : SyncRepositories(h, new))
      PROVE  UNCHANGED number
  BY <1>7 DEF ConnectRepository, SyncRepositories
<1>. QED  BY <1>2, <1>3, <1>4, <1>5, <1>6, <1>7 DEF GitlabNext

LEMMA GitlabIsTyped == HooksInv /\ Dealt => GitlabTyped
BY ConnectedRows DEF HooksInv, GitlabShape, GitlabRows, Dealt, GitlabTyped

LEMMA GitlabDeals == GitlabInit => Dealt
BY DEF GitlabInit, Dealt

\* What a request sets, the preset intends.
SetsIntended ==
    \A r \in Changes : ask[r].at = "fix" => ask[r].sets \subseteq DOMAIN Intended[ask[r].preset]

LEMMA IntendedThresholds ==
    /\ \A p \in Presets : \A m \in DOMAIN Intended[p] : m \in Metrics /\ Intended[p][m] \in Thresholds
    /\ \A m \in DOMAIN SonarWay : m \in Metrics /\ SonarWay[m] \in Thresholds
<1> DEFINE All == {Intended[p] : p \in Presets} \union {SonarWay}
           Values(c) == {c[m] : m \in DOMAIN c}
<1>1. \A c \in All : \A m \in DOMAIN c : c[m] \in UNION {Values(x) : x \in All}
  OBVIOUS
<1>2. \A p \in Presets : Intended[p] \in All
  OBVIOUS
<1>. QED  BY <1>1, <1>2, PresetsAssumption, SonarWayAssumption DEF Thresholds

\* Somebody gives a gate conditions.
LEMMA ChangeTyped ==
    ASSUME GatesTyped, NEW r \in Changes, NEW p \in Presets, NEW c, DOMAIN c \subseteq Metrics,
           \A m \in DOMAIN c : c[m] \in Thresholds, Change(r, p, c)
    PROVE  /\ DOMAIN gate' \subseteq Presets /\ touched' \subseteq Changes
           /\ \A x \in DOMAIN gate' : DOMAIN gate'[x] \subseteq Metrics /\ \A m \in DOMAIN gate'[x] : gate'[x][m] \in Thresholds
BY DEF GatesTyped, Change, Others

LEMMA GatesTypes ==
    GatesInv /\ GatesTyped /\ SetsIntended /\ [GatesNext]_gateVars => GatesTyped' /\ SetsIntended'
<1> SUFFICES ASSUME GatesInv, GatesTyped, SetsIntended, [GatesNext]_gateVars PROVE GatesTyped' /\ SetsIntended'
  OBVIOUS
<1> DEFINE Gates == /\ DOMAIN gate' \subseteq Presets /\ touched' \subseteq Changes
                    /\ \A x \in DOMAIN gate' : DOMAIN gate'[x] \subseteq Metrics
                                               /\ \A m \in DOMAIN gate'[x] : gate'[x][m] \in Thresholds
           Marks == /\ assigned' \in [SonarKeys \union SonarBranches -> Presets \union {Custom, SonarDefault, NoProject}]
                    /\ shown' \in [SonarKeys -> Presets \union {Unset}]
<1>0. ask \in [Changes -> Asks] /\ (Gates /\ Marks => GatesTyped')
  BY DEF GatesInv, GatesShape, GatesTyped
<1>1. UNCHANGED <<gate, touched>> => Gates
  BY DEF GatesTyped
<1>2. UNCHANGED <<assigned, shown>> => Marks
  BY DEF GatesTyped
<1>3. ASSUME NEW r \in Changes, NEW to, ask' = [ask EXCEPT ![r] = to],
             to.at = "fix" => to.sets \subseteq DOMAIN Intended[to.preset]
      PROVE  SetsIntended'
  BY <1>0, <1>3 DEF SetsIntended
<1>4. ASSUME NEW r \in Changes, NEW at, at # "fix", GoesTo(r, at), ask[r].at # "idle" PROVE SetsIntended'
  <2>1. ask' = [ask EXCEPT ![r] = [ask[r] EXCEPT !.at = at]] /\ [ask[r] EXCEPT !.at = at].at = at
    BY <1>0, <1>4 DEF GoesTo, Asks, Plain, Fixing
  <2>. QED  BY <1>3, <1>4, <2>1
<1>5. UNCHANGED ask => SetsIntended'
  BY DEF SetsIntended
<1>6. ASSUME NEW r \in Changes, ask[r].at # "idle"
      PROVE  ask[r].key \in SonarKeys \union SonarBranches /\ ask[r].preset \in Presets
  BY <1>0, <1>6 DEF Asks, Plain, Fixing
<1>7. ASSUME NEW r \in Changes, NEW k \in SonarKeys \union SonarBranches, NEW op, NEW p, BeginAsk(r, k, op, p)
      PROVE  Gates /\ SetsIntended'
  BY <1>1, <1>3, <1>7 DEF BeginAsk
<1>8. ASSUME NEW k \in SonarKeys \union SonarBranches,
             assigned' = [assigned EXCEPT ![k] = IF @ = NoProject THEN SonarDefault ELSE @], UNCHANGED shown
      PROVE  Marks
  BY <1>8 DEF GatesTyped
<1>9. ASSUME NEW r \in Changes, NEW k \in SonarKeys, ConnectProject(r, k) \/ \E p \in Presets : Switch(r, k, p)
      PROVE  Gates /\ Marks /\ SetsIntended'
  BY <1>2, <1>7, <1>8, <1>9 DEF ConnectProject, Switch
<1>10. ASSUME NEW r \in Changes, NEW k \in SonarBranches, BeforeBranch(r, k) PROVE Gates /\ Marks /\ SetsIntended'
  BY <1>7, <1>8, <1>10 DEF BeforeBranch
<1>11. ASSUME NEW k \in SonarKeys, ConnectToNamed(k) \/ ChooseGate(k) PROVE Gates /\ Marks /\ SetsIntended'
  <2>1. Marks
    BY <1>11, DefaultAssumption DEF ConnectToNamed, ChooseGate, GatesTyped
  <2>. QED  BY <1>1, <1>5, <1>11, <2>1 DEF ConnectToNamed, ChooseGate
<1>12. ASSUME NEW r \in Changes, CreateGate(r) PROVE Gates /\ Marks /\ SetsIntended'
  <2>1. ask[r].at # "idle" /\ GoesTo(r, "read") /\ UNCHANGED <<assigned, shown>>
        /\ (UNCHANGED <<gate, touched>> \/ Change(r, ask[r].preset, SonarWay))
    BY <1>12 DEF CreateGate
  <2>2. Gates
    BY <1>1, <1>6, <2>1, ChangeTyped, IntendedThresholds
  <2>. QED  BY <1>2, <1>4, <2>1, <2>2
<1>13. ASSUME NEW r \in Changes, ReadConditions(r) PROVE Gates /\ Marks /\ SetsIntended'
  <2>1. SetsIntended'
    BY <1>3, <1>13 DEF ReadConditions, Needs
  <2>. QED  BY <1>2, <1>13, <2>1 DEF ReadConditions, GatesTyped
<1>14. ASSUME NEW r \in Changes, Reconciled(r) \/ CallFails(r) \/ Drop(r) PROVE Gates /\ Marks /\ SetsIntended'
  <2>1. UNCHANGED <<gate, touched, assigned, shown>> /\ ask[r].at # "idle"
    BY <1>14 DEF Reconciled, CallFails, Drop
  <2>2. GoesTo(r, "assign") \/ GoesTo(r, "row") \/ GoesTo(r, "done")
    BY <1>14 DEF Reconciled, CallFails, Drop
  <2>. QED  BY <1>1, <1>2, <1>4, <2>1, <2>2
<1>15. ASSUME NEW r \in Changes, AssignGate(r) PROVE Gates /\ Marks /\ SetsIntended'
  <2>1. UNCHANGED <<gate, touched>> /\ ask[r].at # "idle" /\ (GoesTo(r, "done") \/ GoesTo(r, "row"))
    BY <1>15 DEF AssignGate
  <2>2. Marks
    BY <1>6, <1>15, <2>1 DEF AssignGate, GatesTyped
  <2>. QED  BY <1>1, <1>4, <2>1, <2>2
<1>16. ASSUME NEW r \in Changes, CommitRow(r) PROVE Gates /\ Marks /\ SetsIntended'
  <2>1. UNCHANGED <<gate, touched>> /\ ask[r].at # "idle" /\ GoesTo(r, "done")
    BY <1>16 DEF CommitRow
  <2>2. Marks
    BY <1>6, <1>16, <2>1 DEF CommitRow, GatesTyped
  <2>. QED  BY <1>1, <1>4, <2>1, <2>2
<1>17. ASSUME NEW r \in Changes, NEW m \in Metrics, SetCondition(r, m) \/ DropCondition(r, m)
       PROVE  Gates /\ Marks /\ SetsIntended'
  <2> DEFINE p == ask[r].preset
  <2>1. ask[r] \in Fixing /\ p \in Presets /\ p \in DOMAIN gate /\ ask[r].sets \subseteq DOMAIN Intended[p]
    BY <1>0, <1>17 DEF SetCondition, DropCondition, Asks, Plain, Fixing, GatesInv, GatesShape, SetsIntended
  <2>2. /\ DOMAIN gate[p] \subseteq Metrics /\ \A n \in DOMAIN gate[p] : gate[p][n] \in Thresholds
        /\ \A n \in DOMAIN Intended[p] : Intended[p][n] \in Thresholds
    BY <2>1, IntendedThresholds DEF GatesTyped
  <2>3. CASE SetCondition(r, m)
    <3> DEFINE c == [n \in DOMAIN gate[p] \union {m} |-> IF n = m THEN Intended[p][m] ELSE gate[p][n]]
    <3>1. /\ Change(r, p, c) /\ m \in ask[r].sets /\ UNCHANGED <<assigned, shown>>
          /\ ask' = [ask EXCEPT ![r] = [ask[r] EXCEPT !.sets = ask[r].sets \ {m}]]
      BY <2>3 DEF SetCondition
    <3>2. DOMAIN c \subseteq Metrics /\ \A n \in DOMAIN c : c[n] \in Thresholds
      BY <2>1, <2>2, <3>1
    <3>3. [ask[r] EXCEPT !.sets = ask[r].sets \ {m}].sets \subseteq DOMAIN Intended[p]
          /\ [ask[r] EXCEPT !.sets = ask[r].sets \ {m}].preset = p
      BY <2>1 DEF Fixing
    <3> HIDE DEF c
    <3>. QED  BY <1>2, <1>3, <2>1, <3>1, <3>2, <3>3, ChangeTyped
  <2>4. CASE DropCondition(r, m)
    <3> DEFINE c == [n \in DOMAIN gate[p] \ {m} |-> gate[p][n]]
    <3>1. /\ Change(r, p, c) /\ UNCHANGED <<assigned, shown>> /\ ask[r].sets = {}
          /\ ask' = [ask EXCEPT ![r] = [ask[r] EXCEPT !.drops = ask[r].drops \ {m}]]
      BY <2>4 DEF DropCondition
    <3>2. DOMAIN c \subseteq Metrics /\ \A n \in DOMAIN c : c[n] \in Thresholds
      BY <2>1, <2>2, <3>1
    <3>3. [ask[r] EXCEPT !.drops = ask[r].drops \ {m}].sets = {}
      BY <2>1, <3>1 DEF Fixing
    <3> HIDE DEF c
    <3>. QED  BY <1>2, <1>3, <2>1, <3>1, <3>2, <3>3, ChangeTyped
  <2>. QED  BY <1>17, <2>3, <2>4
<1>18. ASSUME NEW p \in Presets, NEW m \in Metrics, EditGate(p, m) PROVE Gates /\ Marks /\ SetsIntended'
  <2>1. Gates
    BY <1>18 DEF EditGate, GatesTyped, Exists
  <2>. QED  BY <1>2, <1>5, <1>18, <2>1 DEF EditGate
<1>19. CASE UNCHANGED gateVars
  BY <1>1, <1>2, <1>5, <1>0, <1>19 DEF gateVars
<1> HIDE DEF Gates, Marks
<1>. QED  BY <1>0, <1>9, <1>10, <1>11, <1>12, <1>13, <1>14, <1>15, <1>16, <1>17, <1>18, <1>19 DEF GatesNext

LEMMA GatesStart == GatesInit => GatesInv /\ GatesTyped /\ SetsIntended
BY DEF GatesInit, GatesInv, GatesShape, Asks, GatesTyped, SetsIntended

\* What is asked for by name is a public repository.
Named(q) ==
    /\ q.op = "public" => q.repo \in Open
    /\ q.op = "bulkpublic" => q.repo \in Open /\ q.todo \in Seq(Open) /\ q.pending \subseteq Open

TablesTyped ==
    /\ byUrl \subseteq Open /\ marks \subseteq Projects \X {"github", "gitlab", "sonar"}
    /\ asked \subseteq Repos /\ troubles \in 0 .. MaxTroubles
    /\ \A i \in Active : Named(req[i])

LEMMA NamedStays ==
    ASSUME SourceShape, TablesTyped, NEW i \in Requests, NEW to, req' = [req EXCEPT ![i] = to],
           to.at \notin {"done", "unmade"} => Named(to)
    PROVE  \A k \in Active' : Named(req'[k])
<1> SUFFICES ASSUME NEW k \in Active' PROVE Named(req'[k])
  OBVIOUS
<1>1. k \in Requests /\ req'[k].at \notin {"done", "unmade"}
  BY DEF Active, Made
<1>2. CASE k = i
  BY <1>1, <1>2 DEF SourceShape
<1>3. CASE k # i
  <2>1. req'[k] = req[k]
    BY <1>1, <1>3 DEF SourceShape
  <2>2. k \in Active
    BY <1>1, <2>1 DEF Active, Made
  <2>. QED  BY <2>1, <2>2 DEF TablesTyped
<1>. QED  BY <1>2, <1>3

LEMMA NamedGoes ==
    ASSUME SourceShape, TablesTyped, NEW i \in Active, NEW at, Goes(i, at) \/ Ends(i)
    PROVE  \A k \in Active' : Named(req'[k])
<1>1. i \in Requests /\ req[i] \in SourceReqs /\ Named(req[i])
  BY ActiveRequests DEF Active, Made, TablesTyped
<1>2. CASE Ends(i)
  BY <1>1, <1>2, NamedStays DEF Ends
<1>3. CASE Goes(i, at)
  <2>1. req' = [req EXCEPT ![i] = [req[i] EXCEPT !.at = at]]
    BY <1>3 DEF Goes
  <2>2. Named([req[i] EXCEPT !.at = at])
    BY <1>1 DEF Named, SourceReqs
  <2>. QED  BY <1>1, <2>1, <2>2, NamedStays
<1>. QED  BY <1>2, <1>3

LEMMA NamedBegins ==
    ASSUME SourceShape, TablesTyped, NEW q, Begin(q), Named(q)
    PROVE  \A k \in Active' : Named(req'[k])
BY NamedStays DEF Begin

\* A step of the tables that leaves what is typed here alone.
LEMMA TablesRest ==
    ASSUME TablesTyped, UNCHANGED <<byUrl, marks, asked, troubles>>, \A k \in Active' : Named(req'[k])
    PROVE  TablesTyped'
BY DEF TablesTyped

LEMMA SourceMarks == ASSUME NEW r PROVE Source(r) \in {"github", "gitlab"}
BY DEF Source

LEMMA ConnectTypes ==
    ASSUME SourceShape, TablesTyped, NEW i \in Active, Connect(i)
    PROVE  TablesTyped'
<1> DEFINE q == req[i]
<1>1. i \in Requests /\ q \in SourceReqs /\ Named(q)
  BY ActiveRequests DEF Active, Made, TablesTyped
<1>2. \A k \in Active' : Named(req'[k])
  <2>1. Ends(i) \/ Goes(i, "read")
    BY DEF Connect, Refused
  <2>. QED  BY <2>1, NamedGoes
<1>3. \/ UNCHANGED <<byUrl, marks>>
      \/ /\ byUrl' = IF q.op = "public" THEN byUrl \union {q.repo} ELSE byUrl
         /\ marks' = IF q.at = "connect" THEN Connects(q) ELSE marks
  BY DEF Connect, Refused, tables
<1>4. byUrl' \subseteq Open
  BY <1>1, <1>3 DEF TablesTyped, Named
<1>5. marks' \subseteq Projects \X {"github", "gitlab", "sonar"}
  <2>1. <<q.proj, Source(q.repo)>> \in Projects \X {"github", "gitlab", "sonar"}
    BY <1>1, SourceMarks DEF SourceReqs
  <2>. QED  BY <1>3, <2>1 DEF TablesTyped, Connects
<1>. QED  BY <1>2, <1>4, <1>5 DEF TablesTyped, Connect

LEMMA ListTypes ==
    ASSUME SourceInv, TablesTyped, NEW i \in Active, BulkLook(i) \/ BulkTake(i) \/ BulkEnd(i) \/ BulkDeadlock(i)
    PROVE  TablesTyped'
<1> DEFINE q == req[i]
           r == q.repo
           later == IF q.moves THEN q.pending \union {r} ELSE q.pending
<1>0. SourceShape
  BY DEF SourceInv
<1>1. i \in Requests /\ q \in SourceReqs /\ Named(q)
  BY <1>0, ActiveRequests DEF Active, Made, TablesTyped
<1>2. q.op \in {"bulk", "bulkpublic"}
  BY DEF SourceInv, Sound, Listing, BulkLook, BulkTake, BulkEnd, BulkDeadlock
<1>3. CASE BulkLook(i)
  <2>1. PICK to : /\ req' = [req EXCEPT ![i] = to]
                  /\ to \in {[q EXCEPT !.todo = Tail(q.todo)],
                             [q EXCEPT !.at = "take", !.repo = Head(q.todo), !.todo = Tail(q.todo),
                                       !.moves = mapping[Head(q.todo)] # q.proj]}
    BY <1>3 DEF BulkLook
  <2>2. q.todo # <<>> /\ q.todo \in Seq(Repos)
    BY <1>1, <1>3 DEF BulkLook, SourceReqs
  <2>3. q.todo \in Seq(Open) => Head(q.todo) \in Open /\ Tail(q.todo) \in Seq(Open)
    BY <2>2
  <2>4. to.op = q.op /\ to.pending = q.pending /\ to.todo = Tail(q.todo) /\ to.repo \in {q.repo, Head(q.todo)}
    BY <1>1, <2>1 DEF SourceReqs
  <2>5. Named(to)
    BY <1>1, <1>2, <2>3, <2>4 DEF Named
  <2>. QED  BY <1>0, <1>1, <1>3, <2>1, <2>5, NamedStays, TablesRest DEF BulkLook
<1>4. CASE BulkTake(i)
  <2>1. Named(q) => Named([q EXCEPT !.pending = later, !.at = "look"])
                    /\ Named([q EXCEPT !.pending = {}, !.marked = TRUE, !.at = "look"])
    BY <1>1, <1>2 DEF Named, SourceReqs
  <2>2. \/ Ends(i)
        \/ req' = [req EXCEPT ![i] = [q EXCEPT !.pending = later, !.at = "look"]]
        \/ req' = [req EXCEPT ![i] = [q EXCEPT !.pending = {}, !.marked = TRUE, !.at = "look"]]
    BY <1>4 DEF BulkTake, Refused
  <2>3. \A k \in Active' : Named(req'[k])
    BY <1>0, <1>1, <2>1, <2>2, NamedStays, NamedGoes
  <2>4. \/ UNCHANGED <<byUrl, marks>>
        \/ /\ byUrl' = IF q.op = "bulkpublic" THEN byUrl \union later ELSE byUrl
           /\ marks' = Connects(q)
    BY <1>4 DEF BulkTake, Refused, tables
  <2>5. byUrl' \subseteq Open
    BY <1>1, <2>4 DEF Named, TablesTyped
  <2>6. marks' \subseteq Projects \X {"github", "gitlab", "sonar"}
    <3>1. <<q.proj, Source(q.repo)>> \in Projects \X {"github", "gitlab", "sonar"}
      BY <1>1, SourceMarks DEF SourceReqs
    <3>. QED  BY <2>4, <3>1 DEF TablesTyped, Connects
  <2>. QED  BY <1>4, <2>3, <2>5, <2>6 DEF BulkTake, TablesTyped
<1>5. CASE BulkEnd(i)
  <2>1. \A k \in Active' : Named(req'[k])
    BY <1>0, <1>5, NamedGoes DEF BulkEnd
  <2>2. byUrl' \subseteq Open
    BY <1>1, <1>5 DEF BulkEnd, Named, TablesTyped
  <2>. QED  BY <1>5, <2>1, <2>2 DEF BulkEnd, TablesTyped
<1>6. CASE BulkDeadlock(i)
  <2>1. \A k \in Active' : Named(req'[k])
    BY <1>0, <1>6, NamedGoes DEF BulkDeadlock, Refused
  <2>. QED  BY <1>6, <2>1, TablesRest DEF BulkDeadlock, Refused, tables
<1>. QED  BY <1>3, <1>4, <1>5, <1>6

LEMMA MakingTypes ==
    ASSUME SourceInv, TablesTyped, NEW i \in Active,
           ReadExisting(i) \/ CreateSonarSide(i) \/ CreateRow(i) \/ EnqueueAnalysis(i) \/ FailRequest(i)
    PROVE  TablesTyped'
<1> DEFINE q == req[i]
<1>0. SourceShape /\ MaxTroubles \in Nat
  BY RequestsAssumption DEF SourceInv
<1>1. i \in Requests /\ q \in SourceReqs /\ Named(q)
  BY <1>0, ActiveRequests DEF Active, Made, TablesTyped
<1>2. CASE ReadExisting(i)
  <2>1. \A k \in Active' : Named(req'[k])
    BY <1>0, <1>2, NamedGoes DEF ReadExisting
  <2>. QED  BY <1>2, <2>1, TablesRest DEF ReadExisting
<1>3. CASE CreateSonarSide(i)
  <2> DEFINE to == [q EXCEPT !.at = "row", !.marked = HasSonar(q.proj)]
  <2>1. req' = [req EXCEPT ![i] = to]
    <3>1. req' = [req EXCEPT ![i].at = "row", ![i].marked = HasSonar(q.proj)]
      BY <1>3 DEF CreateSonarSide
    <3>. QED  BY <1>0, <1>1, <3>1 DEF SourceShape
  <2>2. Named(to)
    BY <1>1 DEF Named, SourceReqs
  <2> HIDE DEF to
  <2>3. \A k \in Active' : Named(req'[k])
    BY <1>0, <1>1, <2>1, <2>2, NamedStays
  <2>. QED  BY <1>3, <2>3, TablesRest DEF CreateSonarSide
<1>4. CASE CreateRow(i)
  <2>1. Ends(i) \/ Goes(i, "sha")
    BY <1>4 DEF CreateRow, Refused
  <2>2. \A k \in Active' : Named(req'[k])
    BY <1>0, <2>1, NamedGoes
  <2>3. marks' \subseteq marks \union {<<q.proj, "sonar">>} /\ UNCHANGED <<byUrl, asked, troubles>>
    BY <1>4 DEF CreateRow, Refused, tables
  <2>. QED  BY <1>1, <2>2, <2>3 DEF TablesTyped, SourceReqs
<1>5. CASE EnqueueAnalysis(i)
  <2>1. \A k \in Active' : Named(req'[k])
    BY <1>0, <1>5, NamedGoes DEF EnqueueAnalysis
  <2>. QED  BY <1>1, <1>5, <2>1 DEF EnqueueAnalysis, TablesTyped, SourceReqs
<1>6. CASE FailRequest(i)
  <2>1. Ends(i) \/ Goes(i, "look")
    BY <1>6 DEF FailRequest
  <2>2. \A k \in Active' : Named(req'[k])
    BY <1>0, <2>1, NamedGoes
  <2>. QED  BY <1>0, <1>6, <2>2 DEF FailRequest, TablesTyped
<1>. QED  BY <1>2, <1>3, <1>4, <1>5, <1>6

LEMMA AskingTypes ==
    ASSUME SourceInv, TablesTyped,
           \/ \E r \in Repos, p \in Projects : AskMap(r, p) \/ AskConnectPublic(r, p) \/ AskCreate(r, p)
           \/ \E r \in Repos : AskAnalyze(r) \/ AskRun(r)
           \/ \E op \in {"bulk", "bulkpublic"}, rs \in Lists, p \in Projects : AskBulk(op, rs, p)
           \/ PickUp
    PROVE  TablesTyped'
<1>0. SourceShape
  BY DEF SourceInv
<1>1. \A k \in Active' : Named(req'[k])
  <2>1. ASSUME NEW r \in Repos, NEW p \in Projects, AskMap(r, p) PROVE \E q : Begin(q) /\ Named(q)
    <3> DEFINE to == [Request("map", r, p, IF <<p, Source(r)>> \in marks THEN "commit" ELSE "connect")
                        EXCEPT !.moves = mapping[r] # p]
    <3>1. Begin(to)
      BY <2>1 DEF AskMap
    <3>2. Named(to)
      BY DEF Named, Request
    <3>. QED  BY <3>1, <3>2
  <2>2. ASSUME NEW r \in Repos, NEW p \in Projects, AskConnectPublic(r, p) PROVE \E q : Begin(q) /\ Named(q)
    <3> DEFINE to == [Request("public", r, p, IF <<p, "github">> \in marks THEN "commit" ELSE "connect")
                        EXCEPT !.moves = TRUE]
    <3>1. Begin(to) /\ r \in Open
      BY <2>2 DEF AskConnectPublic
    <3>2. Named(to)
      BY <3>1 DEF Named, Request
    <3>. QED  BY <3>1, <3>2
  <2>3. ASSUME NEW op \in {"bulk", "bulkpublic"}, NEW rs \in Lists, NEW p \in Projects, AskBulk(op, rs, p)
        PROVE  \E q : Begin(q) /\ Named(q)
    <3> DEFINE to == [Request(op, rs[1], p, "look") EXCEPT !.todo = rs, !.marked = <<p, Source(rs[1])>> \in marks]
    <3>1. Begin(to) /\ (op = "bulkpublic" => \A n \in DOMAIN rs : rs[n] \in Open)
      BY <2>3 DEF AskBulk
    <3>2. rs # <<>> /\ rs \in Seq(Hub \union Open \union Lab)
      BY ListsAssumption
    <3>3. op = "bulkpublic" => rs[1] \in Open /\ rs \in Seq(Open)
      BY <3>1, <3>2
    <3>4. Named(to)
      BY <3>3 DEF Named, Request
    <3>. QED  BY <3>1, <3>4
  <2>4. ASSUME NEW r, NEW p, NEW op \in {"provision", "analyze", "create", "run"}, NEW at
        PROVE  Named(Request(op, r, p, at))
    BY DEF Named, Request
  <2>5. ASSUME NEW r \in Repos, AskAnalyze(r) \/ AskRun(r) \/ (\E p \in Projects : AskCreate(r, p)) PROVE \E q : Begin(q) /\ Named(q)
    BY <2>4, <2>5 DEF AskAnalyze, AskRun, AskCreate
  <2>6. PickUp => \E q : Begin(q) /\ Named(q)
    BY <2>4 DEF PickUp
  <2>7. \E q : Begin(q) /\ Named(q)
    BY <2>1, <2>2, <2>3, <2>5, <2>6
  <2>. QED  BY <1>0, <2>7, NamedBegins
<1>2. UNCHANGED <<byUrl, marks, asked, troubles>>
  BY DEF AskMap, AskConnectPublic, AskCreate, AskAnalyze, AskRun, AskBulk, PickUp
<1>. QED  BY <1>1, <1>2, TablesRest

LEMMA SourceTypes == SourceInv /\ TablesTyped /\ [SourceNext]_srcVars => TablesTyped'
<1> SUFFICES ASSUME SourceInv, TablesTyped, [SourceNext]_srcVars PROVE TablesTyped'
  OBVIOUS
<1>0. SourceShape
  BY DEF SourceInv
<1>1. ASSUME UNCHANGED <<byUrl, asked, troubles, req>>, marks' \subseteq Projects \X {"github", "gitlab", "sonar"}
      PROVE  TablesTyped'
  BY <1>1 DEF TablesTyped, Active, Made
<1>2. CASE UNCHANGED srcVars \/ Sync(Hub) \/ Sync(Lab)
  BY <1>1, <1>2 DEF srcVars, Sync, TablesTyped
<1>3. ASSUME NEW p \in Projects, NEW m \in {"github", "gitlab", "sonar"}, AddIntegration(p, m) PROVE TablesTyped'
  BY <1>1, <1>3 DEF AddIntegration, TablesTyped
<1>4. ASSUME NEW i \in Requests, Advance(i) \/ FailRequest(i) PROVE TablesTyped'
  <2>1. i \in Active
    BY <1>4 DEF Advance, FailRequest
  <2>. QED  BY <1>0, <1>4, <2>1, ConnectTypes, ListTypes, MakingTypes DEF Advance
<1>. QED  BY <1>2, <1>3, <1>4, AskingTypes DEF SourceNext

LEMMA TablesStart == SourceInit => TablesTyped
BY RequestsAssumption DEF SourceInit, TablesTyped, Active, Made, Unmade

LEMMA SourceTyped == SourceInv /\ TablesTyped => SourceTypeOK
<1> SUFFICES ASSUME SourceInv, TablesTyped PROVE SourceTypeOK
  OBVIOUS
<1>1. \A i \in Active : req[i].repo \in Repos /\ req[i].proj \in Projects
  BY ActiveRequests DEF SourceInv, SourceReqs, Active, Made
<1>. QED  BY <1>1 DEF SourceInv, SourceShape, TablesTyped, SourceTypeOK

LEMMA MenuStart == MenuInit => MenuTypeOK
<1> SUFFICES ASSUME MenuInit PROVE MenuTypeOK
  OBVIOUS
<1>1. account \in [perms : SUBSET Permissions, global : BOOLEAN, role : Roles, active : BOOLEAN] /\ other \in Roles
  BY DEF MenuInit, Roles
<1>2. screen = Screen({}, Nowhere) /\ seen = {}
  BY DEF MenuInit
<1>3. screen.offers = {} /\ screen.back = Nowhere
  BY <1>2 DEF Screen
<1>. QED  BY <1>1, <1>2, <1>3 DEF MenuTypeOK

LEMMA PollShapeStarts == PollInit => PollShape
BY PollBoundsAssumption DEF PollInit, PollShape

\* The invariants of all the parts, whichever of them moves.
AllTyped ==
    /\ TypeOK
    /\ SourceInv /\ TablesTyped
    /\ HooksInv /\ Dealt
    /\ GatesInv /\ GatesTyped /\ SetsIntended
    /\ PollInv /\ LostInv /\ PollShape
    /\ MenuTypeOK
    /\ HealthInv

(***************************************************************************)
(* Analyses, repositories, webhooks, gates, the bot and what is drawn from *)
(* analyses keep their types, whichever of them moves.                     *)
(***************************************************************************)
THEOREM TypesOKCorrect == AllSpec => []TypesOK
<1>1. AllInit => AllTyped
  BY InitTyped, SourceStart, TablesStart, GitlabStart, GitlabDeals, GatesStart, PollStart, PollShapeStarts, MenuStart,
     HealthStarts DEF AllInit, AllTyped
<1>2. AllTyped /\ [AllNext]_<<part, vars, srcVars, hookVars, gateVars, pollVars, menuVars, healthVars>> => AllTyped'
  <2> SUFFICES ASSUME AllTyped, [AllNext]_<<part, vars, srcVars, hookVars, gateVars, pollVars, menuVars, healthVars>>
               PROVE  AllTyped'
    OBVIOUS
  <2>1. /\ [Next]_vars /\ [SourceNext]_srcVars /\ [GitlabNext]_hookVars /\ [GatesNext]_gateVars
        /\ [PollNext]_pollVars /\ [MenuNext]_menuVars /\ [HealthNext]_healthVars
    BY DEF AllNext
  <2>2. TypeOK'
    BY <2>1, StepsTyped DEF AllTyped
  <2>3. SourceInv' /\ TablesTyped'
    BY <2>1, SourceStep, SourceTypes DEF AllTyped
  <2>4. HooksInv' /\ Dealt'
    BY <2>1, GitlabStep, GitlabTypes DEF AllTyped
  <2>5. GatesInv' /\ GatesTyped' /\ SetsIntended'
    BY <2>1, GatesStep, GatesTypes DEF AllTyped
  <2>6. PollInv' /\ LostInv' /\ PollShape'
    BY <2>1, PollStep, PollTypes DEF AllTyped
  <2>7. MenuTypeOK' /\ HealthInv'
    BY <2>1, MenuTypes, HealthStep DEF AllTyped
  <2>. QED  BY <2>2, <2>3, <2>4, <2>5, <2>6, <2>7 DEF AllTyped
<1>3. AllTyped => TypesOK
  BY SourceTyped, GitlabIsTyped, PollTyped, HealthTypes DEF AllTyped, TypesOK
<1>. QED  BY <1>1, <1>2, <1>3, PTL DEF AllSpec

LEMMA PartsKeepTheirSpecs ==
    AllSpec => /\ Spec /\ SourceSpec /\ GitlabSpec /\ GatesSpec
               /\ PollSpec /\ MenuSpec /\ HealthSpec
<1>1. AllInit => /\ Init /\ SourceInit /\ GitlabInit /\ GatesInit
                 /\ PollInit /\ MenuInit /\ HealthInit
  BY DEF AllInit
<1>2. [AllNext]_<<part, vars, srcVars, hookVars, gateVars, pollVars, menuVars, healthVars>> =>
        /\ [Next]_vars /\ [SourceNext]_srcVars /\ [GitlabNext]_hookVars /\ [GatesNext]_gateVars
        /\ [PollNext]_pollVars /\ [MenuNext]_menuVars /\ [HealthNext]_healthVars
  BY DEF AllNext
<1>. QED
  BY <1>1, <1>2, PTL DEF AllSpec, Spec, SourceSpec, GitlabSpec, GatesSpec, PollSpec, MenuSpec, HealthSpec

(***************************************************************************)
(* What each part keeps alone (analysis_worker.py, provisioning_worker.py, *)
(* routers/gitlab.py, provisioning.py, modules/telegram, core/health.py)   *)
(* it keeps in company of the others.                                      *)
(***************************************************************************)
THEOREM TogetherCorrect ==
    AllSpec => /\ []RunningIsWorkedOn /\ []WebhookOnce /\ CleanRunIsExact
               /\ []MarkersHold /\ []RegisteredHears /\ ReconciledIsPreset
               /\ []HandledOnce /\ []FreshButtonsWork /\ []HealthIsHonest
BY PartsKeepTheirSpecs, RunningIsWorkedOnCorrect, WebhookOnceCorrect, CleanRunIsExactCorrect,
   MarkersHoldCorrect, RegisteredHearsCorrect, ReconciledIsPresetCorrect, HandledOnceCorrect,
   FreshButtonsWorkCorrect, HealthIsHonestCorrect, PTL
=============================================================================
