---------------------------- MODULE AnalysisRuns ----------------------------
(***************************************************************************)
(* Code analysis of one connected repository: the clone_and_analyze job of *)
(* backend/app/workers/analysis_worker.py, the push webhooks and manual    *)
(* requests that queue it (routers/github.py, routers/gitlab.py,           *)
(* services/analysis.py) and the reaping of interrupted runs.              *)
(*                                                                         *)
(* A run is a row in Postgres, one per commit, which a second analysis of  *)
(* the commit uses again; its gate result and its findings are rows of     *)
(* their own.  SonarQube keeps one project per branch, which holds what    *)
(* was analysed last.  Transactions are READ COMMITTED: a commit writes    *)
(* the columns that changed since the read.                                *)
(***************************************************************************)
EXTENDS Naturals, FiniteSets

CONSTANTS
    Branches, Commits,
    Watched,     \* branches whose pushes are analysed
    Keys, KeyOf, \* Sonar projects, and the one of each branch
    JobIds,
    Limit        \* bound: how often each kind of event may happen

None == "none"

\* What starts work: pushes, and analyses asked for by hand.  What gets in the
\* way: claims that expire, failures the code handles, failures outside the
\* handler's try block or of the reaping, commits that fail, cancelled jobs,
\* restarts of the backend.
Causes   == {"push", "ask"}
Troubles == {"expiry", "fault", "gap", "spoilt", "cancel", "restart"}
Kinds    == Causes \union Troubles \union {"causes", "troubles"}

ASSUME WatchedAssumption == Watched \subseteq Branches
ASSUME KeysAssumption == KeyOf \in [Branches -> Keys]
ASSUME CommitsAssumption == None \notin Commits
ASSUME LimitAssumption == Limit \in [Kinds -> Nat]

VARIABLES
    head,        \* the commit at the tip of each branch
    deliveries,  \* webhook deliveries under way: branch and commit
    claimed,     \* commits a webhook has claimed in Redis
    accepted,    \* deliveries that passed the claim and queue their job next
    sonar,       \* the source each Sonar project analysed last
    tasks,       \* uploaded reports that Sonar has not processed yet
    run,         \* analysis_runs: status, and the source of its measures
    results,     \* gate results and findings of each run, by job and source
    jobs,
    count        \* how much of each limit is used

vars == <<head, deliveries, claimed, accepted, sonar, tasks, run, results, jobs,
          count>>

Happens(e) ==
    LET all == IF e \in Causes THEN "causes" ELSE "troubles" IN
    /\ count[e] < Limit[e] /\ count[all] < Limit[all]
    /\ count' = [count EXCEPT ![e] = @ + 1, ![all] = @ + 1]

NoRun == [status |-> "none", measures |-> None]
NewJob(trigger, b, c) ==
    [pc |-> "queued", trigger |-> trigger, branch |-> b, commit |-> c,
     seen |-> NoRun, gate |-> None, measures |-> None, issues |-> None,
     old |-> {}, doomed |-> {}, alone |-> FALSE]

NoJob == [NewJob(None, None, None) EXCEPT !.pc = "new"]

\* A job that is over has no session and holds nothing.
Over(job) == [NewJob(job.trigger, job.branch, job.commit) EXCEPT !.pc = "over"]

At(k, pc) == jobs[k].pc = pc
Key(k)    == KeyOf[jobs[k].branch]
Run(k)    == run[jobs[k].commit]

Init ==
    /\ head \in [Branches -> Commits]
    /\ deliveries = {}
    /\ claimed = {}
    /\ accepted = {}
    /\ sonar = [s \in Keys |-> None]
    /\ tasks = {}
    /\ run = [c \in Commits |-> NoRun]
    /\ results = [c \in Commits |-> {}]
    /\ jobs = [k \in JobIds |-> NoJob]
    /\ count = [e \in Kinds |-> 0]

-----------------------------------------------------------------------------
(* What has a commit analysed.                                             *)

\* git push: a new tip, possibly one another branch has had, and a delivery.
Push(b, c) ==
    /\ Happens("push")
    /\ head[b] # c
    /\ head' = [head EXCEPT ![b] = c]
    /\ deliveries' = deliveries \union {[branch |-> b, commit |-> c]}
    /\ UNCHANGED <<claimed, accepted, sonar, tasks, run, results, jobs>>

\* Fault variant: the claim is looked at but never written.
DeliverUnclaimed(d) ==
    /\ d \in deliveries
    /\ deliveries' \in {deliveries, deliveries \ {d}}
    /\ IF d.branch \in Watched /\ d.commit \notin claimed
       THEN accepted' = accepted \union {d}
       ELSE UNCHANGED accepted
    /\ UNCHANGED <<head, claimed, sonar, tasks, run, results, jobs, count>>

\* Fault variant: the claim is on the repository, not on the commit.
DeliverOncePerRepository(d) ==
    /\ d \in deliveries
    /\ deliveries' \in {deliveries, deliveries \ {d}}
    /\ IF d.branch \in Watched /\ claimed = {}
       THEN accepted' = accepted \union {d} /\ claimed' = claimed \union {d.commit}
       ELSE UNCHANGED <<accepted, claimed>>
    /\ UNCHANGED <<head, sonar, tasks, run, results, jobs, count>>

\* github_webhook and gitlab_webhook up to SET NX.  The provider may deliver
\* again.  A claim that fails lets the delivery pass.
Deliver(d) ==
    /\ d \in deliveries
    /\ deliveries' \in {deliveries, deliveries \ {d}}
    /\ IF d.branch \in Watched /\ d.commit \notin claimed
       THEN accepted' = accepted \union {d} /\ claimed' = claimed \union {d.commit}
       ELSE UNCHANGED <<accepted, claimed>>
    /\ UNCHANGED <<head, sonar, tasks, run, results, jobs, count>>

DeliverUnguarded(d) ==
    /\ Happens("fault")
    /\ d \in deliveries
    /\ d.branch \in Watched
    /\ deliveries' = deliveries \ {d}
    /\ accepted' = accepted \union {d}
    /\ UNCHANGED <<head, claimed, sonar, tasks, run, results, jobs>>

\* The claim's hour is over.
Expire(c) ==
    /\ Happens("expiry")
    /\ c \in claimed
    /\ claimed' = claimed \ {c}
    /\ UNCHANGED <<head, deliveries, accepted, sonar, tasks, run, results, jobs>>

Enqueue(k, trigger, b, c) ==
    /\ jobs[k] = NoJob
    /\ jobs' = [jobs EXCEPT ![k] = NewJob(trigger, b, c)]

EnqueuePushed(d, k) ==
    /\ d \in accepted
    /\ accepted' = accepted \ {d}
    /\ Enqueue(k, "push", d.branch, d.commit)
    /\ UNCHANGED <<head, deliveries, claimed, sonar, tasks, run, results, count>>

\* Redis fails: the claim stays.
EnqueueFails(d) ==
    /\ Happens("fault")
    /\ d \in accepted
    /\ accepted' = accepted \ {d}
    /\ UNCHANGED <<head, deliveries, claimed, sonar, tasks, run, results, jobs>>

\* run_repository_analysis and auto_provision_and_analyze: the branch's tip.
Ask(k, b) ==
    /\ Happens("ask")
    /\ Enqueue(k, "manual", b, head[b])
    /\ UNCHANGED <<head, deliveries, claimed, accepted, sonar, tasks, run, results>>

-----------------------------------------------------------------------------
(* The job, from one shared read or write to the next.                     *)

Working(k) == jobs[k].pc \notin {"new", "queued", "over"}

\* Jobs and reports that work on the same run or Sonar project.
Rivals(k) == {j \in JobIds \ {k} : /\ Working(j)
                                   /\ \/ jobs[j].commit = jobs[k].commit
                                      \/ Key(j) = Key(k)}
Alone(k)  == Rivals(k) = {} /\ \A t \in tasks : t.key # Key(k)

Job(k, job) == jobs' = [jobs EXCEPT ![k] = job]

\* _get_or_create_run reads; who works on the same is not alone any more.
GetRun(k) ==
    /\ At(k, "queued")
    /\ jobs' = [j \in JobIds |->
                  IF j = k THEN [jobs[k] EXCEPT !.pc = "begin", !.seen = Run(k),
                                                !.alone = Alone(k)]
                  ELSE IF j \in Rivals(k) THEN [jobs[j] EXCEPT !.alone = FALSE]
                  ELSE jobs[j]]
    /\ UNCHANGED <<head, deliveries, claimed, accepted, sonar, tasks, run, results,
                   count>>

\* A commit writes a column if it differs from what was read.
Changed(seen, row, field, value) == IF seen[field] = value THEN row[field] ELSE value
Update(k, status, measures) ==
    run' = [run EXCEPT ![jobs[k].commit] =
              [status   |-> Changed(jobs[k].seen, @, "status", status),
               measures |-> Changed(jobs[k].seen, @, "measures", measures)]]

\* The commit: an insert, which the unique key refuses if there is a row by
\* now, or the reset of the row that was read.
BeginRun(k) ==
    /\ At(k, "begin")
    /\ IF jobs[k].seen = NoRun /\ Run(k) # NoRun
       THEN Job(k, Over(jobs[k])) /\ UNCHANGED run
       ELSE Job(k, [jobs[k] EXCEPT !.pc = "clone"]) /\ Update(k, "running", None)
    /\ UNCHANGED <<head, deliveries, claimed, accepted, sonar, tasks, results, count>>

\* fetch_source clones the tip of the branch; run_scanner uploads its report.
CloneAndScan(k) ==
    /\ At(k, "clone")
    /\ LET source == head[jobs[k].branch] IN
       /\ tasks' = tasks \union {[job |-> k, key |-> Key(k), source |-> source]}
       /\ Job(k, [jobs[k] EXCEPT !.pc = "waiting",
                                 !.alone = @ /\ source = jobs[k].commit])
    /\ UNCHANGED <<head, deliveries, claimed, accepted, sonar, run, results, count>>

Process(t) ==
    /\ t \in tasks
    /\ tasks' = tasks \ {t}
    /\ sonar' = [sonar EXCEPT ![t.key] = t.source]
    /\ UNCHANGED <<head, deliveries, claimed, accepted, run, results, jobs, count>>

Step(k, from, job) ==
    /\ At(k, from)
    /\ Job(k, job)
    /\ UNCHANGED <<head, deliveries, claimed, accepted, sonar, tasks, run, results,
                   count>>

\* wait_for_analysis.
Wait(k) ==
    /\ \A t \in tasks : t.job # k
    /\ Step(k, "waiting", [jobs[k] EXCEPT !.pc = "gate"])

\* What the Sonar project holds, asked for three times.
FetchGate(k) ==
    Step(k, "gate", [jobs[k] EXCEPT !.pc = "measures", !.gate = sonar[Key(k)]])
FetchMeasures(k) ==
    Step(k, "measures", [jobs[k] EXCEPT !.pc = "store", !.measures = sonar[Key(k)]])

\* The second session: session.get, then the DELETE of the old gate result.
OpenSession(k) == Step(k, "store", [jobs[k] EXCEPT !.pc = "gates", !.seen = Run(k)])

Of(k, kind)  == {r \in results[jobs[k].commit] : r.kind = kind}
LockedFor(k) == UNION {jobs[j].doomed : j \in JobIds \ {k}}

\* Fault variant: the old rows stay.
DeleteNothing(k, from, kind, to) ==
    Step(k, from, [jobs[k] EXCEPT !.pc = to])

\* A DELETE takes the rows it sees when it starts.  If another transaction has
\* deleted one of them it waits for its end, and does not see what came since.
Delete(k, from, kind, to) ==
    /\ At(k, from)
    /\ \/ LET old == IF jobs[k].old = {} THEN Of(k, kind) ELSE jobs[k].old IN
          /\ old \intersect LockedFor(k) = {}
          /\ Step(k, from, [jobs[k] EXCEPT !.pc = to, !.old = {},
                               !.doomed = @ \union (old \intersect Of(k, kind))])
       \/ /\ jobs[k].old = {}
          /\ Of(k, kind) \intersect LockedFor(k) # {}
          /\ Step(k, from, [jobs[k] EXCEPT !.old = Of(k, kind)])

DeleteGates(k) == Delete(k, "gates", "gate", "issues")

\* sync_findings fetches before it deletes; if that fails the run goes on.
FetchIssues(k) ==
    Step(k, "issues", [jobs[k] EXCEPT !.pc = "findings", !.issues = sonar[Key(k)]])
FetchIssuesFails(k) ==
    /\ Happens("fault")
    /\ At(k, "issues")
    /\ Job(k, [jobs[k] EXCEPT !.pc = "commit"])
    /\ UNCHANGED <<head, deliveries, claimed, accepted, sonar, tasks, run, results>>

DeleteFindings(k) == Delete(k, "findings", "findings", "commit")

Row(k, kind, source) == [kind |-> kind, job |-> k, source |-> source]

CommitRun(k) ==
    /\ At(k, "commit")
    /\ Update(k, "success", jobs[k].measures)
    /\ results' = [results EXCEPT ![jobs[k].commit] =
                     (@ \ jobs[k].doomed)
                       \union {Row(k, "gate", jobs[k].gate)}
                       \union (IF jobs[k].issues = None THEN {}
                               ELSE {Row(k, "findings", jobs[k].issues)})]
    /\ Job(k, [jobs[k] EXCEPT !.pc = "report", !.doomed = {}])
    /\ UNCHANGED <<head, deliveries, claimed, accepted, sonar, tasks, count>>

\* Insights and the commit status at the provider.
Report(k) == Step(k, "report", Over(jobs[k]))

\* Whatever fails in the try block, the report after the commit included, leads
\* to _mark_failed; an open session is rolled back.
Trying == {"clone", "waiting", "gate", "measures", "store", "gates", "issues",
           "findings", "report"}
Fail(k) ==
    /\ Happens("fault")
    /\ jobs[k].pc \in Trying
    /\ Job(k, [jobs[k] EXCEPT !.pc = "fail", !.old = {}, !.doomed = {}])
    /\ UNCHANGED <<head, deliveries, claimed, accepted, sonar, tasks, run, results>>

\* A commit that fails, of the run or of the insights, expires the run object:
\* the except block's own use of run.id raises, and nothing is marked.
CommitFails(k) ==
    /\ Happens("spoilt")
    /\ jobs[k].pc \in {"commit", "report"}
    /\ Job(k, Over(jobs[k]))
    /\ UNCHANGED <<head, deliveries, claimed, accepted, sonar, tasks, run, results>>

GetFailed(k) == Step(k, "fail", [jobs[k] EXCEPT !.pc = "mark", !.seen = Run(k)])

\* Fault variant: a failure is not written down.
MarkNothing(k) == Step(k, "mark", Over(jobs[k]))

MarkFailed(k) ==
    /\ At(k, "mark")
    /\ Update(k, "failed", jobs[k].seen.measures)
    /\ Job(k, Over(jobs[k]))
    /\ UNCHANGED <<head, deliveries, claimed, accepted, sonar, tasks, results, count>>

\* A failure outside the try block ends the job with the row as it is.
Gap(k) ==
    /\ Happens("gap")
    /\ jobs[k].pc \in {"queued", "begin", "clone", "fail", "mark"}
    /\ Job(k, Over(jobs[k]))
    /\ UNCHANGED <<head, deliveries, claimed, accepted, sonar, tasks, run, results>>

\* Fault variant: a job that was never queued is cancelled.
CancelUnknown(k) ==
    /\ Happens("cancel")
    /\ jobs[k].pc # "over"
    /\ Job(k, Over(jobs[k]))
    /\ UNCHANGED <<head, deliveries, claimed, accepted, sonar, tasks, run, results>>

\* A CancelledError is no Exception: nothing is written.
Cancel(k) ==
    /\ Happens("cancel")
    /\ jobs[k].pc \notin {"new", "over"}
    /\ Job(k, Over(jobs[k]))
    /\ UNCHANGED <<head, deliveries, claimed, accepted, sonar, tasks, run, results>>

\* The process ends; queued jobs wait in Redis, requests and deliveries are lost.
Stop ==
    /\ jobs' = [k \in JobIds |-> IF Working(k) THEN Over(jobs[k]) ELSE jobs[k]]
    /\ deliveries' \in SUBSET deliveries
    /\ accepted' = {}
    /\ UNCHANGED <<head, claimed, sonar, tasks, results>>

\* Fault variant: nothing is reaped at the start.
RestartUnreaped == Happens("restart") /\ Stop /\ UNCHANGED run

\* reap_stale_analysis_runs goes before everything else at the start.
Restart ==
    /\ Happens("restart")
    /\ Stop
    /\ run' = [c \in Commits |-> IF run[c].status = "running"
                                 THEN [run[c] EXCEPT !.status = "failed"] ELSE run[c]]

\* The start goes on if the reaping fails.
RestartReapingFails == Happens("gap") /\ Stop /\ UNCHANGED run

JobStep(k) ==
    \/ GetRun(k) \/ BeginRun(k) \/ CloneAndScan(k) \/ Wait(k) \/ FetchGate(k)
    \/ FetchMeasures(k) \/ OpenSession(k) \/ DeleteGates(k) \/ FetchIssues(k)
    \/ DeleteFindings(k) \/ CommitRun(k) \/ Report(k) \/ GetFailed(k) \/ MarkFailed(k)

Next ==
    \/ \E b \in Branches, c \in Commits : Push(b, c)
    \/ \E c \in Commits : Expire(c)
    \/ \E d \in deliveries : Deliver(d) \/ DeliverUnguarded(d)
    \/ \E d \in accepted : EnqueueFails(d) \/ \E k \in JobIds : EnqueuePushed(d, k)
    \/ \E k \in JobIds : \/ \E b \in Branches : Ask(k, b)
                         \/ JobStep(k) \/ FetchIssuesFails(k)
                         \/ Fail(k) \/ CommitFails(k) \/ Gap(k) \/ Cancel(k)
    \/ \E t \in tasks : Process(t)
    \/ Restart \/ RestartReapingFails

Spec == Init /\ [][Next]_vars

\* The runner pops every job and the event loop resumes every task whose await
\* is over; Sonar processes every report; a provider delivers what was pushed and
\* the webhook's request goes on to its enqueue.  One condition for all of them
\* assumes less than one for each: something happens while anything can.
Progress ==
    \/ \E k \in JobIds : JobStep(k)
    \/ \E t \in tasks : Process(t)
    \/ \E d \in deliveries : Deliver(d)
    \/ \E d \in accepted, k \in JobIds : EnqueuePushed(d, k)

FairSpec == Spec /\ WF_vars(Progress)

-----------------------------------------------------------------------------
(* Properties.                                                             *)

Deliveries == [branch : Branches, commit : Commits]
Sources    == Commits \union {None}
Rows       == [kind : {"gate", "findings"}, job : JobIds, source : Sources]
RunRows    == [status : {"none", "running", "success", "failed"}, measures : Sources]
Stages      == {"new", "queued", "begin", "fail", "mark", "commit", "over"} \union Trying
Jobs       == [pc : Stages, trigger : {"push", "manual", None},
               branch : Branches \union {None}, commit : Sources, seen : RunRows,
               gate : Sources, measures : Sources, issues : Sources,
               old : SUBSET Rows, doomed : SUBSET Rows, alone : BOOLEAN]

\* Every variable has its type, and only a job that was queued has steps.
TypeOK ==
    /\ head \in [Branches -> Commits]
    /\ deliveries \subseteq Deliveries /\ accepted \subseteq Deliveries
    /\ claimed \subseteq Commits
    /\ sonar \in [Keys -> Sources]
    /\ tasks \subseteq [job : JobIds, key : Keys, source : Commits]
    /\ run \in [Commits -> RunRows]
    /\ results \in [Commits -> SUBSET Rows]
    /\ jobs \in [JobIds -> Jobs]
    /\ \A k \in JobIds : ~At(k, "new") => /\ jobs[k].branch \in Branches
                                          /\ jobs[k].commit \in Commits
    /\ count \in [Kinds -> Nat]

\* What may leave a run "running": a cancelled job, a failure outside the try
\* block or of the reaping, a commit that fails.
Disturbed == count["cancel"] > 0 \/ count["gap"] > 0 \/ count["spoilt"] > 0

\* Where a job is while its run should say "running".
Unfinished == (Trying \ {"report"}) \union {"commit", "fail", "mark"}

\* Of a run that says "running" there is a job that works on it, although jobs for
\* one commit share the row and a commit writes only what changed since the read
\* (a row "stuck" there "forever" is what both writers of "failed" are for).
RunningIsWorkedOn ==
    ~Disturbed => \A c \in Commits : run[c].status = "running" =>
        \E k \in JobIds : jobs[k].commit = c /\ jobs[k].pc \in Unfinished

\* Deliveries repeated or of several branches queue one job for a commit while
\* the claim holds and Redis answers (_already_seen).
WebhookOnce ==
    count["fault"] = 0 /\ count["expiry"] = 0 =>
        \A j, k \in JobIds :
            j # k /\ jobs[j].trigger = "push" /\ jobs[k].trigger = "push"
                => jobs[j].commit # jobs[k].commit

Stored(c, kind) == {r \in results[c] : r.kind = kind}

\* A job that nobody interfered with, whose branch stood still while it cloned,
\* stores what Sonar found in its own commit and nothing else, whatever earlier
\* jobs for the commit left behind; findings it could not fetch stay as they were.
CleanRunIsExact ==
    [][\A k \in JobIds :
         At(k, "commit") /\ jobs'[k].pc = "report" /\ jobs[k].alone =>
            LET c == jobs[k].commit IN
            /\ run'[c] = [status |-> "success", measures |-> c]
            /\ Stored(c, "gate")' = {Row(k, "gate", c)}
            /\ Stored(c, "findings")' = IF jobs[k].issues = None THEN Stored(c, "findings")
                                      ELSE {Row(k, "findings", c)}]_vars

\* No run says "running" for ever.
EveryRunEnds ==
    \A c \in Commits :
        run[c].status = "running" ~> run[c].status # "running" \/ Disturbed

\* A push to a watched branch leads to a run of its commit.
EveryPushAnalysed ==
    \A d \in Deliveries :
        d \in deliveries /\ d.branch \in Watched
            ~> \/ run[d.commit] # NoRun \/ Disturbed
               \/ count["fault"] > 0 \/ count["expiry"] > 0 \/ count["restart"] > 0

\* "so exactly one current result exists per run" (analysis_worker.py:268).
OneResultPerRun == \A c \in Commits : Cardinality(Stored(c, "gate")) <= 1
=============================================================================
