----------------------------- MODULE ScanLedger -----------------------------
(***************************************************************************)
(* Event-driven scanning: backend/app/modules/nexus/events.py with its     *)
(* callers (the push webhook, the new-image watcher of main.py, the manual *)
(* scan, the tag and repository deletes) and the end of a scan job in      *)
(* services/job_handlers.py.                                               *)
(*                                                                         *)
(* Postgres holds the targets and the ledger.  Every request and every     *)
(* watcher cycle has a session of its own: it reads committed rows, and    *)
(* what it wrote is seen by others when it commits.  An insert that was    *)
(* flushed but not committed makes a second insert of the same image wait  *)
(* and then fail on the unique key.                                        *)
(***************************************************************************)
EXTENDS Integers, FiniteSets

CONSTANTS
    Repos,        \* Docker repositories
    Images,       \* name:tag pairs, each in one repository
    RepoOf,       \* the repository of an image
    Contents,     \* manifest digests
    Requests,     \* concurrent webhook deliveries and manual scan requests
    Sources,      \* which of them exist: subset of {"webhook", "manual"}
    JobIds,       \* scan jobs
    Modes,        \* what a target may be set to: subset of {"none", "off", "on"}
    PromptCommit, \* timing assumption: a job ends after its queuer's commit
    MaxPushes,    \* bound: images pushed
    MaxAsks,      \* bound: manual scans asked for
    MaxDeletes,   \* bound: tags, repositories and reports deleted
    MaxDrops,     \* bound: jobs that end before they record an outcome
    MaxFaults,    \* bound: failures of Redis, or of Nexus when listing
    MaxCrashes    \* bound: process crashes

None  == "none"                                \* no content, no digest
NoRow == [state |-> "none", digest |-> None]   \* no ledger row

ASSUME ImagesAssumption == RepoOf \in [Images -> Repos]
ASSUME ContentsAssumption == None \notin Contents
ASSUME SourcesAssumption == Sources \subseteq {"webhook", "manual"}
ASSUME BoundsAssumption == {MaxPushes, MaxAsks, MaxDeletes, MaxDrops, MaxFaults,
                            MaxCrashes} \subseteq Nat
ASSUME ModesAssumption == Modes \subseteq {"none", "off", "on"}
ASSUME NamesAssumption == Images \intersect Repos = {} /\ None \notin Requests

VARIABLES
    nexus,        \* the content each image has in the registry
    deliveries,   \* images Nexus has a webhook delivery under way for
    target,       \* scan_targets: mode none, off or on; baselined or not
    ledger,       \* scan_image_ledger: state and digest, or NoRow
    cleanup,      \* images and repositories deleted in Nexus, not yet forgotten
    req,          \* where each webhook or manual request is
    watch,        \* the watcher: which target, what it listed and read
    session,      \* the watcher's uncommitted changes
    jobs,         \* scan jobs
    count,        \* how much of each bound is used
    observed,     \* history: repositories that were baselined once
    credit,       \* history: pushes minus scans queued without being asked for
    fresh,        \* history: images pushed since their repository's baseline
    scanned       \* history: contents a scanner was pointed at

world   == <<nexus, deliveries>>
history == <<observed, credit, fresh, scanned>>
vars    == <<world, target, ledger, cleanup, req, watch, session, jobs, count,
             history>>

In(r) == {i \in Images : RepoOf[i] = r}
Entry == [state : {"baseline", "queued", "scanned", "failed"},
          digest : Contents \union {None}]
Row   == Entry \union {NoRow}
\* A fault: the job's status in the ledger.
QueuedAsRunning(d) == [state |-> "running", digest |-> d]

Queued(d) == [state |-> "queued", digest |-> d]

Used(b) == count' = [count EXCEPT ![b] = @ + 1]

Idle     == [pc |-> "idle"]
Clean    == [add |-> [i \in Images |-> None], digest |-> [i \in Images |-> None]]
Resting  == [pc |-> "idle"]
NoJob    == [pc |-> "new"]

Init ==
    /\ nexus \in [Images -> Contents \union {None}]
    /\ deliveries = {}
    /\ target = [r \in Repos |-> [mode |-> "none", baselined |-> FALSE]]
    /\ ledger = [i \in Images |-> NoRow]
    /\ cleanup = {}
    /\ req = [q \in Requests |-> Idle]
    /\ watch = Resting
    /\ session = Clean
    /\ jobs = [k \in JobIds |-> NoJob]
    /\ count = [b \in {"pushes", "asks", "deletes", "drops", "faults", "crashes"}
                |-> 0]
    /\ observed = {}
    /\ credit = [i \in Images |-> 0]
    /\ fresh = {}
    /\ scanned = [i \in Images |-> {}]

-----------------------------------------------------------------------------
(* The registry and the operator's configuration.                          *)

\* docker push: a new image, or a tag that gets new content.
Push(i, c) ==
    /\ count["pushes"] < MaxPushes
    /\ Used("pushes")
    /\ nexus[i] # c
    /\ nexus' = [nexus EXCEPT ![i] = c]
    /\ deliveries' = IF "webhook" \in Sources THEN deliveries \union {i} ELSE deliveries
    /\ credit' = [credit EXCEPT ![i] = @ + 1]
    /\ fresh' = fresh \union {i}
    /\ UNCHANGED <<target, ledger, cleanup, req, watch, session, jobs, observed,
                   scanned>>

\* Rows deleted under whoever has read them: an update of them will fail.
Lose(S) ==
    /\ watch' = IF watch = Resting THEN watch ELSE [watch EXCEPT !.lost = @ \union S]
    /\ req' = [q \in Requests |->
                  IF req[q] # Idle /\ req[q].image \in S /\ req[q].seen # NoRow
                  THEN [req[q] EXCEPT !.lost = TRUE] ELSE req[q]]
    /\ jobs' = [k \in JobIds |->
                  IF jobs[k] # NoJob /\ jobs[k].image \in S /\ jobs[k].seen # NoRow
                  THEN [jobs[k] EXCEPT !.lost = TRUE] ELSE jobs[k]]

\* create_target, update_target, delete_target.
Configure(r, m) ==
    /\ target[r].mode # m
    /\ target' = [target EXCEPT ![r] =
                     [mode |-> m, baselined |-> m # "none" /\ @.baselined]]
    /\ IF m = "none" THEN Lose({r}) ELSE UNCHANGED <<watch, req, jobs>>
    /\ UNCHANGED <<world, ledger, cleanup, session, count, history>>

\* The delete endpoints: first Nexus, then the ledger.
DeleteTag(i) ==
    /\ count["deletes"] < MaxDeletes
    /\ Used("deletes")
    /\ nexus[i] # None
    /\ nexus' = [nexus EXCEPT ![i] = None]
    /\ cleanup' = cleanup \union {i}
    /\ UNCHANGED <<deliveries, target, ledger, req, watch, session, jobs, history>>

DeleteRepo(r) ==
    /\ count["deletes"] < MaxDeletes
    /\ Used("deletes")
    /\ nexus' = [i \in Images |-> IF i \in In(r) THEN None ELSE nexus[i]]
    /\ cleanup' = cleanup \union {r}
    /\ UNCHANGED <<deliveries, target, ledger, req, watch, session, jobs, history>>

forget_deleted_images(i) ==
    /\ i \in cleanup
    /\ cleanup' = cleanup \ {i}
    /\ ledger' = [ledger EXCEPT ![i] = NoRow]
    /\ Lose({i})
    /\ UNCHANGED <<world, target, session, count, history>>

forget_repository(r) ==
    /\ r \in cleanup
    /\ cleanup' = cleanup \ {r}
    /\ target' = [target EXCEPT ![r] = [mode |-> "none", baselined |-> FALSE]]
    /\ ledger' = [i \in Images |-> IF i \in In(r) THEN NoRow ELSE ledger[i]]
    /\ Lose({r} \union In(r))
    /\ UNCHANGED <<world, session, count, history>>

\* delete_all_reports with reset_ledger: of one image, a repository or all.
ResetLedger(S) ==
    /\ count["deletes"] < MaxDeletes
    /\ Used("deletes")
    /\ ledger' = [i \in Images |-> IF i \in S /\ ledger[i] # NoRow
                                  THEN [ledger[i] EXCEPT !.state = "baseline"]
                                  ELSE ledger[i]]
    /\ UNCHANGED <<world, target, cleanup, req, watch, session, jobs, history>>

-----------------------------------------------------------------------------
(* Webhook and manual requests.                                            *)

Goto(q, pc) == req' = [req EXCEPT ![q].pc = pc]
Leave(q)    == req' = [req EXCEPT ![q] = Idle]

\* Nexus calls the webhook; it may call again for the same push.
Deliver(q, i) ==
    /\ req[q] = Idle
    /\ i \in deliveries
    /\ deliveries' \in {deliveries, deliveries \ {i}}
    /\ req' = [req EXCEPT ![q] = [pc |-> "gate", source |-> "webhook",
                                 image |-> i, seen |-> NoRow, lost |-> FALSE]]
    /\ UNCHANGED <<nexus, target, ledger, cleanup, watch, session, jobs, count,
                   history>>

\* A fault: a repository that was never observed passes.
GateUnbaselined(q) ==
    /\ req[q].pc = "gate"
    /\ IF target[RepoOf[req[q].image]].mode = "on" THEN Goto(q, "resolve") ELSE Leave(q)
    /\ UNCHANGED <<world, target, ledger, cleanup, watch, session, jobs, count,
                   history>>

\* ingest_push_event: enabled, auto_scan and baseline_at.
Gate(q) ==
    /\ req[q].pc = "gate"
    /\ LET t == target[RepoOf[req[q].image]] IN
       IF t.mode = "on" /\ t.baselined THEN Goto(q, "resolve") ELSE Leave(q)
    /\ UNCHANGED <<world, target, ledger, cleanup, watch, session, jobs, count,
                   history>>

\* request_manual_scan.
Ask(q, i) ==
    /\ "manual" \in Sources
    /\ count["asks"] < MaxAsks
    /\ Used("asks")
    /\ req[q] = Idle
    /\ req' = [req EXCEPT ![q] = [pc |-> "resolve", source |-> "manual",
                                 image |-> i, seen |-> NoRow, lost |-> FALSE]]
    /\ UNCHANGED <<world, target, ledger, cleanup, watch, session, jobs, history>>

\* _resolve_ledger_entry (a webhook carries no digest, so every known image is
\* declined) and the read of request_manual_scan, which declines nothing.
Resolve(q) ==
    /\ req[q].pc = "resolve"
    /\ LET row == ledger[req[q].image] IN
       IF row = NoRow THEN Goto(q, "flush")
       ELSE IF req[q].source = "webhook" THEN Leave(q)
       ELSE req' = [req EXCEPT ![q].pc = "enqueue", ![q].seen = row]
    /\ UNCHANGED <<world, target, ledger, cleanup, watch, session, jobs, count,
                   history>>

\* Inserts flushed by others and not yet committed.
Inserting(q) == req[q].pc \in {"enqueue", "commit"} /\ req[q].seen = NoRow
InsertedByOthers(q) == {req[p].image : p \in {p \in Requests \ {q} : Inserting(p)}}
InsertedByWatcher   == {i \in Images : session.add[i] # None}

\* session.flush(): waits for an uncommitted insert, then the unique key decides.
Flush(q) ==
    /\ req[q].pc = "flush"
    /\ req[q].image \notin InsertedByOthers(q) \union InsertedByWatcher
    /\ IF ledger[req[q].image] = NoRow THEN Goto(q, "enqueue") ELSE Leave(q)
    /\ UNCHANGED <<world, target, ledger, cleanup, watch, session, jobs, count,
                   history>>

\* JobQueue.enqueue of a scan_image job.  The credit only counts the scans
\* nobody asked for.
NewJob(k, i, source) ==
    /\ jobs[k] = NoJob
    /\ jobs' = [jobs EXCEPT ![k] = [pc |-> "queued", image |-> i, ok |-> FALSE,
                                    source |-> source, seen |-> NoRow,
                                    lost |-> FALSE]]
    /\ credit' = [credit EXCEPT ![i] = IF source = "manual" THEN @ ELSE @ - 1]
    /\ UNCHANGED <<observed, fresh, scanned>>

\* _enqueue_scan: the job is in Redis before the ledger row is committed.
EnqueueScan(q, k) ==
    /\ req[q].pc = "enqueue"
    /\ NewJob(k, req[q].image, req[q].source)
    /\ Goto(q, "commit")
    /\ UNCHANGED <<world, target, ledger, cleanup, watch, session, count>>

\* Redis fails, before or after it queued the job; the request rolls back.
EnqueueScanFails(q) ==
    /\ count["faults"] < MaxFaults
    /\ Used("faults")
    /\ req[q].pc = "enqueue"
    /\ \/ UNCHANGED <<jobs, history>>
       \/ \E k \in JobIds : NewJob(k, req[q].image, req[q].source)
    /\ Leave(q)
    /\ UNCHANGED <<world, target, ledger, cleanup, watch, session>>

\* The commit writes the columns that changed since the read; a row that was
\* deleted meanwhile makes it fail, and the job stays queued.
CommitScan(q) ==
    /\ req[q].pc = "commit"
    /\ LET i == req[q].image  seen == req[q].seen IN
       ledger' = [ledger EXCEPT ![i] =
                     IF seen = NoRow THEN Queued(None)
                     ELSE IF req[q].lost \/ seen.state = "queued" THEN @
                     ELSE [@ EXCEPT !.state = "queued"]]
    /\ Leave(q)
    /\ UNCHANGED <<world, target, cleanup, watch, session, jobs, count, history>>

RequestStep(q) ==
    \/ Gate(q) \/ Resolve(q) \/ Flush(q) \/ CommitScan(q)
    \/ \E k \in JobIds : EnqueueScan(q, k)

-----------------------------------------------------------------------------
(* The new-image watcher: one session per cycle, targets one by one.       *)

WatchAt(pc) == watch.pc = pc

\* What a cycle knows before it has looked at its next target.
AtNext(todo, base, lost) ==
    [pc |-> "next", todo |-> todo, base |-> base, lost |-> lost, repo |-> None,
     listing |-> [i \in Images |-> None], known |-> [i \in Images |-> NoRow],
     left |-> {}, image |-> None, queued |-> FALSE]
NextTarget == watch' = AtNext(watch.todo, watch.base, watch.lost)

\* Nothing of the session is left: it was committed, or rolled back.
Ended == session' = Clean

\* A rollback expires every object of the session, the targets too: the
\* handler that logs target.repo raises in its turn and the cycle is over.
CycleFails == watch' = Resting /\ Ended

StartCycle ==
    /\ WatchAt("idle")
    /\ LET on == {r \in Repos : target[r].mode = "on"} IN
       /\ on # {}
       /\ watch' = AtNext(on, {r \in on : target[r].baselined}, {})
    /\ Ended
    /\ UNCHANGED <<world, target, ledger, cleanup, req, jobs, count, history>>

\* list_repo_images.  At the first sight of a repository everything in it is
\* history.
ListTarget(r) ==
    /\ WatchAt("next")
    /\ r \in watch.todo
    /\ watch' = [watch EXCEPT !.pc = "read", !.todo = @ \ {r}, !.repo = r,
                              !.listing = nexus]
    /\ credit' = [i \in Images |-> IF i \in In(r) /\ r \notin watch.base \union observed
                                   THEN 0 ELSE credit[i]]
    /\ fresh' = IF r \in watch.base THEN fresh ELSE fresh \ In(r)
    /\ UNCHANGED <<world, target, ledger, cleanup, req, session, jobs, count,
                   observed, scanned>>

ListFails(r) ==
    /\ count["faults"] < MaxFaults
    /\ Used("faults")
    /\ WatchAt("next")
    /\ r \in watch.todo
    /\ watch' = [watch EXCEPT !.todo = @ \ {r}]
    /\ UNCHANGED <<world, target, ledger, cleanup, req, session, jobs, history>>

\* The known rows of the target.
ReadKnown ==
    /\ WatchAt("read")
    /\ watch' = [watch EXCEPT
                    !.pc = IF watch.repo \in watch.base THEN "each" ELSE "adopt",
                    !.known = ledger,
                    !.left = {i \in In(watch.repo) : watch.listing[i] # None},
                    !.lost = @ \ In(watch.repo)]
    /\ UNCHANGED <<world, target, ledger, cleanup, req, session, jobs, count,
                   history>>

\* What a commit makes of the ledger: inserted rows and written digests, and
\* the state of the entry a scan was just queued for.
Written(i) ==
    IF session.add[i] # None THEN Queued(session.add[i])
    ELSE IF session.digest[i] = None THEN ledger[i]
    ELSE [state  |-> IF WatchAt("commit") /\ watch.image = i
                     THEN "queued" ELSE ledger[i].state,
          digest |-> session.digest[i]]

\* An update of a row that is gone fails the commit.
RowGone == \E i \in watch.lost \intersect Images : session.digest[i] # None

\* adopt_baseline.
Adopt ==
    /\ WatchAt("adopt")
    /\ LET new == {i \in watch.left : watch.known[i] = NoRow} IN
       /\ InsertedByOthers(None) \intersect new = {}
       /\ IF RowGone \/ watch.repo \in watch.lost \/ (\E i \in new : ledger[i] # NoRow)
          THEN CycleFails /\ UNCHANGED <<ledger, target, observed>>
          ELSE /\ ledger' = [i \in Images |->
                     IF i \in new
                     THEN [state |-> "baseline", digest |-> watch.listing[i]]
                     ELSE Written(i)]
               /\ target' = [target EXCEPT ![watch.repo].baselined = TRUE]
               /\ observed' = observed \union {watch.repo}
               /\ Ended
               /\ NextTarget
    /\ UNCHANGED <<world, cleanup, req, jobs, count, credit, fresh, scanned>>

\* Faults: the state of the entry, or its digest, is not looked at.
RepushedAnyState(e, d) == e.digest \notin {None, d}
RepushedByName(e, d) == FALSE

\* Same tag, different content, and no scan in flight.
Repushed(e, d) == e.state # "queued" /\ e.digest \notin {None, d}

\* _entry_to_scan: a new image is inserted, a new digest is written.
Each(i) ==
    /\ WatchAt("each")
    /\ i \in watch.left
    /\ LET e == watch.known[i]
           d == watch.listing[i]
           pc == IF e = NoRow THEN "flush"
                 ELSE IF Repushed(e, d) THEN "enqueue" ELSE "each"
       IN  /\ watch' = [watch EXCEPT !.pc = pc, !.left = @ \ {i}, !.image = i]
           /\ session' = IF e # NoRow /\ e.state # "queued" /\ e.digest # d
                         THEN [session EXCEPT !.digest[i] = d] ELSE session
    /\ UNCHANGED <<world, target, ledger, cleanup, req, jobs, count, history>>

FlushNew ==
    /\ WatchAt("flush")
    /\ watch.image \notin InsertedByOthers(None)
    /\ IF ledger[watch.image] = NoRow
       THEN /\ session' = [session EXCEPT !.add[watch.image] =
                                              watch.listing[watch.image]]
            /\ watch' = [watch EXCEPT !.pc = "enqueue"]
       ELSE CycleFails
    /\ UNCHANGED <<world, target, ledger, cleanup, req, jobs, count, history>>

EnqueueNew(k) ==
    /\ WatchAt("enqueue")
    /\ NewJob(k, watch.image, "push")
    /\ watch' = [watch EXCEPT !.pc = "commit", !.queued = TRUE]
    /\ UNCHANGED <<world, target, ledger, cleanup, req, session, count>>

\* Redis fails: the loop catches it, and the session keeps what it holds.
EnqueueNewFails ==
    /\ count["faults"] < MaxFaults
    /\ Used("faults")
    /\ WatchAt("enqueue")
    /\ \/ UNCHANGED <<jobs, history>>
       \/ \E k \in JobIds : NewJob(k, watch.image, "push")
    /\ NextTarget
    /\ UNCHANGED <<world, target, ledger, cleanup, req, session>>

CommitNew ==
    /\ WatchAt("commit")
    /\ IF RowGone
       THEN CycleFails /\ UNCHANGED ledger
       ELSE /\ ledger' = [i \in Images |-> Written(i)]
            /\ watch' = [watch EXCEPT !.pc = "each"]
            /\ Ended
    /\ UNCHANGED <<world, target, cleanup, req, jobs, count, history>>

\* The digests backfilled meanwhile are committed if nothing was queued.
FinishTarget ==
    /\ WatchAt("each")
    /\ watch.left = {}
    /\ IF watch.queued THEN NextTarget /\ UNCHANGED <<ledger, session>>
       ELSE IF RowGone THEN CycleFails /\ UNCHANGED ledger
       ELSE ledger' = [i \in Images |-> Written(i)] /\ Ended /\ NextTarget
    /\ UNCHANGED <<world, target, cleanup, req, jobs, count, history>>

EndCycle ==
    /\ WatchAt("next")
    /\ watch.todo = {}
    /\ watch' = Resting
    /\ Ended
    /\ UNCHANGED <<world, target, ledger, cleanup, req, jobs, count, history>>

WatchStep ==
    \/ StartCycle \/ ReadKnown \/ Adopt \/ FlushNew \/ CommitNew
    \/ FinishTarget \/ EndCycle
    \/ \E r \in Repos : ListTarget(r)
    \/ \E i \in Images : Each(i)
    \/ \E k \in JobIds : EnqueueNew(k)

-----------------------------------------------------------------------------
(* Scan jobs: handle_scan_image and record_scan_outcome.                   *)

JobAt(k, pc) == jobs[k].pc = pc
Over(job) == [job EXCEPT !.pc = "over", !.ok = FALSE, !.seen = NoRow, !.lost = FALSE]
JobOver(k) == jobs' = [jobs EXCEPT ![k] = Over(@)]

StartJob(k) ==
    /\ JobAt(k, "queued")
    /\ jobs' = [jobs EXCEPT ![k].pc = "running"]
    /\ UNCHANGED <<world, target, ledger, cleanup, req, watch, session, count,
                   history>>

\* The scanners look at what the tag holds now; a report that says "failed"
\* is an outcome too.
Scan(k, ok) ==
    /\ JobAt(k, "running")
    /\ nexus[jobs[k].image] = None => ~ok
    /\ jobs' = [jobs EXCEPT ![k].pc = "record", ![k].ok = ok]
    /\ scanned' = [scanned EXCEPT ![jobs[k].image] = @ \union {nexus[jobs[k].image]}]
    /\ UNCHANGED <<world, target, ledger, cleanup, req, watch, session, count,
                   observed, credit, fresh>>

\* Whoever queues a scan of i still has to commit the ledger row.
Committing(i) ==
    \/ \E q \in Requests : req[q].pc = "commit" /\ req[q].image = i
    \/ WatchAt("commit") /\ watch.image = i

RecordRead(k) ==
    /\ JobAt(k, "record")
    /\ PromptCommit => ~Committing(jobs[k].image)
    /\ IF ledger[jobs[k].image] = NoRow THEN JobOver(k)
       ELSE jobs' = [jobs EXCEPT ![k].pc = "write", ![k].seen = ledger[jobs[k].image]]
    /\ UNCHANGED <<world, target, ledger, cleanup, req, watch, session, count,
                   history>>

\* A fault: any report counts as success.
OutcomeAlwaysScanned(k) == "scanned"

Outcome(k) == IF jobs[k].ok THEN "scanned" ELSE "failed"

RecordWrite(k) ==
    /\ JobAt(k, "write")
    /\ JobOver(k)
    /\ ledger' = [ledger EXCEPT ![jobs[k].image] =
                     IF jobs[k].lost \/ jobs[k].seen.state = Outcome(k) THEN @
                     ELSE [@ EXCEPT !.state = Outcome(k)]]
    /\ UNCHANGED <<world, target, cleanup, req, watch, session, count, history>>

\* Cancelled, or failed before it came to scan or to record an outcome.
DropJob(k) ==
    /\ count["drops"] < MaxDrops
    /\ Used("drops")
    /\ jobs[k].pc \in {"queued", "running", "record", "write"}
    /\ JobOver(k)
    /\ UNCHANGED <<world, target, ledger, cleanup, req, watch, session, history>>

JobStep(k) ==
    StartJob(k) \/ (\E ok \in BOOLEAN : Scan(k, ok)) \/ RecordRead(k) \/ RecordWrite(k)

\* The process dies: sessions roll back, a delete is not followed up, running
\* jobs are gone, queued ones wait in Redis.
Crash ==
    /\ count["crashes"] < MaxCrashes
    /\ Used("crashes")
    /\ req' = [q \in Requests |-> Idle]
    /\ cleanup' = {}
    /\ watch' = Resting
    /\ session' = Clean
    /\ jobs' = [k \in JobIds |-> IF jobs[k].pc \in {"running", "record", "write"}
                                 THEN Over(jobs[k]) ELSE jobs[k]]
    /\ UNCHANGED <<world, target, ledger, history>>

Next ==
    \/ \E i \in Images : \/ \E c \in Contents : Push(i, c)
                         \/ DeleteTag(i) \/ forget_deleted_images(i)
    \/ \E r \in Repos : \/ \E m \in Modes : Configure(r, m)
                        \/ DeleteRepo(r) \/ forget_repository(r) \/ ListFails(r)
    \/ \E q \in Requests : \/ \E i \in Images : Deliver(q, i) \/ Ask(q, i)
                           \/ RequestStep(q) \/ EnqueueScanFails(q)
    \/ WatchStep \/ EnqueueNewFails
    \/ \E k \in JobIds : JobStep(k) \/ DropJob(k)
    \/ \E S \in {{i} : i \in Images} \union {In(r) : r \in Repos} \union {Images} :
           ResetLedger(S)
    \/ Crash

Spec == Init /\ [][Next]_vars

\* The watcher keeps polling, requests and jobs go on.  Nobody has to push,
\* ask, delete or configure anything, and nothing has to fail.
Fairness ==
    /\ WF_vars(WatchStep)
    /\ \A q \in Requests : WF_vars(RequestStep(q))
    /\ \A k \in JobIds : WF_vars(JobStep(k))

FairSpec == Spec /\ Fairness

-----------------------------------------------------------------------------
(* Properties.                                                             *)

Request == {Idle} \union
    [pc : {"gate", "resolve", "flush", "enqueue", "commit"},
     source : {"webhook", "manual"}, image : Images, seen : Row, lost : BOOLEAN]
Job == {NoJob} \union
    [pc : {"queued", "running", "record", "write", "over"}, image : Images,
     ok : BOOLEAN, source : {"webhook", "manual", "push"}, seen : Row,
     lost : BOOLEAN]
Watch == {Resting} \union
    [pc : {"next", "read", "adopt", "each", "flush", "enqueue", "commit"},
     todo : SUBSET Repos, base : SUBSET Repos, repo : Repos \union {None},
     listing : [Images -> Contents \union {None}], known : [Images -> Row],
     left : SUBSET Images, image : Images \union {None}, queued : BOOLEAN,
     lost : SUBSET (Images \union Repos)]
Digests == [Images -> Contents \union {None}]

\* Every variable keeps its type.
TypeOK ==
    /\ nexus \in Digests
    /\ deliveries \subseteq Images
    /\ target \in [Repos -> [mode : {"none", "off", "on"}, baselined : BOOLEAN]]
    /\ ledger \in [Images -> Row]
    /\ cleanup \subseteq Images \union Repos
    /\ req \in [Requests -> Request]
    /\ watch \in Watch
    /\ session \in [add : Digests, digest : Digests]
    /\ jobs \in [JobIds -> Job]
    /\ count \in [{"pushes", "asks", "deletes", "drops", "faults", "crashes"} -> Nat]
    /\ observed \subseteq Repos
    /\ credit \in [Images -> Int]
    /\ fresh \subseteq Images
    /\ scanned \in [Images -> SUBSET (Contents \union {None})]

\* "A scan happens for exactly two reasons": for every scan that nobody asked
\* for there was a push of that image after the baseline, whichever of the
\* webhook and the watcher noticed it, and never one for both.
NoUnpromptedScan == \A i \in Images : credit[i] >= 0

InFlight(i) == {k \in JobIds : jobs[k].pc \notin {"new", "over"} /\ jobs[k].image = i}

\* "queued - a scan job is in flight".
QueuedInFlight ==
    \A i \in Images : ledger[i].state = "queued" => InFlight(i) # {}

\* As long as nobody asks for a scan at most one of an image is in flight:
\* webhook deliveries, the watcher and running jobs do not add to each other.
OneScanAtATime ==
    count["asks"] = 0 => \A i \in Images : Cardinality(InFlight(i)) <= 1

\* Scans, pushes and the ledger agree: a scan has its reason, a queued row has
\* its scan, and no image has two.
ScansAreDue == NoUnpromptedScan /\ QueuedInFlight /\ OneScanAtATime

Unprompted(k) == jobs[k] # NoJob /\ jobs[k].source # "manual"

\* Before a repository has a baseline nothing in it is scanned on its own.
NoScanBeforeBaseline ==
    \A k \in JobIds : Unprompted(k) => RepoOf[jobs[k].image] \in observed

\* "scanned" was earned: a scanner was pointed at content of that image, and
\* neither a stale read nor an insert that never was committed made it up.
ScannedIsEarned ==
    \A i \in Images : ledger[i].state = "scanned" => scanned[i] \ {None} # {}

Active(r)  == target[r].mode = "on"
Awaited(i) == i \in fresh /\ target[RepoOf[i]].baselined

\* Whatever is pushed after the baseline gets scanned, unless it is what the
\* baseline holds, the tag changes again or scanning is switched off.
Scanned(i, c) ==
    \/ c \in scanned[i] \/ nexus[i] # c
    \/ ledger[i] = [state |-> "baseline", digest |-> c]
    \/ ~Active(RepoOf[i])

PushIsScanned ==
    \A i \in Images, c \in Contents :
        (Awaited(i) /\ nexus[i] = c) ~> Scanned(i, c)

\* The same for content the ledger can tell from what it knows of the image.
RepushIsScanned ==
    \A i \in Images, c \in Contents :
        (Awaited(i) /\ nexus[i] = c /\ ledger[i].digest \notin {None, c})
            ~> Scanned(i, c)

\* An image that is pushed after the baseline is scanned at least once, unless
\* it ends up as the baseline has it.
NewImageIsScanned ==
    \A i \in Images :
        (Awaited(i) /\ nexus[i] # None)
            ~> \/ scanned[i] # {} \/ nexus[i] = None
               \/ ledger[i] = [state |-> "baseline", digest |-> nexus[i]]
               \/ ~Active(RepoOf[i])
=============================================================================
