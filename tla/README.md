# Formal models of Rotsy

Rotsy is a control panel for a software supply chain: a FastAPI backend
(`src/backend/app`) in front of Sonatype Nexus, SonarQube, GitHub and GitLab,
with a React frontend and a Telegram bot. The backend is one process with an
asyncio event loop, Postgres for what must last and Redis for jobs, events and
caches. This directory holds TLA+ models of the parts whose correctness depends
on the order of steps, the runs that check them with TLC, and proofs checked by
TLAPS. Source paths below are relative to `src/backend/app`.

Contents: [system](#the-system) · [hard behaviours](#what-is-hard) ·
[modules](#the-modules) · [runs](#runs-and-what-they-show) ·
[bounds, fairness, deadlock](#bounds-fairness-deadlock) · [proofs](#proofs) ·
[only model-checked](#what-is-only-model-checked) ·
[divergences](#where-code-and-documentation-disagree) ·
[left out](#what-is-not-modelled) · [plan](#plan)

## The system

| Part | State it keeps | Operations | Talks to |
|---|---|---|---|
| Job queue and runner (`core/jobs.py`, `routers/jobs.py`) | Redis: a hash per job, `jobs:queue`, `jobs:index`. Memory: one asyncio task per popped job, retry timers, pending cancellations | enqueue, pop, run, progress, retry, cancel, reap at start-up, shutdown | every long operation is a job |
| Job event stream (same files) | Redis: a list per job, trimmed to 256. Per SSE connection: `last_idx` | push, trim, poll, close | job runner, frontend |
| Scan ledger and triggers (`modules/nexus/events.py`, watcher in `main.py`, `routers/scan/*`) | Postgres: `scan_targets`, `scan_image_ledger`; the uncommitted changes of each session | webhook, watch cycle, manual scan, record outcome, forget, reset, configure | Nexus, job queue |
| Analysis runs (`workers/analysis_worker.py`, `routers/github.py`, `routers/gitlab.py`) | Postgres: `analysis_runs`, findings, gate results. Redis: claims | push webhook, manual analysis, clone and analyse, finish, fail, reap | job queue, SonarQube, GitHub/GitLab |
| Insights and health (`core/insights`, `core/health.py`) | Postgres: `insights` | draw insights of an analysis, score a project | analysis runs |
| Source repositories (`routers/github.py`, `gitlab.py`, `sonar.py`, `workers/provisioning_worker.py`) | Postgres: repository rows, `project_integrations`, `sonar_projects` | sync, connect, map, bulk, provision | GitHub, GitLab, SonarQube, job queue |
| GitLab webhooks (`routers/gitlab.py`) | Postgres: rows with project number and webhook. On the hosts: webhooks | connect, sync, register, reconnect | GitLab hosts |
| Quality gates (`modules/sonar/provisioning.py`, `routers/sonar.py`) | SonarQube: gates, conditions, assignments. Postgres: the gate of a project | reconcile, switch, give to a branch | SonarQube |
| Telegram bot (`modules/telegram/*`, loop in `main.py`) | Memory: the update offset. Postgres: links | poll, dispatch, callback | Telegram, projects |
| Access rules (`core/access_control.py`, `routers/roles.py`, `users.py`, `db/seed.py`) | Postgres: roles, rules, users | decide, explain, edit, seed | every router |
| Projects and members (`core/projects.py`, `core/project_access.py`) | Postgres: projects, memberships, integrations | add, change, remove, delete | every router |
| Sessions and tokens (`core/security.py`, `dependencies.py`, `services/access_tokens.py`) | Cookies; Postgres: users, tokens | login, refresh, authenticate, revoke | every router |
| Login throttle (`core/rate_limit.py`, `routers/auth.py`) | Redis counters and locks | attempt, succeed, fail | Redis |
| Scanner databases (`modules/nexus/db/*`, `modules/nexus/scanning/*`) | Directories, partial files, replicas, verdict cache, the current job in Redis | update, import, check out a replica, scan | job queue, registries, subprocesses |
| Registry discovery (`modules/nexus/registry.py`, `routers/settings.py`) | Redis: the registry map. Memory: the live client | discover, resolve, invalidate | Nexus |
| Storage analysis (`routers/storage.py`, `services/storage_analyzer.py`) | Memory: the run in flight and its queues. Redis: the result | start, attach, stream, cache | Nexus |
| Backups (`services/backup_schedule.py`, `backup_archive.py`, `routers/system.py`) | Postgres: schedules, runs. Disk: archives | due, enqueue, write, record, prune | job queue, Nexus |
| Retention (`services/retention.py`) | Postgres: policies | due, select, delete, compact | Nexus, job queue |
| Metrics and alerts (`services/metrics_collector.py`, `alerting.py`) | Postgres: samples, rules | collect, trim, evaluate | Nexus, webhooks |
| Connections (`core/config_store.py`, `routers/settings.py`, `main.py`) | Postgres: `system_config`, encrypted. Memory: the live Nexus client | save, load, reconfigure, first use of the webhook secret | everything |
| Provider adapters, Nexus and SonarQube clients, event bus, caches, audit, metrics pages, PDF reports, persistence, frontend, deployment | none that outlives a call, or rows written once | request/response, parsing, layout | external services |

What makes each part correct is what its run checks; the table of runs names it.

## What is hard

`PROJECT.json` lists every hazard with its line and the properties that would
notice it. They come from five sources.

1. **Awaits.** Everything runs on one event loop, so code between two awaits is
   atomic and nothing else is. The cancel endpoint reads, writes and signals in
   three commands; a member request checks the number of administrators in one
   statement and writes in another; two requests look for a row and both insert.
2. **Two stores without a common transaction.** A scan job is in Redis before
   its ledger row is committed in Postgres; a webhook exists at its host before
   its number is in the row; a gate is changed in SonarQube before the row says
   so; a due schedule's job is queued before its next moment is committed.
3. **Stale reads.** The watcher compares a listing of Nexus with a ledger it
   reads later; a job's retry count is copied when it starts; an analysis clones
   the tip of a branch; a retention run deletes from a listing; a discovery
   stores what it asked a Nexus that is no longer the one connected.
4. **Stops.** The process may die at any await. Redis and Postgres survive,
   tasks, timers, sessions and open requests do not; threads and subprocesses
   outlive the jobs that were cancelled.
5. **Bounds.** `jobs:index` and the event lists are trimmed while others rely
   on what they hold; replicas, retries and attempts are counted.

## The modules

| Module | Models | Composed in | Proofs |
|---|---|---|---|
| `JobAttempts` | what the job framework promises about a job's work | abstract specification | `JobAttempts_proofs` |
| `JobQueue` | `core/jobs.py`, the cancel endpoint, the reaping; implements `JobAttempts` | `MCJobQueue`, `MCProgress` | `JobQueue_proofs` |
| `JobEvents` | `push_event` and `_stream_job_events` | `MCProgress` | `JobQueue_proofs` |
| `ScanLedger` | `modules/nexus/events.py` and its callers | `MCScanLedger`, `MCLedger`, `MCProgress` | `ScanLedger_proofs`, `Ledger_proofs` |
| `AnalysisRuns` | `workers/analysis_worker.py`, its triggers and the reaping of runs | `MCAnalysisRuns`, `MCIntegrations` | `Integrations_proofs` |
| `AccessRules`, `GlobPatterns`, `ProjectMembers`, `Sessions`, `LoginThrottle` | who may do what | `MCAccess` | `Access_proofs` |
| `DbDownload`, `TrivyReplicas`, `DbUpdates`, `RegistryDiscovery`, `SharedAnalysis`, `StorageScan` | what is done with Nexus and the scanners' databases | `MCNexus` | `Nexus_proofs` |
| `SourceRepos`, `GitlabHooks`, `QualityGates`, `TelegramPoll`, `TelegramMenus`, `ProjectHealth` | what is kept in step with other services | `MCIntegrations` | `Integrations_proofs` |
| `Cadence`, `BackupSchedules`, `RetentionRuns`, `MetricAlerts`, `Connections` | background loops and stored settings | `MCMaintenance` | `Maintenance_proofs` |

Each module begins with what it models and what it abstracts. The parts composed
in one MC module share no variable (what one needs of another is an input to it),
so a behaviour of all of them is an interleaving of behaviours of each. The MC
module has a variable `part`, chosen once: that part moves, and the others rest
in one initial state each. The run then covers the sum, not the product, of the
parts' states, and a property of one part is checked in all of that part's
behaviours.

Some definitions are headed "Variant with a fault" or "A fault". They are never
part of a specification: each stands beside the definition it varies and is what
a plausible mistake in that piece of code would look like. `PROJECT.json` names
the property that notices each of them.

### JobQueue

Redis is `status`, `retryCount` (the hash), `queue` and `index`; they survive
`Crash` and `Shutdown`. `task[j]` is the await the runner's task for `j` is
suspended in, so one action is what the code does from one await to the next,
including the Redis command of the await it leaves. The values, in order of
`_run_one`: `get`, `noHandler`, `start`, `started`, `handler`, `done`, `result`;
in the except clauses `retry`, `retryEvent`, `fail`, `failEvent`, `cancel`,
`cancelEvent`.

* `Enqueue` is one MULTI/EXEC. `Pop` is BLPOP and `create_task`, which have no
  await between them; `PopFault` is a BLPOP whose answer never arrives.
* `Get` has both early returns; `Start`, `EnterHandler`, `Progress`,
  `HandlerReturns`, `HandlerFails` and the `Write*` actions follow the code.
  What a handler does is its own business: it may report progress any number of
  times, return, or raise (a timeout is a raise).
* `DeliverCancel` is a `CancelledError`: inside the `try` it leads to the clause
  that writes `cancelled`, anywhere else it ends the task. The interrupted
  command may have been executed by Redis or not (`MaybeExecuted`).
  `TaskFault` does the same for a Redis error.
* `RequestCancel`, `FlipStatus`, `SignalTask` are the cancel endpoint's three
  awaits; `ClientFault` a failure in one of them.
* `Shutdown` sets every task's cancellation, as closing the event loop does;
  `Stopped` is reached when they have ended. `Boot`, `Reap`, `RunnerStart` are
  the start-up order of `main.py`: reaping first, then the runner, then requests.

Abstracted: payloads, messages, percentages, the hash's TTL of a week, the back-off
(a timer fires at any time), the timing of handlers. A job's id is never reused.

### JobAttempts

A job is `new`, `waiting`, `running` or `over`. It runs at most once plus its
retries, and over is final. `JobQueue!Stage` is the refinement mapping: a job is
`waiting` while the queue, the pop, a task before its `try` or a timer carries
it; `running` from there to the end of the task; `over` when nothing carries it.
The status in the hash takes no part in it: this is about work, not about what
is reported. `Finish` takes a set because a crash ends several jobs in one step.

### JobEvents

Event number *n* is the *n*-th event of the job. `Push` and `Trim` are the two Redis
commands of `push_event`. The runner, the cancel endpoint and reaping push to one
list, so several pushes may be between the two (`trims`), and one that ends there,
by a stop, a cancellation or a Redis failure, never trims (`LoseTrim`); `lost`
counts those since the list was last trimmed. Either excess is in the bound of
`EventsTyped`.

The status is `live` or `over`, and `over` is not for good (`RunAgain`): the runner
writes `running` when it starts and with every report of progress, over a cancel
it has not seen, and a reaped job may still be popped and run. `ReadStatus` and
`ReadEvents` are the two reads of one poll, in that order, so a connection may
close on a status that is overwritten, or miss it. A connection may go and come
back, from the start, at any time.

`StreamsEnd` promises a connection's end only where the status is terminal for
good. It has to: a status that stays `running` (`jobs_cancel_race`) keeps its
connections open until a restart reaps the job.

### ScanLedger

* `nexus[i]` is the content a tag has in the registry; `Push` and the deletes
  change it. `deliveries` are webhook calls Nexus has under way: unordered, late,
  and repeated.
* `target[r]` is a `scan_targets` row: mode `none` (no row), `off`, `on`
  (`enabled` and `auto_scan`), and whether it has a baseline. `ledger[i]` is the
  committed ledger row.
* A request (`Deliver` or `Ask`, `Gate`, `Resolve`, `Flush`, `EnqueueScan`,
  `CommitScan`) has a session of its own. The watcher has one session for a whole
  cycle; what it has written and not committed is `session`: `add` are flushed
  inserts, `digest` are updated digests. `watch` holds what it has listed
  (`listing`) and read (`known`), which may both be stale.
* Postgres runs READ COMMITTED: reads see committed rows; a flushed insert makes
  a second insert of the same `(repo, image)` wait, and then fail on the unique
  key; an update writes only the columns that changed since the read; an update
  of a row somebody deleted fails (`lost`). After a failed flush or commit the
  session rolls back and expires its objects, so the handler's own log line
  (`target.repo`, `main.py:273`) raises, and the cycle ends (`CycleFails`).
* A scan job is `queued`, `running`, `record`, `write`, `over`: `Scan` looks at
  what the tag holds at that moment; `RecordRead` and `RecordWrite` are
  `record_scan_outcome`. `DropJob` stands for every end without a recorded
  outcome: a cancel, or an exception before it.
* `Crash` rolls back all sessions and ends running jobs; queued jobs wait in
  Redis.

`PromptCommit` is an assumption about timing: if TRUE a scan job does not come to
record its outcome before the session that queued it has committed. The commit
is the very next thing a session does and a scan takes minutes, so it usually is
true; where it is assumed the run says so. Abstracted: a listing of one
repository is atomic; baselines are booleans, not times; access rules, reports
and vulnerabilities.

History variables: `observed` (repositories baselined once), `fresh` (images
pushed since the baseline), `credit` (pushes minus unasked scans), `scanned`
(contents a scanner was pointed at).

### AnalysisRuns

* `head[b]` is the commit at the tip of a branch; `Push` moves it and starts a
  delivery. `Deliver` is a webhook up to its `SET NX` (`claimed`); `accepted` are
  requests past it, whose next await is the enqueue. A delivery may be repeated
  at any time. GitHub's additional claim on the delivery's id, which lasts a day,
  only declines more and is left out.
* `run[c]` is the `analysis_runs` row of a commit: its status, and `measures`, the
  commit whose analysis its numbers come from. `results[c]` are its gate results
  and findings, each with the job that wrote it and the commit it is about.
* `sonar[s]` is what a Sonar project analysed last, `tasks` the reports it has yet
  to process, in any order. A branch has one project (`KeyOf`).
* `jobs[k].pc` is the await the job is suspended in: `queued`, `begin` (it has
  read the run, the commit is next), `clone`, `waiting`, `gate`, `measures`,
  `store`, `gates`, `issues`, `findings`, `commit`, `report`; `fail` and `mark`
  are `_mark_failed`; `over`. `clone_and_analyze` has the default policy: no
  retries, no timeout.
* Transactions are READ COMMITTED. `seen` is the row a session has read; a commit
  writes the columns that differ from it (`Changed`), as SQLAlchemy does. `doomed`
  are rows the session has deleted and not committed. A DELETE takes the rows it
  sees when it starts (`old`), waits if another transaction has deleted one of
  them, and does not see rows that came since (`Delete`).
* `Fail` is any exception within the `try`; `Gap` one outside of it, before the
  `try` or within the `except` clause; `CommitFails` a commit that raises inside
  the `try`, after which the `except` clause raises at `run.id`; `Cancel` a
  `CancelledError`; `Stop` with `Restart` or `RestartReapingFails` the end of the
  process and its next start.

`alone` is a history variable: no other job or unprocessed report for the commit
or its Sonar project overlapped with this job, and the tip it cloned was its
commit. Abstracted: measures, conditions and findings are the commit they are
about; `ref`, `trigger`, `error` and times of a run; insights and the status at
the provider, which nothing here reads; language and key of the Sonar project.

### Access: AccessRules, GlobPatterns, ProjectMembers, Sessions, LoginThrottle

* `AccessRules`: roles, rules and users are the tables. Each handler is one
  transaction over rows it reads itself and so one action; `Seed` is the start of
  the process. The decision, the effective-access screen, the rule tester and
  the listing filter are operators of their own, translated from their own code:
  whether they agree is the question. Patterns are opaque; `GlobPatterns`
  translates the regular expressions they become, and gives `Matches` and
  `Universal` their values in the run.
* `ProjectMembers`: a request authorises and reads in one action and writes in
  another; what it read is in `request`. `OtherAdmins` is what
  `_assert_not_last_admin` counts.
* `Sessions`: a cookie is its expiry time; `lastSeen` is the column that requests
  update and `Refresh` compares with the idle timeout; ticks are longer than the
  minute for which an update is skipped.
* `LoginThrottle`: `at` is the await an attempt is in; each Redis command is an
  action, and lets the attempt through when Redis is away. The lock does not
  expire between two consecutive commands of one attempt.

### Nexus: DbDownload, TrivyReplicas, DbUpdates, RegistryDiscovery, SharedAnalysis, StorageScan

* `DbDownload`: files are sequences of pieces that know their registry and build.
  An open handle follows its file through a rename, as on Linux. `ReceiveChunk`
  writes at the handle's position; the caller learns of it in `ChunkDone` only.
* `TrivyReplicas`: slots, `TRIVY_LOCK` and the files behind them. A cancelled
  checkout leaves a thread that still copies (`abandoned`) and loses its slot; a
  cancelled scan leaves a process that still reads (`orphans`).
* `DbUpdates`: the stages of `update()` and `import_offline()` per scanner, what
  each does to `database`, and the answers; `verdict` is the remembered answer of
  `grype db status`.
* `RegistryDiscovery`: `asker` is where a scan or the diagnostics page is; each
  request to Nexus goes to the client of that moment (`asks`). Settings are saved
  by one request at a time here; overlapping ones are in `Connections`.
* `SharedAnalysis`: `caller[c].queue` is an asyncio queue, `dicts` the event
  objects that all queues share.
* `StorageScan`: the listings, the workers and the shared set of counted blobs. A
  listing is one step. Only Docker repositories.

### Integrations: SourceRepos, GitlabHooks, QualityGates, TelegramPoll, TelegramMenus, ProjectHealth

* `SourceRepos`: a request or `provision_repository` job is a record that
  advances from await to await; what it has not committed is in its record.
  `Refusals` are the unique keys. `crowded` records requests that another
  request, a sync or an edit of the integrations overlapped.
* `GitlabHooks`: the registration reads the row in a session of its own, and the
  request commits the webhook afterwards from its older copy; `Reinstall` deals
  the numbers anew and drops all webhooks.
* `QualityGates`: `ensure_quality_gate` call by call from the conditions read
  first; `touched` records that somebody else changed the gate meanwhile.
* `TelegramPoll`: the offset is in memory only; Telegram drops what lies before
  it. `Backoff` is the wait after failures, which changes no other state.
* `TelegramMenus`: a screen is the set of buttons it offers and where its Back
  leads; a tap may come from any message so far. `Allowed` is what the handlers
  check again.
* `ProjectHealth`: rows of `analysis_runs` start, are used again, succeed or
  fail; their insights come in a transaction of their own or are lost. The
  score's reads are one step.

### Maintenance: Cadence, BackupSchedules, RetentionRuns, MetricAlerts, Connections

* `Cadence`: `compute_next_run` on a calendar with real month lengths, and
  `DueOn`, the days a cadence means, written down independently. A cron
  expression is a set of days (croniter is not part of the source).
* `BackupSchedules`: the poll reads (`PollDue`), enqueues one by one (`PollFires`)
  and commits once (`PollCommits`); a run is its job's stage, its `BackupRun` row
  and the archive on `disk`; a prune selects, removes files one by one, then
  commits the rows.
* `RetentionRuns`: a run reads a policy's row once (`Row`: repository and limits),
  lists that repository and deletes one by one while others push and delete.
  `UpdatePolicy` is one PATCH of any of switch, repository, limits and cadence;
  the rules a policy has had (`had`) and the rule each component was removed under
  (`under`) are history, by which `EveryRemovalIsEarned` judges a removal by the
  row the run held and not by the one the policy has by then.
* `MetricAlerts`: the commits of a collection round, then the rules against the
  latest samples; webhooks go out one by one before the one commit that records
  them.
* `Connections`: `stored` is sealed with a key; PUT commits, then `Reconfigure`
  swaps the live client; `Start` is a new process, perhaps with another
  environment or key.

## Runs and what they show

| Run | Checks |
|---|---|
| `progress` (`MCProgress`) | Jobs: `SingleCarrier` (one place carries a job), `OutcomesHold` (what is over stays over, a cancel that came in time is honoured), `AttemptsSpec` (refinement of `JobAttempts`), `EveryJobSettles`. Streams: `EventsInOrder`, `StreamsEnd`. Ledger: `PushesAreScanned` (what is pushed after the baseline is scanned; again when its content changed). `TypesOK` |
| `ledger` (`MCLedger`) | Hostile: `ScannedIsEarned` (no row says scanned unless a scanner was pointed at the image), `NoScanBeforeBaseline`. Prompt: `PromptScansAreDue` (an unasked scan has a push of its own, a queued row has its job, no image has two). `LedgersTyped` |
| `analysis_fair` (`MCAnalysisRuns`) | `EveryRunEnds` (no run says running for ever), `EveryPushAnalysed` |
| `integrations` (`MCIntegrations`) | `RunningIsWorkedOn`, `WebhookOnce`, `CleanRunIsExact` (analyses); `MarkersHold` (what is mapped is marked; only overlapping requests are refused); `RegisteredHears` (a row with a webhook has it, on its project); `ReconciledIsPreset` (a reconciled gate is the preset); `HandledOnce` (a Telegram update is handled once per start, none is lost); `FreshButtonsWork` (no button of a true screen is refused); `HealthIsHonest` (insights and score say what was found). `TypesOK` |
| `access` (`MCAccess`) | `DecisionsAgree` (explanations, shortcuts, listing and decision agree; administrators stay unrestricted), `SignInHolds` (guesses are bounded, idle sessions end), `AdminLostOnlyToRace`, `TypesOK` |
| `nexus` (`MCNexus`) | `FilesKeptApart` (no archive mixes registries, no two workers at the same files), `EveryScannerAnswered`, `WaitersAreServed`, `EndpointsHold`, `ActiveIsWhatTagsUse`, `TypesOK` |
| `maintenance` (`MCMaintenance`) | `SchedulesFireOnce`, `SuccessHasItsArchive`, `NotifiedMeansRecorded`, `SettingsAreSaved`, `RemovalsAreEarned` (retention and pruning), `TypesOK` |
| `jobs_cancel_race`, `events_stall`, `ledger_swallowed`, `analysis_two_results`, `shared_events` | the smallest instance that shows a [divergence](#where-code-and-documentation-disagree); these must fail |

Several properties are conjunctions of two that concern one part:
`OutcomesHold` = `SettledForever` ∧ `CancelHonoured`, `PushesAreScanned` =
`RepushIsScanned` ∧ `NewImageIsScanned`, `DecisionsAgree` = `ExplanationAgrees` ∧
`ShortcutsSound` ∧ `ListingAgrees` ∧ `AdminUnscoped`, `SignInHolds` =
`GuessesBounded` ∧ `IdleMeansSignIn`, `FilesKeptApart` = `NoMirrorSplice` ∧
`FilesAreExclusive`, `SchedulesFireOnce` = `FirstMomentAfter` ∧
`FiresOncePerCommit`, `RemovalsAreEarned` = `EveryRemovalIsEarned` ∧
`OnlySupersededArchivesGo`, `SettingsAreSaved` = `LiveIsWhatWasSaved` ∧
`ShownSecretsWereStored`, `MarkersHold` = `MappedIsMarked` ∧ `RefusedOnlyInACrowd`.

## Bounds, fairness, deadlock

Each bound is a guard on an action, named in the constants (`Max...`, `Limit`).
Why they are enough:

* **Jobs** (2 jobs, 1 canceller, index of 2, 2 process ends, 2 Redis failures): the
  properties are about one job and the lists it shares; a second job gives the
  lists an order, a trim and a neighbour. Two ends let a job live through a
  restart and its consequences; a policy of one retry has both branches.
* **Streams** (2 connections, list of 2, 4 events): the list is trimmed past
  everything a connection knew; two pushes beyond the limit are two at once, two
  that lost their trim, or one of each.
* **Ledger** (1 image): actors of other images share only the watcher's session.
  Two requests, the watcher and their jobs contain every pair of actors; two
  pushes let the second meet any state the first left.
* **Analyses** (2 branches, 2 commits, 2 jobs, one trouble): analyses interfere
  through one commit or one branch, so two jobs are a conflict.
* **Integrations**: two overlapping requests on three repositories, two of which
  share a Sonar key; one host with two paths, three calls and one reinstall; two
  requests on gates with two presets and one edit; two bots whose numbers
  overlap, two restarts and failures, one switch; eight taps; two repositories
  with three analyses of three samples.
* **Access**: two rules of three patterns over two repositories and two images
  with three roles; two users and two requests; two browsers and a token over
  four ticks (idle limit 2, refresh life 4); two clients of one address against a
  threshold of three.
* **Nexus**: two jobs pulling from two registries, blobs of two pieces, two
  builds, one break; three scans and two writers on two slots; one database job
  over both scanners; two hosts, one repository, three changes; two callers and
  two runs; two tags over five manifests.
* **Maintenance**: every moment of three months for every cadence; one schedule,
  three runs, an edit and a restart; three versions of one image, one of them
  without a date that parses, in one of two repositories, a policy that at first keeps one version, two overlapping runs and
  one change (any PATCH, to an age limit or the other repository included); two
  rounds over two resources and rules; two clients, two saves, one start. Several
  images, rules that keep more or none and several edits are left to the proof,
  and so is an edit of a schedule's age rule.

The proofs lift every safety property of the passing runs to all values of the
constants.

**Fairness.** Job queue: every task that can go on does, since the event loop is
fair to ready tasks; timers fire; handlers end, which is the handlers' duty
(some have a timeout in their policy); the pop loop never stops while the
process is up; a stopped container is started again (`restart: unless-stopped`
in `docker-compose.yml`). Nothing forces new jobs, cancels, progress or
failures. Streams: polling every second, and a push that was begun trims or loses its trim;
nothing makes the job end.
Ledger: the watcher polls for ever, requests are answered, jobs proceed. Nobody
has to push, ask, delete or configure. Analyses: one condition on all of
`Progress`, that something goes on while anything can, which assumes less than
fairness of each job, report and request and suffices, since all of them finish.
All of it is weak fairness; in `MCProgress` each part has its own, and a part
that rests promises nothing.

**Deadlock** is not checked: every system here may come to rest with nothing
to do, as the bounds run out. That it does not come to rest too early is what
the liveness properties say.

## Proofs

Every theorem holds for all values of the constants that satisfy the named
ASSUMEs of the modules (finite sets where something is counted, natural bounds,
names that are not special values). Each invariant has a lemma that its
strengthening is kept by every step, with a step per action. Every invariant,
action property and refinement that a passing run checks is the subject of a
theorem; only liveness is left to TLC.

The theorems of `Nexus_proofs`, `Maintenance_proofs` and `Ledger_proofs`, and three
of `Access_proofs`, are stated of the composed specification, the others of the
component's own. What a component keeps its composition keeps, since the other
parts rest: `PartsKeepTheirSpecs` (in `JobQueue_proofs` and `Integrations_proofs`)
says that a behaviour of the whole is one of each part, and `SideBySideCorrect`
and `TogetherCorrect` carry the components' theorems over.

**Assumptions that are not sizes or types**, and why the code meets them:

* `NamesAssumption` (`ScanLedger`): images, repositories and requests are told
  apart, and none of the requests is the special value `None`. `PromptNames` is
  the same for the instance in `MCLedger`.
* `CadenceAssumption`, `CronAssumption`, `ChoicesAssumption`: months have 28 to 31
  days, a cron expression matches some day of the calendar's last month, and the
  clock stays within the calendar, in which a next moment is looked for. Only
  the model's calendar ends; and a schedule is stored with its first moment, so
  one whose expression never matches is not stored (`routers/system.py:364`, `:405`).
* `BytesAssumption`, `ContentAssumption` (`StorageScan`): a repository has finitely
  many blobs and tags, and "no manifest" is not a digest.
* `PoolAssumption` (`TrivyReplicas`): there is a first build of the database.
* `UniversalAssumption` (`AccessRules`): only patterns that match everything are
  called universal. `GlobPatterns` satisfies it as far as TLC evaluates it in
  the `access` run.

**Sums and recursive functions.** The theorems of the library that prove by
induction take the property as an operator, which no installed prover can
instantiate. Where a proof needs an induction it takes the least counterexample
instead: a non-empty set of numbers has a least element (`LeastNat`), a subset
of a finite set can be shown to have a property once it has it whenever all
smaller ones do (`SmallerFirst`); both come from the well-foundedness theorem
`WFMin`, in which the property is a set. In this way the sum over a finite set
is shown to exist, to split over disjoint sets and to be bounded; the first days
of the months (`FirstOf`) to be well defined and to increase; and what a
manifest reaches (`Reached`), whose depth is bounded, to equal the levels
written out one by one.

**`JobQueue_proofs`**: `SingleCarrierCorrect`, `AttemptsCountedCorrect`,
`AttemptsBoundedCorrect`, `RequestsExistCorrect`, `OutcomesHoldCorrect`, and
`ImplementsJobAttempts`, the refinement of `JobAttempts`. `SingleCarrier` is
inductive with the types, since each action moves an entry from one place to one
other. `AttemptsBounded` is not: from "runs so far at most 1 + recorded retries"
alone, a popped job could be run again. `AttemptsCounted` strengthens it: while a
job has not entered its handler since it was queued, every earlier run is paid
for by a recorded retry, and from its read to its end a task's copy of the
counter equals the one in Redis. The latter needs `SingleCarrier`, or another
task could change the counter. `OutcomesHold` needs that a task which has not
read its job can still write nothing, and that no other place carries it.
`JobAttempts_proofs` proves that runs are bounded and that over is final of the
abstract specification; with the refinement the framework inherits both.

The module also holds the theorem on the stream, `EventsInOrderCorrect`: a
connection's `last_idx` and what it has got are related to the numbers in the
list. Without a trim the list is all events, and after one the index only ever
points further on. `TypesOKCorrect` joins the types of both; its bound on the list
is an account: a push owes a trim, a lost trim leaves the debt, and a trim settles
all but that of the pushes still under way.

**`ScanLedger_proofs`**: `TypeCorrect`, `NoScanBeforeBaselineCorrect`,
`ScannedIsEarnedCorrect`, with or without `PromptCommit`. Type correctness is not
bookkeeping: a commit of the watcher writes a digest into a row it read some
steps ago, and a delete may have removed that row. `RowsKept` says that a digest
waits in the session only for a row that is still there, or whose loss the
session will run into (`watch.lost`), which fails the commit; it holds because
each repository is visited once per cycle. `ObservedOK` says of every copy of a
target (the row, the watcher's, each webhook request's past the gate) that a
baseline in it was observed. `JobsEarned` says of a job that is about to record
success that a scanner was pointed at a content of its image.

`ScansAreDueCorrect` is about the quiet case (`Quiet`): commits are prompt and
nothing is deleted, dropped or fails. Its invariant is an account per image.
`credit`, the pushes not yet paid for by an unasked scan, covers what the image
may still be scanned for (`Owed`): its first row, or each change on the way from
the digest on record, by way of the one the watcher has listed, to the one in
Nexus. Around it stands what makes each entry of the account right: what was
delivered, listed or read is still there (`Present`), an image has one inserter
(`OneInserter`), a digest in the session was listed in this cycle (`MarkOK`), and
the watcher's copy of a row it has still to visit is the row (`ComingOK`). That
no image has two scans as long as nobody asked for one follows from the row: it
says `queued`, or is about to, while a job is in flight (`OneJobOf`).

**`Ledger_proofs`**: `LedgersTypedCorrect`, `PromptScansAreDueCorrect`,
`LedgersEarnedCorrect` and `LedgersBaselinedCorrect` carry these over to `MCLedger`,
the last for settings whose jobs have the same names: the theorems about an instance of `ScanLedger_proofs` apply to
the prompt setting, whose constants meet their assumptions (`PromptMeets`).

**`Integrations_proofs`, analyses**: `TypeCorrect`, `RunningIsWorkedOnCorrect`,
`WebhookOnceCorrect`, `CleanRunIsExactCorrect`. That an unfinished job exists for
each running run is not inductive: a job writes a status only if it differs from
the one it read, so a job that reads a rival's `success` and ends without
writing would leave `running` if the row had been reset in between. Such a blind
job (`Blind`) is never the only one: whoever reset the row is unfinished and will
write (`Ends`). `ClaimsHold`: a commit that is accepted or has a push-triggered
job is claimed, and alone in that. `CleanInv` follows an undisturbed job: it has
no rival for its commit and Sonar project (`Unrivalled`), the report and answers
it holds are its own commit's, and what was there before is swept.

**`Access_proofs`**: `AccessTypesCorrect`; `DecisionsAgreeCorrect`, where the
administrator's role is unscoped whatever is edited, and the decisions agree by
case analysis on the rules of a user; `AdminLostOnlyToRaceCorrect`, where what a
request read is still true unless the administrators changed since
(`ReadTogether`); `SignInHoldsCorrect` from `IdleMeansSignInCorrect` (an access
cookie never outlives the last sign of the user by more than both limits,
`Tethered`) and `GuessesBoundedCorrect` (`Accounted`: wrong guesses are the
failures counted and the attempts in flight, by cardinality).

**`Nexus_proofs`**
* `EveryScannerAnsweredCorrect`: what a job has answered and what it has to do
  are disjoint and together what it was asked.
* `WaitersAreServedCorrect`: a run that is not over is the one in flight, and an
  end in a queue is preceded by its outcome.
* `EndpointsHoldCorrect`: a discovery's host is the one dialled, or it is late; a
  repository not found is still to be asked for, or is not there while nothing
  changed; a stored map is of the dialled Nexus, or `left`.
* `FilesKeptApartCorrect`: a slot is free, held, abandoned or lost and never two
  of these, and the lock names who copies or writes; a file holds bytes of its
  own registry, and open handles are at files that exist.
* `ActiveIsWhatTagsUseCorrect`: what a worker has brought and what is still to
  come of the manifests it has not fetched make up what its tag reaches
  (`NothingLost`), as long as nobody changed the repository and nothing failed;
  and in every state the bytes in use are those of the blobs counted, and the
  tags' sizes cover them (`Bytes`), whatever the order in which workers finish.
* `TypesOKCorrect` adds what the invariants above leave open: a download's pieces
  are of builds that were published (`PiecesInv`), databases and verdicts
  (`DatabasesInv`), builds and times of replicas (`BuildsInv`).

**`Integrations_proofs`, the rest**
* `MarkersHoldCorrect`: rows and markers are never removed; an uncrowded request
  is the only active one, so what it found absent still is; a repository of a
  queued job has a row, or a bulk request that failed or may fail excuses it.
* `RegisteredHearsCorrect`: a row that is neither stale nor mixed has its
  project's number and webhook; for a stale unmixed row at most one request is
  under way, whose reconnection read the row as it is.
* `ReconciledIsPresetCorrect`: what a request has left to set and to drop is what
  its gate differs by from the preset, while nobody else touched the gate.
* `HandledOnceCorrect`: Telegram's answers are runs of consecutive numbers after
  the last one taken; what lies behind has been handled while no other bot's
  token was saved.
* `FreshButtonsWorkCorrect`: every screen offers only what its viewer may do.
* `HealthIsHonestCorrect`: while no two analyses of a repository overlapped, the
  one under way remembers the result it will be compared with (`Remembers`), an
  analysis that has not been judged has no insight (`Unreported`), and start
  times tell analyses apart (`Distinct`). That the score hides nothing needs no
  induction over steps: it is a fact about the sums the score is made of.
* `TypesOKCorrect`: the types of all seven parts of the composition.

**`Maintenance_proofs`** is about `MCMaintenance`'s specification: each part has
an inductive invariant, and the composition keeps all four (`WholeSteps`).
* `SettingsSaved`: while no two PUTs overlapped, the one that has not reached the
  client yet is alone and its row is in place, sealed with the key in use
  (`SavedByOne`); every secret in the table has been stored (`SecretKept`).
* `AlertsRecorded`: a webhook's rule is among those its evaluating round will
  record (`Pursued`), or is recorded, gone, or lost with the round (`Settled`).
* `ArchivesAreThere`: a run owns its path until a prune picks it, stage by stage
  (`RunHolds`).
* `SchedulesFireOnceCorrect` has two halves. The next moment is the first one: the
  months follow one another without gaps (`FirstOf`), the candidates of
  `compute_next_run` fall on days the cadence means, and no such day lies between
  the moment asked about and the answer. A moment fires once: what has fired
  lies behind the clock and the poll (`FiredBehind`), and a schedule whose next
  moment is not later than one that fired is one the poll has fired and not yet
  advanced (`NextIsFresh`, `JustFired`), or a poll was lost.
* `TypesOKCorrect`: the types of all five parts.
* `RemovalsEarned` has two halves. For backups, later successes rank higher and
  finished no earlier (`InOrder`), and a picked archive leaves a later success of
  its schedule that nobody has picked (`PickedIsSuperseded`), unless some rule
  keeps none. A selection keeps that because the highest rank among the
  schedule's runs is neither surplus nor too old unless all are; that a finite
  set has a highest element (`HighestOf`) follows from the well-foundedness of
  strict inclusion. For retention, what a run has still to delete under the rule
  it read, or what was deleted under one (`Condemned`), was pushed to that rule's
  repository and is `Justified`: too old, or with at least as many versions that
  were ever there ranking higher as the rule keeps. That stays true whatever
  follows, since age and the set of versions ever there only grow, and since it
  speaks of the rule that was read, which no edit changes. The rule is one the
  policy had, since what a run holds was a row when it was read (`RulesWereHad`).
  The claim asks more, that enough of those ranking higher were never themselves
  ranked out: the foremost that was (`Foremost`; `AheadIsAnOrder`) had as many
  above it, and none of those was.

## What is only model-checked

* All liveness: `EveryJobSettles`, `StreamsEnd`, `PushesAreScanned`,
  `EveryRunEnds`, `EveryPushAnalysed`. Liveness under fairness is out of the
  prover's reach.

Everything else the passing runs check is proved for all values of the constants.
The violations of the failing runs are TLC's counterexamples.

Proving found one error in the models: `RefusedOnlyInACrowd` excused fewer
refusals than it should. A public bulk request may queue a provisioning job and
then be refused by a repository's unique name; the job, alone, then finds no row.
The run's bounds had not reached it; the property now names it.

## Where code and documentation disagree

Each of these is a run that must fail, with the sentence it contradicts quoted in
`PROJECT.json`.

* `jobs_cancel_race`: a cancel between the runner's read of the job and its `try`
  leaves the job `running` for good (until a restart reaps it).
* `events_stall`: after 256 events a stream falls silent until the job ends.
* `ledger_swallowed`: a tag created and re-pushed within one poll interval, with
  webhooks on, is never scanned with its second content.
* `analysis_two_results`: two overlapping jobs for one commit leave two gate
  results.
* `shared_events`: the first stream to read a shared analysis's result takes its
  type off the event; the other never gets a result.

Other behaviours were met while modelling. The models contain them, and the
properties say where they make an exception for one.

Job queue and ledger:

* Between the two commands of `push_event` nothing holds other pushes back, and an
  error there loses the trim: the list may exceed `_EVENTS_MAX` until the next
  push. A connection that reads a cancel or a reaping which the runner then
  overwrites closes while the job goes on.
* A job that waited in Redis over a restart is reported failed by the reaping,
  which says it will not resume, and then runs, since its queue entry is still
  there (`Reap`, `Pop`). The reaping reads only `jobs:index`, which newer jobs
  trim: an old job can stay `running`.
* A crash between the enqueue of a scan and the commit of its row has the push
  scanned twice. A job that finishes before that commit, or is cancelled, or dies
  before it records an outcome, leaves `queued` behind, and later pushes of that
  tag are declined.
* A race for one image that the watcher loses on the unique key ends the watch
  cycle for all repositories that follow (`CycleFails`). A tag deleted between
  the watcher's listing and its insert comes back into the ledger. A target that
  is deleted and created again keeps its old rows.

Analyses:

* The job "clones the pushed commit" (`analysis_worker.py:9`), but what it clones
  is the tip of the branch; after a second push the first commit's run holds the
  results of the second.
* A commit that fails expires the run object, so the `except` clause that is there
  to keep a run from being "stuck at running forever" raises at `run.id` before
  it marks anything; a cancelled job does not enter it at all.
* If reporting the commit status fails after the results are committed, the run
  is marked failed with its results in place.
* Delivery and commit are claimed before the outcome is known: if the enqueue
  fails, repeated deliveries are declined for an hour. The commit's claim ignores
  the branch. Two branches whose names make one slug share a Sonar project.
* Insights: with overlapping analyses "previous" may be one that started later; a
  re-run replaces its row's result, so a regression may be reported twice; an
  exception after the run's commit loses its insights; a newer LOW insight can
  push a CRITICAL one out of the five considered, which raises the score.

Source repositories, GitLab, gates, Telegram:

* Bulk requests queue jobs before they commit: a job may find no row, and of two
  jobs of a new project the second's marker is refused and nothing retries it
  (`provisioning_worker.py:3-11`). A bulk request that dies after the enqueue
  provisions an unmapped repository (against `sonar.py:419-421`).
* A public repository connected by URL makes the later installation sync fail on
  its name (`github.py:425-441`). Two repositories with one slug in one project
  share a Sonar key: the second fails after its mapping is committed.
* A project-level `run_analysis` passes no user, whose id it then reads
  (`sonar.py:836`).
* A reconnect forgets the webhook even when the project is the same
  (`gitlab.py:362-366`), and two registrations at once make two webhooks
  (`gitlab.py:399-403`): one is an orphan. After a reinstall that reuses numbers,
  a sync may refresh another project's row or fail on the path; the path is
  unique over all hosts (`gitlab.py:256-260`).
* The picker shows the default preset although a named gate was assigned
  (`models/sonar.py:72-76`, `provisioning.py:355-359`). Two analyses of one Sonar
  key revoke each other's token (`modules/sonar/connector.py:85-100`). A switch
  can be made in SonarQube and its row lost.
* Telegram: the last number is kept when another bot's token is saved, which may
  drop that bot's updates; error screens' Back leads to a list that
  `system:execute`-only accounts are refused (`keyboards.py:141-144`); a viewer
  who reaches the list of members is offered each of them.

Access:

* Two overlapping member requests, or the deletion of an account, can leave a
  project without an administrator (`core/projects.py:163`). `update_role` may
  empty the administrators' permission keys until the next start. Signing in does
  not count as being seen: a user idle for long who signs in must do so again
  unless a request follows within the access cookie's life. The refusal of an idle
  refresh deletes both cookies on a response that its own exception discards
  (`auth.py:135-137`): they stay, and are refused again. The seed does not
  reactivate the bootstrap administrator.

Scanners, registries, storage:

* A download is "renamed once its size matches the manifest"
  (`db/process.py:406-409`), but what is compared is the count of the bytes
  written. Overlapping update jobs share a `.partial`; the partial file of an
  older build is continued with a newer one's bytes if that is no smaller.
* A cancelled checkout leaks its slot (`trivy.py:119` catches `Exception` only);
  a copy thread and a scanner process outlive their jobs; replicas may be copies
  of a half-written database (`trivy.py:37-38`). A failed extraction leaves the
  canonical database overwritten in part.
* A registry map read before a change of the connection may be cached after the
  invalidation, for up to two minutes; a discovery that overlaps a switch may mix
  one Nexus's host with another's ports.
* A stream that joins after a shared run's result was announced, or of a
  repository without images, ends without a result. A tag whose manifest cannot
  be read counts as wasted space.

Backups, retention, alerts, connections:

* A backup row stays `running` for ever after a cancel or a crash, and its partial
  archive stays on disk. `retention_keep_last` may be 0 (`system.py:247`): a run
  then deletes its own archive. Two downloads of one run share a temporary file
  (`system.py:205-225`).
* A poll whose commit is lost fires again; a poll overwrites the next moment of a
  schedule edited meanwhile; a schedule enabled again with a past moment fires at
  once.
* Retention: rows are read once per sweep, so an edit of a policy, or its being
  pointed at another repository, does not reach the run under way; age and count
  together can empty an image; equally dated versions are ranked as Nexus lists
  them.
* A webhook that was sent is not recorded if the round is cut off.
* Overlapping PUTs of the Nexus settings may leave the older client in force. A
  saved address equal to the environment's is ignored at start. A row sealed with
  another key reads as an empty secret.

## What is not modelled

`PROJECT.json` gives a reason for every part. In short: HTTP clients, parsers,
PDF layout, the bytes of archives, aggregation and forms have no interesting
order of steps; the event bus calls its subscribers within a time limit and keeps
nothing; the frontend is a client of the API; hashing, JWT and subprocess
handling are library code. Within modelled parts the following is left out:

* the set-up of the GitHub App (manifest, installation callback, secrets) and a
  Sonar project's language;
* the storage analysis of repositories that are not Docker; what scanners print;
* settings saved by several requests at once in `RegistryDiscovery` (they are in
  `Connections`), and two analyses of one row at once in `ProjectHealth` (they are
  in `AnalysisRuns`);
* texts, paging and encoding of the bot's callbacks;
* jobs' payloads, back-off times and the week a job's hash lives;
* two overlapping PATCHes of one retention policy, which may clear one limit each:
  that policy would select nothing;
* manifests that Nexus lists as assets and the storage scan counts as waste: the
  model has them only as blobs no tag uses.

Some defensive branches are unreachable in the models as in the code, and
therefore have no disjunct of their own: a size mismatch after a complete
download, a replica that is fresh again under the lock.

## Plan

Done: the models of all parts above, their runs, and a theorem for each safety
property the runs check.

Left: the set-up of the GitHub App and other parts listed as not modelled, should the
order of their steps come to matter; and proofs of liveness, should the prover
come to support fairness.
