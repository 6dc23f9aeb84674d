--------------------------- MODULE BackupSchedules ---------------------------
(***************************************************************************)
(* Scheduled and manual byte-level backups: the schedules (routers/        *)
(* system.py), the poll that enqueues what is due (services/backup_        *)
(* schedule.py), the job that writes an archive and tracks it in a         *)
(* BackupRun row (services/job_handlers.py, backup_archive.py), and the    *)
(* pruning of a schedule's older archives.  Jobs run side by side; a       *)
(* cancel or a restart may stop one anywhere, and nothing retries it.      *)
(* The clock counts slots of the Cadence calendar.                         *)
(***************************************************************************)
EXTENDS Cadence

CONSTANTS Schedules,
          Runs,             \* the runs, a job and its row each, in the order of their jobs
          NoSchedule, NoRule,
          Choices,          \* cadences an operator may choose
          KeepRules, AgeRules,
          MaxTime, MaxEdits, MaxRestarts

ASSUME BackupAssumption ==
    /\ NoSchedule \notin Schedules /\ NoRule \notin Nat /\ MaxTime \in Nat
    /\ IsFiniteSet(Runs) /\ Runs = 1..Cardinality(Runs)
    /\ KeepRules \subseteq Nat \union {NoRule} /\ AgeRules \subseteq Nat \union {NoRule}

\* The time that is looked at lies within the calendar.
ASSUME ChoicesAssumption == Choices \subseteq Cadences /\ Choices # {} /\ MaxTime \in Moments

VARIABLES clock,
          schedule,  \* the BackupSchedule rows
          poll,      \* poll_due_schedules: what it read, and when
          backup,    \* each run: its job's stage, and its BackupRun row
          disk,      \* the backup volume: whose bytes a path holds, and whether all of them
          history    \* how often each due moment fired, polls never committed; edits
             \* and other rare events, and restarts, so far

backupVars == <<clock, schedule, poll, backup, disk, history>>

NewSchedule == [state |-> "new", enabled |-> FALSE, cadence |-> CHOOSE c \in Choices : TRUE,
                next |-> 0, keep |-> NoRule, age |-> NoRule]
NewRun == [stage |-> "none", owner |-> NoSchedule, made |-> NoSchedule, row |-> "none",
           finished |-> 0, rank |-> 0, doomed |-> {}, kept |-> NoRule]
Nothing == [by |-> {}, whole |-> FALSE]
Idle == [busy |-> FALSE, at |-> 0, seen |-> <<>>, rows |-> {}, fired |-> {}]

BackupInit ==
    /\ clock = 0
    /\ schedule = [s \in Schedules |-> NewSchedule]
    /\ poll = Idle
    /\ backup = [r \in Runs |-> NewRun]
    /\ disk = [p \in Runs |-> Nothing]
    /\ history = [fired |-> [s \in Schedules |-> [t \in 0..MaxTime |-> 0]], lost |-> 0,
                  edits |-> 0, restarts |-> 0]

Live(s) == schedule[s].state = "live"
To(r, stage) == backup' = [backup EXCEPT ![r].stage = stage]
Edited == history.edits < MaxEdits /\ history' = [history EXCEPT !.edits = @ + 1]

-----------------------------------------------------------------------------
CreateSchedule(s) ==
    /\ schedule[s].state = "new"
    /\ \E c \in Choices, k \in KeepRules, a \in AgeRules :
         schedule' = [schedule EXCEPT ![s] = [state |-> "live", enabled |-> TRUE, cadence |-> c,
                                             next |-> compute_next_run(c, clock), keep |-> k, age |-> a]]
    /\ UNCHANGED <<clock, poll, backup, disk, history>>

\* Only a change of the cadence moves next_run_at; enabling again does not.
UpdateSchedule(s) ==
    /\ Live(s) /\ Edited
    /\ \/ \E c \in Choices \ {schedule[s].cadence} :
            schedule' = [schedule EXCEPT ![s].cadence = c, ![s].next = compute_next_run(c, clock)]
       \/ schedule' = [schedule EXCEPT ![s].enabled = ~@]
       \/ \E k \in KeepRules, a \in AgeRules : schedule' = [schedule EXCEPT ![s].keep = k, ![s].age = a]
    /\ UNCHANGED <<clock, poll, backup, disk>>

\* ON DELETE SET NULL: its runs turn into ones nobody prunes.
DeleteSchedule(s) ==
    /\ Live(s) /\ Edited
    /\ schedule' = [schedule EXCEPT ![s].state = "deleted"]
    /\ backup' = [r \in Runs |-> IF backup[r].row # "none" /\ backup[r].owner = s
                                 THEN [backup[r] EXCEPT !.owner = NoSchedule] ELSE backup[r]]
    /\ UNCHANGED <<clock, poll, disk>>

Enqueue(r, s) ==
    /\ backup[r].stage = "none" /\ \A x \in 1..r - 1 : backup[x].stage # "none"
    /\ backup' = [backup EXCEPT ![r].stage = "queued", ![r].owner = s, ![r].made = s]

RunScheduleNow(s) ==
    /\ Live(s) /\ Edited
    /\ \E r \in Runs : Enqueue(r, s)
    /\ UNCHANGED <<clock, schedule, poll, disk>>

EnqueueArchive ==
    /\ Edited
    /\ \E r \in Runs : Enqueue(r, NoSchedule)
    /\ UNCHANGED <<clock, schedule, poll, disk>>

-----------------------------------------------------------------------------
IsDue(s) == Live(s) /\ schedule[s].enabled /\ schedule[s].next <= clock

PollDue ==
    /\ ~poll.busy
    /\ \E s \in Schedules : IsDue(s)
    /\ poll' = [busy |-> TRUE, at |-> clock, seen |-> schedule,
                rows |-> {s \in Schedules : IsDue(s)}, fired |-> {}]
    /\ UNCHANGED <<clock, schedule, backup, disk, history>>

\* A schedule whose job cannot be enqueued stays due; the others go on.
PollFires(s) ==
    /\ s \in poll.rows
    /\ \/ /\ \E r \in Runs : Enqueue(r, s)
          /\ poll' = [poll EXCEPT !.rows = @ \ {s}, !.fired = @ \union {s}]
          /\ history' = [history EXCEPT !.fired[s][poll.seen[s].next] = @ + 1]
       \/ /\ poll' = [poll EXCEPT !.rows = @ \ {s}]
          /\ Edited /\ UNCHANGED backup
    /\ UNCHANGED <<clock, schedule, disk>>

\* A fault: next_run_at is left for the job to move.
AdvancedNever(s) == poll.seen[s].next

\* next_run_at as this poll computes it: from the cadence it read.
Advanced(s) == compute_next_run(poll.seen[s].cadence, poll.at)

\* One commit for all of them.  It may be refused when a row was deleted
\* meanwhile: then none of them moves.
PollCommits ==
    /\ poll.busy /\ poll.rows = {}
    /\ poll' = Idle
    /\ \/ /\ schedule' = [s \in Schedules |->
                 IF s \in poll.fired /\ Live(s) THEN [schedule[s] EXCEPT !.next = Advanced(s)]
                 ELSE schedule[s]]
          /\ UNCHANGED history
       \/ /\ \E s \in poll.fired : ~Live(s)
          /\ history' = [history EXCEPT !.lost = @ + 1]
          /\ UNCHANGED schedule
    /\ UNCHANGED <<clock, backup, disk>>

-----------------------------------------------------------------------------
\* _new_run_id: its random part keeps runs of one second apart.
PathOf(r) == r

Compressed(r) == backup[r].made # NoSchedule

BeginRun(r) ==
    /\ backup[r].stage = "queued"
    /\ LET s == backup[r].owner
       IN  IF s = NoSchedule \/ Live(s)
           THEN backup' = [backup EXCEPT ![r].stage = "resolving", ![r].row = "running"]
           ELSE To(r, "failed")
    /\ UNCHANGED <<clock, schedule, poll, disk, history>>

\* A tar file is opened anew; a directory that is there is written into.
OpenArchive(r) ==
    /\ backup[r].stage = "resolving"
    /\ disk' = [disk EXCEPT ![PathOf(r)] =
                  [by |-> IF Compressed(r) THEN {r} ELSE @.by \union {r}, whole |-> FALSE]]
    /\ To(r, "writing")
    /\ UNCHANGED <<clock, schedule, poll, history>>

\* A fault: the archive is recorded without its manifest and its end.
FinishUnclosed(r) ==
    /\ backup[r].stage = "writing"
    /\ To(r, "written")
    /\ UNCHANGED <<clock, schedule, poll, disk, history>>

FinishArchive(r) ==
    /\ backup[r].stage = "writing"
    /\ disk' = [disk EXCEPT ![PathOf(r)].whole = TRUE]
    /\ To(r, "written")
    /\ UNCHANGED <<clock, schedule, poll, history>>

\* A full disk, Nexus away, a name that is refused: what was written stays.
FailRun(r) ==
    /\ backup[r].stage \in {"resolving", "writing"}
    /\ backup' = [backup EXCEPT ![r].stage = "failed", ![r].row = "failed"]
    /\ UNCHANGED <<clock, schedule, poll, disk, history>>

Succeeded == {x \in Runs : backup[x].row = "success"}
Newest == LET ranks == {backup[x].rank : x \in Runs} IN CHOOSE n \in ranks : \A m \in ranks : m <= n

RecordSuccess(r) ==
    /\ backup[r].stage = "written"
    /\ backup' = [backup EXCEPT ![r].stage = IF Compressed(r) THEN "recorded" ELSE "done",
                                ![r].row = "success", ![r].finished = clock, ![r].rank = Newest + 1]
    /\ UNCHANGED <<clock, schedule, poll, disk, history>>

\* The rows a prune of schedule s reads: its own successes.
OwnRuns(s) == {x \in Succeeded : backup[x].owner = s}

TooOld(s, rows) == IF schedule[s].age = NoRule THEN {}
                   ELSE {x \in rows : backup[x].finished + schedule[s].age * Slots < clock}

\* A fault: the slice begins one row too early.
SurplusOneMore(s, rows) ==
    IF schedule[s].keep = NoRule THEN {}
    ELSE {x \in rows : Cardinality({y \in rows : backup[y].rank > backup[x].rank}) + 1 >= schedule[s].keep}

\* rows[keep_last:] of the rows ordered newest first.
Surplus(s, rows) ==
    IF schedule[s].keep = NoRule THEN {}
    ELSE {x \in rows : Cardinality({y \in rows : backup[y].rank > backup[x].rank}) >= schedule[s].keep}

\* prune_old_archives reads the rule and the rows in one session.
PruneSelects(r) ==
    /\ backup[r].stage = "recorded"
    /\ LET s == backup[r].made
           rows == OwnRuns(s)
           doomed == TooOld(s, rows) \union Surplus(s, rows)
       IN  IF Live(s) /\ doomed # {}
           THEN backup' = [backup EXCEPT ![r].stage = "pruning", ![r].doomed = doomed,
                                         ![r].kept = schedule[s].keep]
           ELSE To(r, "done")
    /\ UNCHANGED <<clock, schedule, poll, disk, history>>

\* The files go one by one; one that resists is logged and left.
PruneDeletes(r) ==
    /\ backup[r].stage = "pruning"
    /\ \E x \in backup[r].doomed :
         /\ disk[PathOf(x)] # Nothing
         /\ disk' = [disk EXCEPT ![PathOf(x)] = Nothing]
    /\ UNCHANGED <<clock, schedule, poll, backup, history>>

\* The rows go in a commit after the last file.
PruneCommits(r) ==
    /\ backup[r].stage = "pruning"
    /\ \/ (\A x \in backup[r].doomed : disk[PathOf(x)] = Nothing) /\ UNCHANGED history
       \/ (\E x \in backup[r].doomed : disk[PathOf(x)] # Nothing) /\ Edited
    /\ backup' = [x \in Runs |->
                    [backup[x] EXCEPT !.stage = IF x = r THEN "done" ELSE @,
                                      !.row = IF x \in backup[r].doomed THEN "deleted" ELSE @]]
    /\ UNCHANGED <<clock, schedule, poll, disk>>

-----------------------------------------------------------------------------
Underway == {"resolving", "writing", "written", "recorded", "pruning"}
Stopped(r) == IF backup[r].stage \in Underway THEN [backup[r] EXCEPT !.stage = "gone"] ELSE backup[r]

\* CancelledError passes by the handler's except: the row stays as it is.
CancelRun(r) ==
    /\ backup[r].stage \in Underway /\ Edited
    /\ backup' = [backup EXCEPT ![r] = Stopped(r)]
    /\ UNCHANGED <<clock, schedule, poll, disk>>

\* The job queue is in Redis; what was running is not taken up again.
RestartBackups ==
    /\ history.restarts < MaxRestarts
    /\ backup' = [r \in Runs |-> Stopped(r)]
    /\ poll' = Idle
    /\ history' = [history EXCEPT !.restarts = @ + 1, !.lost = @ + IF poll.fired # {} THEN 1 ELSE 0]
    /\ UNCHANGED <<clock, schedule, disk>>

\* A prune selects within the slot its archive was recorded in.
Tick ==
    /\ clock < MaxTime
    /\ \A r \in Runs : backup[r].stage # "recorded"
    /\ clock' = clock + 1
    /\ UNCHANGED <<schedule, poll, backup, disk, history>>

BackupNext ==
    \/ \E s \in Schedules : \/ CreateSchedule(s) \/ UpdateSchedule(s) \/ DeleteSchedule(s)
                            \/ RunScheduleNow(s) \/ PollFires(s)
    \/ \E r \in Runs : \/ BeginRun(r) \/ OpenArchive(r) \/ FinishArchive(r) \/ FailRun(r)
                       \/ RecordSuccess(r) \/ PruneSelects(r) \/ PruneDeletes(r)
                       \/ PruneCommits(r) \/ CancelRun(r)
    \/ EnqueueArchive \/ PollDue \/ PollCommits \/ RestartBackups \/ Tick

-----------------------------------------------------------------------------
BackupsTyped ==
    /\ clock \in 0..MaxTime
    /\ \A s \in Schedules : /\ schedule[s].state \in {"new", "live", "deleted"}
                            /\ schedule[s].cadence \in Choices /\ schedule[s].next \in Nat
    /\ poll.rows \union poll.fired \subseteq Schedules
    /\ \A r \in Runs : /\ backup[r].stage \in Underway \union {"none", "queued", "done", "failed", "gone"}
                       /\ backup[r].row \in {"none", "running", "success", "failed", "deleted"}
    /\ \A p \in Runs : disk[p].by \subseteq Runs

(* A run recorded as a success can be downloaded: its path holds its own    *)
(* bytes, all of them and nobody else's, until a prune picked it for        *)
(* deletion, with any number of runs writing, failing and being pruned.     *)
SuccessHasItsArchive ==
    \A x \in Succeeded :
        \/ disk[PathOf(x)] = [by |-> {x}, whole |-> TRUE]
        \/ \E r \in Runs : x \in backup[r].doomed

(* Pruning removes an archive only when the schedule that made it has a     *)
(* newer complete one on the volume, and never a manual one, whatever       *)
(* cancels, restarts, edits of the rule and prunes of the same schedule     *)
(* come in between: no schedule loses its last good backup.  The exception  *)
(* is a rule that keeps none, which the API accepts: a run under it deletes *)
(* the archive it has just made.                                            *)
OnlySupersededArchivesGo ==
    [][\A x \in Runs :
          disk[PathOf(x)] # Nothing /\ disk'[PathOf(x)] = Nothing =>
              /\ backup[x].made # NoSchedule
              /\ \/ \E r \in Runs : backup[r].kept = 0
                 \/ \E y \in Succeeded : /\ backup[y].made = backup[x].made
                                         /\ backup[y].rank > backup[x].rank
                                         /\ disk[PathOf(y)].whole]_backupVars

(* A due moment fires a schedule once; a second time only for a poll that   *)
(* enqueued and then never committed (a restart, or a schedule deleted      *)
(* under it), however slow the tick or the job.                             *)
FiresOncePerCommit ==
    \A s \in Schedules, t \in 0..MaxTime : history.fired[s][t] <= 1 + history.lost
=============================================================================
