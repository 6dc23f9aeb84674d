------------------------------ MODULE JobQueue ------------------------------
(***************************************************************************)
(* The Redis-backed job framework of backend/app/core/jobs.py with the     *)
(* cancel endpoint of backend/app/routers/jobs.py and the start-up reaping *)
(* of backend/app/main.py.                                                 *)
(*                                                                         *)
(* Redis outlives the process: the job hashes (status, retryCount), the    *)
(* list jobs:queue and the list jobs:index.  Everything else is memory of  *)
(* the single worker process and is gone when that process stops.          *)
(*                                                                         *)
(* A runner task is described by the await it is suspended in.  The Redis  *)
(* command of that await takes effect in the step that leaves it, so the   *)
(* commands of other actors interleave exactly at the awaits.              *)
(***************************************************************************)
EXTENDS Naturals, Sequences, FiniteSets

CONSTANTS
    Jobs,        \* job ids that may ever be enqueued
    Clients,     \* concurrent callers of POST /jobs/{id}/cancel
    MaxRetries,  \* JobPolicy.max_retries of each job's type
    Handled,     \* the jobs whose type has a registered handler
    IndexMax,    \* _INDEX_MAX, the length jobs:index is trimmed to
    MaxStops,    \* bound: how often the process crashes or is shut down
    MaxFaults    \* bound: how many Redis commands raise

ASSUME JobsAssumption    == IsFiniteSet(Jobs)
ASSUME RetriesAssumption == MaxRetries \in [Jobs -> Nat]
ASSUME HandledAssumption == Handled \subseteq Jobs
ASSUME BoundsAssumption  == /\ IndexMax \in Nat \ {0}
                            /\ MaxStops \in Nat
                            /\ MaxFaults \in Nat

VARIABLES
    status,      \* job:{id}.status, "absent" before the job is enqueued
    retryCount,  \* job:{id}.retry_count
    queue,       \* jobs:queue, popped at the head
    index,       \* jobs:index, newest first
    phase,       \* the process: down, reaping, up, stopping
    toReap,      \* the ids reap_stranded still has to look at
    task,        \* the await the runner task of each job is suspended in
    seen,        \* job.retry_count as the runner task read it
    cancelling,  \* jobs whose task has a CancelledError on its way
    timers,      \* jobs a detached _requeue task will push back
    client,      \* where each cancel request is
    stops,       \* process ends so far
    faults,      \* Redis failures so far
    attempts     \* history: how often the handler of a job was entered

redis   == <<status, retryCount, queue, index>>
memory  == <<toReap, task, seen, cancelling, timers, client>>
vars    == <<redis, phase, memory, stops, faults, attempts>>

Terminal == {"done", "failed", "cancelled"}
Live     == {"pending", "running"}
Status   == Live \union Terminal \union {"absent"}
Phase    == {"down", "reaping", "up", "stopping"}

\* Awaits of _run_one: before the try block, inside it, in its handlers.
BeforeTry == {"get", "noHandler", "start", "started"}
InTry     == {"handler", "done", "result"}
InExcept  == {"retry", "retryEvent", "fail", "failEvent",
              "cancel", "cancelEvent"}
Await     == BeforeTry \union InTry \union InExcept

Idle == [pc |-> "idle"]
CancelRequest == {Idle} \union [pc : {"flip", "push"}, job : Jobs]

Elements(s) == {s[i] : i \in 1..Len(s)}
Distinct(s) == \A m, n \in 1..Len(s) : s[m] = s[n] => m = n

Queued    == Elements(queue)
Running   == {j \in Jobs : task[j] # "none"}
First(n, s) == SubSeq(s, 1, IF Len(s) < n THEN Len(s) ELSE n)

Init ==
    /\ status = [j \in Jobs |-> "absent"]
    /\ retryCount = [j \in Jobs |-> 0]
    /\ queue = <<>>
    /\ index = <<>>
    /\ phase = "up"
    /\ toReap = <<>>
    /\ task = [j \in Jobs |-> "none"]
    /\ seen = [j \in Jobs |-> 0]
    /\ cancelling = {}
    /\ timers = {}
    /\ client = [c \in Clients |-> Idle]
    /\ stops = 0
    /\ faults = 0
    /\ attempts = [j \in Jobs |-> 0]

-----------------------------------------------------------------------------
(* Producers.                                                              *)

\* JobQueue.enqueue: one MULTI/EXEC, so all four keys change together.
Enqueue(j) ==
    /\ phase = "up"
    /\ status[j] = "absent"
    /\ status' = [status EXCEPT ![j] = "pending"]
    /\ index' = First(IndexMax, <<j>> \o index)
    /\ queue' = Append(queue, j)
    /\ UNCHANGED <<retryCount, phase, memory, stops, faults, attempts>>

-----------------------------------------------------------------------------
(* The runner: _loop pops, _run_one is one task per popped entry.          *)

Pop ==
    /\ phase = "up"
    /\ queue # <<>>
    /\ queue' = Tail(queue)
    /\ task' = [task EXCEPT ![Head(queue)] = "get"]
    /\ UNCHANGED <<status, retryCount, index, phase, toReap, seen, cancelling,
                   timers, client, stops, faults, attempts>>

\* BLPOP raises after Redis executed it: the entry is gone, no task exists.
PopFault ==
    /\ phase = "up"
    /\ faults < MaxFaults
    /\ faults' = faults + 1
    /\ queue # <<>>
    /\ queue' = Tail(queue)
    /\ UNCHANGED <<status, retryCount, index, phase, memory, stops, attempts>>

\* The task of j resumes normally from one await and suspends in the next.
Move(j, from, to) ==
    /\ task[j] = from
    /\ j \notin cancelling
    /\ task' = [task EXCEPT ![j] = to]
    /\ UNCHANGED <<queue, index, phase, toReap, cancelling, client, stops,
                   faults>>

Put(j, s) == status' = [status EXCEPT ![j] = s]

\* Variant with a fault: no look at "cancelled" before the handler starts.
GetUnchecked(j) ==
    /\ Move(j, "get", IF j \in Handled THEN "start" ELSE "noHandler")
    /\ seen' = [seen EXCEPT ![j] = retryCount[j]]
    /\ UNCHANGED <<status, retryCount, timers, attempts>>

\* HGETALL, then the two early returns of _run_one.
Get(j) ==
    /\ Move(j, "get", IF status[j] = "cancelled" THEN "none"
                      ELSE IF j \in Handled THEN "start" ELSE "noHandler")
    /\ seen' = [seen EXCEPT ![j] = retryCount[j]]
    /\ UNCHANGED <<status, retryCount, timers, attempts>>

NoHandler(j) ==
    /\ Move(j, "noHandler", "none")
    /\ Put(j, "failed")
    /\ UNCHANGED <<retryCount, seen, timers, attempts>>

Start(j) ==
    /\ Move(j, "start", "started")
    /\ Put(j, "running")
    /\ UNCHANGED <<retryCount, seen, timers, attempts>>

\* The "started" event is out; the handler is entered.
EnterHandler(j) ==
    /\ Move(j, "started", "handler")
    /\ attempts' = [attempts EXCEPT ![j] = @ + 1]
    /\ UNCHANGED <<status, retryCount, seen, timers>>

\* A progress report writes "running" again, whatever the hash says by now.
Progress(j) ==
    /\ Move(j, "handler", "handler")
    /\ Put(j, "running")
    /\ UNCHANGED <<retryCount, seen, timers, attempts>>

HandlerReturns(j) ==
    /\ Move(j, "handler", "done")
    /\ UNCHANGED <<status, retryCount, seen, timers, attempts>>

\* Where the except clause goes: retry while the policy allows, else fail.
AfterFailure(j) == IF seen[j] < MaxRetries[j] THEN "retry" ELSE "fail"

\* The handler raised, or asyncio.timeout turned its expiry into TimeoutError.
HandlerFails(j) ==
    /\ Move(j, "handler", AfterFailure(j))
    /\ UNCHANGED <<status, retryCount, seen, timers, attempts>>

WriteDone(j) ==
    /\ Move(j, "done", "result")
    /\ Put(j, "done")
    /\ UNCHANGED <<retryCount, seen, timers, attempts>>

WriteRetry(j) ==
    /\ Move(j, "retry", "retryEvent")
    /\ Put(j, "pending")
    /\ retryCount' = [retryCount EXCEPT ![j] = seen[j] + 1]
    /\ UNCHANGED <<seen, timers, attempts>>

\* _schedule_retry: the task ends and a detached one sleeps the delay.
ScheduleRetry(j) ==
    /\ Move(j, "retryEvent", "none")
    /\ timers' = timers \union {j}
    /\ UNCHANGED <<status, retryCount, seen, attempts>>

WriteFailed(j) ==
    /\ Move(j, "fail", "failEvent")
    /\ Put(j, "failed")
    /\ UNCHANGED <<retryCount, seen, timers, attempts>>

WriteCancelled(j) ==
    /\ Move(j, "cancel", "cancelEvent")
    /\ Put(j, "cancelled")
    /\ UNCHANGED <<retryCount, seen, timers, attempts>>

\* The last push_event of a task: result, error, or cancelled.
LastEvent(j) ==
    /\ \/ Move(j, "result", "none")
       \/ Move(j, "failEvent", "none")
       \/ Move(j, "cancelEvent", "none")
    /\ UNCHANGED <<status, retryCount, seen, timers, attempts>>

\* Variant with a fault: the timer is not forgotten when it has fired.
RequeueKeepsTimer(j) ==
    /\ j \in timers
    /\ queue' = Append(queue, j)
    /\ UNCHANGED <<status, retryCount, index, phase, toReap, task, seen,
                   cancelling, timers, client, stops, faults, attempts>>

\* _requeue wakes up and pushes the job back.
Requeue(j) ==
    /\ j \in timers
    /\ timers' = timers \ {j}
    /\ queue' = Append(queue, j)
    /\ UNCHANGED <<status, retryCount, index, phase, toReap, task, seen,
                   cancelling, client, stops, faults, attempts>>

-----------------------------------------------------------------------------
(* An await that ends with an exception.  Its command was sent, so Redis   *)
(* may or may not have executed it.                                        *)

Writes == [start |-> "running", handler |-> "running", noHandler |-> "failed",
           done |-> "done", retry |-> "pending", fail |-> "failed",
           cancel |-> "cancelled"]

MaybeExecuted(j) ==
    \/ UNCHANGED <<status, retryCount>>
    \/ /\ task[j] \in DOMAIN Writes
       /\ Put(j, Writes[task[j]])
       /\ retryCount' = IF task[j] = "retry"
                        THEN [retryCount EXCEPT ![j] = seen[j] + 1]
                        ELSE retryCount

\* CancelledError reaches the task: only the try block has a clause for it.
DeliverCancel(j) ==
    /\ j \in cancelling
    /\ MaybeExecuted(j)
    /\ cancelling' = cancelling \ {j}
    /\ task' = [task EXCEPT ![j] = IF @ \in InTry THEN "cancel" ELSE "none"]
    /\ UNCHANGED <<queue, index, phase, toReap, seen, timers, client, stops,
                   faults, attempts>>

\* A Redis command of the task raises.
TaskFault(j) ==
    /\ faults < MaxFaults
    /\ faults' = faults + 1
    /\ j \in Running \ cancelling
    /\ task[j] # "handler"          \* inside the handler: HandlerFails
    /\ MaybeExecuted(j)
    /\ task' = [task EXCEPT ![j] = IF @ \in InTry THEN AfterFailure(j)
                                   ELSE "none"]
    /\ UNCHANGED <<queue, index, phase, toReap, seen, cancelling, timers,
                   client, stops, attempts>>

\* The push of a due retry raises: it is logged and the retry is lost.
RequeueFault(j) ==
    /\ faults < MaxFaults
    /\ faults' = faults + 1
    /\ j \in timers
    /\ timers' = timers \ {j}
    /\ UNCHANGED <<redis, phase, toReap, task, seen, cancelling, client,
                   stops, attempts>>

-----------------------------------------------------------------------------
(* POST /jobs/{id}/cancel: read, flip the status, push the event, then     *)
(* cancel the task if this process owns one.                               *)

RequestCancel(c, j) ==
    /\ phase = "up"
    /\ client[c] = Idle
    /\ status[j] \in Live           \* absent is 404, terminal returns early
    /\ client' = [client EXCEPT ![c] = [pc |-> "flip", job |-> j]]
    /\ UNCHANGED <<redis, phase, toReap, task, seen, cancelling, timers,
                   stops, faults, attempts>>

FlipStatus(c) ==
    /\ client[c].pc = "flip"
    /\ Put(client[c].job, "cancelled")
    /\ client' = [client EXCEPT ![c].pc = "push"]
    /\ UNCHANGED <<retryCount, queue, index, phase, toReap, task, seen,
                   cancelling, timers, stops, faults, attempts>>

\* request_cancel after the event is pushed.
SignalTask(c) ==
    /\ client[c].pc = "push"
    /\ cancelling' = cancelling \union ({client[c].job} \intersect Running)
    /\ client' = [client EXCEPT ![c] = Idle]
    /\ UNCHANGED <<redis, phase, toReap, task, seen, timers, stops, faults,
                   attempts>>

\* A Redis command of the request raises: the caller gets a 500.
ClientFault(c) ==
    /\ faults < MaxFaults
    /\ faults' = faults + 1
    /\ client[c] # Idle
    /\ \/ UNCHANGED status
       \/ client[c].pc = "flip" /\ Put(client[c].job, "cancelled")
    /\ client' = [client EXCEPT ![c] = Idle]
    /\ UNCHANGED <<retryCount, queue, index, phase, toReap, task, seen,
                   cancelling, timers, stops, attempts>>

-----------------------------------------------------------------------------
(* The process.                                                            *)

ClearMemory ==
    /\ toReap' = <<>>
    /\ task' = [j \in Jobs |-> "none"]
    /\ seen' = [j \in Jobs |-> 0]
    /\ cancelling' = {}
    /\ timers' = {}
    /\ client' = [c \in Clients |-> Idle]

Crash ==
    /\ phase # "down"
    /\ stops < MaxStops
    /\ stops' = stops + 1
    /\ phase' = "down"
    /\ ClearMemory
    /\ UNCHANGED <<redis, faults, attempts>>

\* End of the lifespan: the server has drained its requests, runner.stop()
\* ends the pop loop, and closing the event loop cancels what still runs.
Shutdown ==
    /\ phase = "up"
    /\ stops < MaxStops
    /\ stops' = stops + 1
    /\ phase' = "stopping"
    /\ cancelling' = Running
    /\ timers' = {}
    /\ client' = [c \in Clients |-> Idle]
    /\ UNCHANGED <<redis, toReap, task, seen, faults, attempts>>

Stopped ==
    /\ phase = "stopping"
    /\ Running = {}
    /\ phase' = "down"
    /\ UNCHANGED <<redis, memory, stops, faults, attempts>>

\* Variant with a fault: the last entry of the index is not looked at.
BootOffByOne ==
    /\ phase = "down"
    /\ phase' = "reaping"
    /\ toReap' = First(IndexMax - 1, index)
    /\ UNCHANGED <<redis, task, seen, cancelling, timers, client, stops,
                   faults, attempts>>

\* lifespan start-up: reap_stranded runs before the runner and the server.
Boot ==
    /\ phase = "down"
    /\ phase' = "reaping"
    /\ toReap' = First(IndexMax, index)
    /\ UNCHANGED <<redis, task, seen, cancelling, timers, client, stops,
                   faults, attempts>>

\* A fault: stranded jobs are pushed back instead of failed.
ReapRequeues ==
    /\ phase = "reaping"
    /\ toReap # <<>>
    /\ toReap' = Tail(toReap)
    /\ IF status[Head(toReap)] \in Live
       THEN /\ Put(Head(toReap), "pending")
            /\ queue' = Append(queue, Head(toReap))
       ELSE UNCHANGED <<status, queue>>
    /\ UNCHANGED <<retryCount, index, phase, task, seen, cancelling,
                   timers, client, stops, faults, attempts>>

Reap ==
    /\ phase = "reaping"
    /\ toReap # <<>>
    /\ toReap' = Tail(toReap)
    /\ IF status[Head(toReap)] \in Live
       THEN Put(Head(toReap), "failed")
       ELSE UNCHANGED status
    /\ UNCHANGED <<retryCount, queue, index, phase, task, seen, cancelling,
                   timers, client, stops, faults, attempts>>

\* A Redis error while reaping is logged and start-up goes on without it.
ReapFault ==
    /\ phase = "reaping"
    /\ faults < MaxFaults
    /\ faults' = faults + 1
    /\ toReap' = <<>>
    /\ UNCHANGED <<redis, phase, task, seen, cancelling, timers, client,
                   stops, attempts>>

RunnerStart ==
    /\ phase = "reaping"
    /\ toReap = <<>>
    /\ phase' = "up"
    /\ UNCHANGED <<redis, memory, stops, faults, attempts>>

-----------------------------------------------------------------------------
\* Steps the event loop takes by itself once they are due.
TaskStep(j) ==
    \/ Get(j) \/ NoHandler(j) \/ Start(j) \/ EnterHandler(j)
    \/ HandlerReturns(j) \/ HandlerFails(j)
    \/ WriteDone(j) \/ WriteRetry(j) \/ ScheduleRetry(j)
    \/ WriteFailed(j) \/ WriteCancelled(j) \/ LastEvent(j)
    \/ DeliverCancel(j)

ProcessStep == Stopped \/ Boot \/ Reap \/ RunnerStart

Next ==
    \/ \E j \in Jobs : \/ Enqueue(j) \/ TaskStep(j) \/ Progress(j)
                       \/ Requeue(j) \/ TaskFault(j) \/ RequeueFault(j)
    \/ \E c \in Clients : \/ \E j \in Jobs : RequestCancel(c, j)
                          \/ FlipStatus(c) \/ SignalTask(c) \/ ClientFault(c)
    \/ Pop \/ PopFault \/ Crash \/ Shutdown \/ ReapFault \/ ProcessStep

Spec == Init /\ [][Next]_vars

\* The event loop runs every task that can go on, timers fire, handlers end
\* (a policy may set a timeout; most rely on the handler), and the container
\* is restarted whenever it stops.  New work, cancel requests, progress
\* reports, failures and stops need not happen.
Fairness ==
    /\ \A j \in Jobs : WF_vars(TaskStep(j)) /\ WF_vars(Requeue(j))
    /\ \A c \in Clients : WF_vars(FlipStatus(c)) /\ WF_vars(SignalTask(c))
    /\ WF_vars(Pop) /\ WF_vars(ProcessStep)

FairSpec == Spec /\ Fairness

-----------------------------------------------------------------------------
(* Properties.                                                             *)

\* Every variable keeps its type, and jobs:index never outgrows its trim.
TypeOK ==
    /\ status \in [Jobs -> Status]
    /\ retryCount \in [Jobs -> Nat]
    /\ queue \in Seq(Jobs)
    /\ index \in Seq(Jobs) /\ Len(index) <= IndexMax
    /\ phase \in Phase
    /\ toReap \in Seq(Jobs)
    /\ task \in [Jobs -> Await \union {"none"}]
    /\ seen \in [Jobs -> Nat]
    /\ cancelling \subseteq Running
    /\ timers \subseteq Jobs
    /\ client \in [Clients -> CancelRequest]
    /\ stops \in 0..MaxStops
    /\ faults \in 0..MaxFaults
    /\ attempts \in [Jobs -> Nat]

\* Where the entry of a job can be: waiting in the queue, held by a runner
\* task, or held by a retry timer.
Carried(j) == j \in Queued \/ task[j] # "none" \/ j \in timers

\* A job is in at most one of those places and at most once, so its handler
\* never runs twice at the same time and JobRunner._running, keyed by job id,
\* never loses sight of a task.  A job never enqueued is in none.
SingleCarrier ==
    /\ Distinct(queue)
    /\ \A j \in Jobs :
        /\ j \in Queued => task[j] = "none" /\ j \notin timers
        /\ j \in timers => task[j] = "none"
        /\ status[j] = "absent" => ~Carried(j)

\* A handler is entered once plus once per recorded retry, and the retries
\* stay within the job's policy: across cancels, Redis failures, crashes,
\* shutdowns and reaping no work is repeated that did not opt in to it.
AttemptsBounded ==
    \A j \in Jobs : /\ attempts[j] <= 1 + retryCount[j]
                    /\ retryCount[j] <= MaxRetries[j]

\* The bookkeeping behind it: before the handler is entered every earlier
\* entry is paid for by a recorded retry, and from the read to the end of an
\* attempt the count the task read is the one in Redis.
Unentered(j) == \/ status[j] = "absent" \/ j \in Queued \/ j \in timers
                \/ task[j] \in BeforeTry \union {"retryEvent"}

Counted(j) ==
    /\ retryCount[j] <= MaxRetries[j]
    /\ attempts[j] <= retryCount[j] + (IF Unentered(j) THEN 0 ELSE 1)
    /\ task[j] \in Await \ {"get", "retryEvent"} => seen[j] = retryCount[j]
    /\ task[j] = "retry" => seen[j] < MaxRetries[j]

AttemptsCounted == \A j \in Jobs : Counted(j)

\* A job whose status says it is over, which nothing carries and no cancel
\* request is about to overwrite.
Settled(j) ==
    /\ status[j] \in Terminal
    /\ ~Carried(j)
    /\ \A c \in Clients : client[c] # [pc |-> "flip", job |-> j]

\* What is settled stays as it is: no restart, reaping, retry or late request
\* changes the outcome or runs the handler again.
SettledForever ==
    [][\A j \in Jobs :
        Settled(j) => Settled(j)' /\ UNCHANGED <<status[j], attempts[j]>>]_vars

\* A cancel that reaches Redis before the runner has read the job is honoured:
\* wherever the entry waits, the status stays "cancelled" and the handler is
\* not entered.
Honoured(j) == status[j] = "cancelled" /\ task[j] \in {"none", "get"}

CancelHonoured ==
    [][\A j \in Jobs : Honoured(j) => Honoured(j)' /\ UNCHANGED attempts[j]]_vars

\* What a client was told, that a job is over or cancelled, stays true.
OutcomesHold == SettledForever /\ CancelHonoured

\* While the process is up, a job that says it is pending or running is one
\* that the process will still do something about.
LiveIsCarried ==
    phase = "up" => \A j \in Jobs : status[j] \in Live => Carried(j)

\* A run without cancel requests and without Redis failures.
Undisturbed == [](faults = 0 /\ \A c \in Clients : client[c] = Idle)

\* What is left without them are crashes and shutdowns at any await: then no
\* job is stranded, and every job that was enqueued ends with a terminal status
\* that stays.
EveryJobSettles ==
    Undisturbed =>
        \A j \in Jobs : (status[j] # "absent") ~> [](status[j] \in Terminal)

\* What the framework does about the work itself implements JobAttempts: a
\* handler holds the job from its entry to the end of the task, or to the
\* moment the retry timer takes over.
Stage(j) ==
    IF status[j] = "absent" THEN "new"
    ELSE IF task[j] \in InTry \union InExcept THEN "running"
    ELSE IF Carried(j) THEN "waiting" ELSE "over"

Attempts == INSTANCE JobAttempts WITH stage <- [j \in Jobs |-> Stage(j)],
                                      runs <- attempts

AttemptsSpec == Attempts!Spec
=============================================================================
