--------------------------- MODULE JobQueue_proofs ---------------------------
(***************************************************************************)
(* Proofs about JobQueue, for every set of jobs and clients, every retry   *)
(* policy, and any number of process ends and Redis failures, and about    *)
(* the event streams of its jobs (JobEvents), for every bound of the list, *)
(* number of connections and events pushed.  The last part carries both    *)
(* over to MCProgress, in which queue and streams stand side by side.      *)
(***************************************************************************)
EXTENDS MCProgress, SequenceTheorems, TLAPS

-----------------------------------------------------------------------------
(* Sequences without repetitions.                                          *)

LEMMA FirstType ==
    ASSUME NEW S, NEW s \in Seq(S), NEW n \in Nat
    PROVE  First(n, s) \in Seq(S) /\ Len(First(n, s)) <= n
BY DEF First

LEMMA AppendElements ==
    ASSUME NEW S, NEW s \in Seq(S), NEW e \in S
    PROVE  /\ Append(s, e) \in Seq(S)
           /\ Elements(Append(s, e)) = Elements(s) \union {e}
           /\ Distinct(s) /\ e \notin Elements(s) => Distinct(Append(s, e))
BY DEF Elements, Distinct

LEMMA TailElements ==
    ASSUME NEW S, NEW s \in Seq(S), s # <<>>
    PROVE  /\ Head(s) \in S
           /\ Head(s) \in Elements(s)
           /\ Tail(s) \in Seq(S)
           /\ Elements(Tail(s)) \subseteq Elements(s)
           /\ Distinct(s) => /\ Distinct(Tail(s))
                             /\ Head(s) \notin Elements(Tail(s))
<1>1. Head(s) = s[1] /\ 1 \in 1..Len(s) /\ Tail(s) \in Seq(S) /\ Head(s) \in S
    OBVIOUS
<1>2. /\ Len(Tail(s)) = Len(s) - 1
      /\ \A i \in 1..Len(Tail(s)) : Tail(s)[i] = s[i + 1] /\ i + 1 \in 1..Len(s)
    OBVIOUS
<1>3. Elements(Tail(s)) \subseteq Elements(s)
    BY <1>2 DEF Elements
<1>4. ASSUME Distinct(s)
      PROVE  Distinct(Tail(s)) /\ Head(s) \notin Elements(Tail(s))
    <2>1. Distinct(Tail(s))
        BY <1>2, <1>4 DEF Distinct
    <2>2. \A i \in 1..Len(Tail(s)) : s[i + 1] # s[1]
        BY <1>1, <1>2, <1>4 DEF Distinct
    <2> QED  BY <1>1, <1>2, <2>1, <2>2 DEF Elements
<1> QED  BY <1>1, <1>3, <1>4 DEF Elements

LEMMA TailCovers ==
    ASSUME NEW S, NEW s \in Seq(S), s # <<>>
    PROVE  Elements(s) \subseteq Elements(Tail(s)) \union {Head(s)}
<1>1. ASSUME NEW i \in 1..Len(s), i # 1
      PROVE  i - 1 \in 1..Len(Tail(s)) /\ Tail(s)[i - 1] = s[i]
    BY <1>1
<1> QED  BY <1>1 DEF Elements

-----------------------------------------------------------------------------
(* Type correctness.                                                       *)

LEMMA MaybeExecutedType ==
    ASSUME TypeOK, NEW j \in Jobs, MaybeExecuted(j)
    PROVE  status' \in [Jobs -> Status] /\ retryCount' \in [Jobs -> Nat]
<1>1. CASE UNCHANGED <<status, retryCount>>
    BY <1>1 DEF TypeOK
<1>2. CASE /\ task[j] \in DOMAIN Writes
           /\ Put(j, Writes[task[j]])
           /\ retryCount' = IF task[j] = "retry"
                            THEN [retryCount EXCEPT ![j] = seen[j] + 1]
                            ELSE retryCount
    <2>1. Writes[task[j]] \in Status
        BY <1>2 DEF Writes, Status, Live, Terminal
    <2> QED  BY <1>2, <2>1 DEF TypeOK, Put
<1> QED  BY <1>1, <1>2 DEF MaybeExecuted

\* A cancel request that is under way names its job.
LEMMA RequestForm ==
    ASSUME NEW r \in CancelRequest, r # Idle
    PROVE  /\ r.job \in Jobs
           /\ [r EXCEPT !.pc = "push"] = [pc |-> "push", job |-> r.job]
           /\ [pc |-> "push", job |-> r.job] \in CancelRequest
<1>1. r \in [pc : {"flip", "push"}, job : Jobs]
    BY DEF CancelRequest
<1> QED  BY <1>1 DEF CancelRequest

LEMMA FlipStatusForm ==
    ASSUME TypeOK, NEW c \in Clients, FlipStatus(c)
    PROVE  /\ client[c].job \in Jobs
           /\ client' = [client EXCEPT
                            ![c] = [pc |-> "push", job |-> client[c].job]]
           /\ client' \in [Clients -> CancelRequest]
<1>1. client[c] \in CancelRequest /\ client[c] # Idle
    BY DEF TypeOK, FlipStatus, Idle
<1>2. client' = [client EXCEPT ![c] = [client[c] EXCEPT !.pc = "push"]]
    BY DEF FlipStatus
<1> QED  BY <1>1, <1>2, RequestForm DEF TypeOK

LEMMA ClientFaultForm ==
    ASSUME TypeOK, NEW c \in Clients, ClientFault(c)
    PROVE  client[c].job \in Jobs
<1>1. client[c] \in CancelRequest /\ client[c] # Idle
    BY DEF TypeOK, ClientFault
<1> QED  BY <1>1, RequestForm

\* The bounds of the model are not exceeded.
LEMMA FaultCounted ==
    ASSUME TypeOK, faults < MaxFaults, faults' = faults + 1
    PROVE  faults' \in 0..MaxFaults
BY BoundsAssumption DEF TypeOK

\* Every variable keeps its type: TypeOK is inductive by itself.
THEOREM TypeCorrect == Spec => []TypeOK
<1> USE JobsAssumption, RetriesAssumption, HandledAssumption, BoundsAssumption
<1>1. Init => TypeOK
    BY DEF Init, TypeOK, Running, CancelRequest, Idle, Status, Live, Terminal,
           Phase, Await, BeforeTry, InTry, InExcept
<1>2. TypeOK /\ [Next]_vars => TypeOK'
    <2> SUFFICES ASSUME TypeOK, [Next]_vars PROVE TypeOK'
        OBVIOUS
    <2>0. TypeOK
        OBVIOUS
    <2> USE DEF TypeOK, redis, memory, Running, Status, Live, Terminal, Phase,
                Await, BeforeTry, InTry, InExcept, CancelRequest, Idle
    <2>1. ASSUME NEW j \in Jobs, Enqueue(j) PROVE TypeOK'
        <3>1. <<j>> \o index \in Seq(Jobs) /\ IndexMax \in Nat
            OBVIOUS
        <3>2. index' \in Seq(Jobs) /\ Len(index') <= IndexMax
            BY <2>1, <3>1, FirstType DEF Enqueue
        <3> QED  BY <2>1, <3>2, AppendElements DEF Enqueue
    <2>2. ASSUME NEW j \in Jobs, Get(j) PROVE TypeOK'
        BY <2>2 DEF Get, Move
    <2>3. ASSUME NEW j \in Jobs, NoHandler(j) PROVE TypeOK'
        BY <2>3 DEF NoHandler, Move, Put
    <2>4. ASSUME NEW j \in Jobs, Start(j) PROVE TypeOK'
        BY <2>4 DEF Start, Move, Put
    <2>5. ASSUME NEW j \in Jobs, EnterHandler(j) PROVE TypeOK'
        <3>1. attempts' \in [Jobs -> Nat]
            BY <2>5 DEF EnterHandler
        <3> QED  BY <2>5, <3>1 DEF EnterHandler, Move
    <2>6. ASSUME NEW j \in Jobs, HandlerReturns(j) PROVE TypeOK'
        BY <2>6 DEF HandlerReturns, Move
    <2>7. ASSUME NEW j \in Jobs, HandlerFails(j) PROVE TypeOK'
        BY <2>7 DEF HandlerFails, Move, AfterFailure
    <2>8. ASSUME NEW j \in Jobs, WriteDone(j) PROVE TypeOK'
        BY <2>8 DEF WriteDone, Move, Put
    <2>9. ASSUME NEW j \in Jobs, WriteRetry(j) PROVE TypeOK'
        BY <2>9 DEF WriteRetry, Move, Put
    <2>10. ASSUME NEW j \in Jobs, ScheduleRetry(j) PROVE TypeOK'
        BY <2>10 DEF ScheduleRetry, Move
    <2>11. ASSUME NEW j \in Jobs, WriteFailed(j) PROVE TypeOK'
        BY <2>11 DEF WriteFailed, Move, Put
    <2>12. ASSUME NEW j \in Jobs, WriteCancelled(j) PROVE TypeOK'
        BY <2>12 DEF WriteCancelled, Move, Put
    <2>13. ASSUME NEW j \in Jobs, LastEvent(j) PROVE TypeOK'
        <3>1. PICK from \in {"result", "failEvent", "cancelEvent"} :
                  Move(j, from, "none")
            BY <2>13 DEF LastEvent
        <3> QED  BY <2>13, <3>1 DEF LastEvent, Move
    <2>14. ASSUME NEW j \in Jobs, DeliverCancel(j) PROVE TypeOK'
        BY <2>14, <2>0, MaybeExecutedType DEF DeliverCancel
    <2>15. ASSUME NEW j \in Jobs, Progress(j) PROVE TypeOK'
        BY <2>15 DEF Progress, Move, Put
    <2>16. ASSUME NEW j \in Jobs, Requeue(j) PROVE TypeOK'
        BY <2>16, AppendElements DEF Requeue
    <2>17. ASSUME NEW j \in Jobs, TaskFault(j) PROVE TypeOK'
        <3>1. faults' \in 0..MaxFaults
            BY <2>17, <2>0, FaultCounted DEF TaskFault
        <3>2. status' \in [Jobs -> Status] /\ retryCount' \in [Jobs -> Nat]
            BY <2>17, <2>0, MaybeExecutedType DEF TaskFault
        <3>3. /\ task' \in [Jobs -> Await \union {"none"}]
              /\ cancelling \subseteq Running'
            BY <2>17 DEF TaskFault, AfterFailure
        <3> QED  BY <2>17, <3>1, <3>2, <3>3 DEF TaskFault
    <2>18. ASSUME NEW j \in Jobs, RequeueFault(j) PROVE TypeOK'
        <3>1. faults' \in 0..MaxFaults
            BY <2>18, <2>0, FaultCounted DEF RequeueFault
        <3> QED  BY <2>18, <3>1 DEF RequeueFault
    <2>19. ASSUME NEW c \in Clients, NEW j \in Jobs, RequestCancel(c, j) PROVE TypeOK'
        BY <2>19 DEF RequestCancel
    <2>20. ASSUME NEW c \in Clients, FlipStatus(c) PROVE TypeOK'
        BY <2>20, <2>0, FlipStatusForm DEF FlipStatus, Put
    <2>21. ASSUME NEW c \in Clients, SignalTask(c) PROVE TypeOK'
        BY <2>21 DEF SignalTask
    <2>22. ASSUME NEW c \in Clients, ClientFault(c) PROVE TypeOK'
        <3>1. faults' \in 0..MaxFaults
            BY <2>22, <2>0, FaultCounted DEF ClientFault
        <3>2. status' \in [Jobs -> Status]
            BY <2>22, <2>0, ClientFaultForm DEF ClientFault, Put
        <3>3. client' \in [Clients -> CancelRequest]
            BY <2>22 DEF ClientFault
        <3> QED  BY <2>22, <3>1, <3>2, <3>3 DEF ClientFault
    <2>23. ASSUME Pop PROVE TypeOK'
        BY <2>23, TailElements DEF Pop
    <2>24. ASSUME PopFault PROVE TypeOK'
        BY <2>24, TailElements, <2>0, FaultCounted DEF PopFault
    <2>25. ASSUME Crash PROVE TypeOK'
        BY <2>25 DEF Crash, ClearMemory
    <2>26. ASSUME Shutdown PROVE TypeOK'
        BY <2>26 DEF Shutdown
    <2>27. ASSUME ReapFault PROVE TypeOK'
        <3>1. faults' \in 0..MaxFaults
            BY <2>27, <2>0, FaultCounted DEF ReapFault
        <3> QED  BY <2>27, <3>1 DEF ReapFault
    <2>28. ASSUME Stopped PROVE TypeOK'
        BY <2>28 DEF Stopped
    <2>29. ASSUME Boot PROVE TypeOK'
        BY <2>29, FirstType DEF Boot
    <2>30. ASSUME Reap PROVE TypeOK'
        BY <2>30, TailElements DEF Reap, Put
    <2>31. ASSUME RunnerStart PROVE TypeOK'
        BY <2>31 DEF RunnerStart
    <2>32. CASE UNCHANGED vars
        BY <2>32 DEF vars
    <2> QED
        BY <2>1, <2>2, <2>3, <2>4, <2>5, <2>6, <2>7, <2>8, <2>9, <2>10,
           <2>11, <2>12, <2>13, <2>14, <2>15, <2>16, <2>17, <2>18, <2>19,
           <2>20, <2>21, <2>22, <2>23, <2>24, <2>25, <2>26, <2>27, <2>28,
           <2>29, <2>30, <2>31, <2>32 DEF Next, TaskStep, ProcessStep
<1> QED  BY <1>1, <1>2, PTL DEF Spec

-----------------------------------------------------------------------------
(* One carrier per job.                                                    *)

\* Steps that put no entry anywhere: the queue and the timers stay, no task
\* appears and no hash disappears.
Quiet ==
    /\ UNCHANGED <<queue, timers>>
    /\ \A j \in Jobs : /\ task[j] = "none" => task'[j] = "none"
                       /\ status'[j] = "absent" => status[j] = "absent"

LEMMA QuietKeepsCarrier ==
    ASSUME SingleCarrier, Quiet
    PROVE  SingleCarrier'
BY DEF SingleCarrier, Quiet, Carried, Queued

\* A task that moves on creates no entry.
LEMMA MoveIsQuiet ==
    ASSUME TypeOK, NEW j \in Jobs, NEW from \in Await,
           NEW to \in Await \union {"none"}, Move(j, from, to), UNCHANGED timers,
           \/ UNCHANGED status
           \/ \E s \in Status \ {"absent"} : Put(j, s)
    PROVE  Quiet
<1>1. \A k \in Jobs : task[k] = "none" => task'[k] = "none"
    BY DEF Move, TypeOK, Await, BeforeTry, InTry, InExcept
<1>2. \A k \in Jobs : status'[k] = "absent" => status[k] = "absent"
    BY DEF Put, TypeOK
<1> QED  BY <1>1, <1>2 DEF Quiet, Move

LEMMA MaybeExecutedKeepsHash ==
    ASSUME TypeOK, NEW j \in Jobs, MaybeExecuted(j)
    PROVE  \A k \in Jobs : status'[k] = "absent" => status[k] = "absent"
<1>1. CASE UNCHANGED <<status, retryCount>>
    BY <1>1
<1>2. CASE task[j] \in DOMAIN Writes /\ Put(j, Writes[task[j]])
    <2>1. Writes[task[j]] # "absent"
        BY <1>2 DEF Writes
    <2> QED  BY <1>2, <2>1 DEF TypeOK, Put
<1> QED  BY <1>1, <1>2 DEF MaybeExecuted

\* The steps of runner tasks other than the hand-over to a retry timer.
LEMMA TaskStepIsQuiet ==
    ASSUME TypeOK, NEW j \in Jobs,
           \/ Get(j) \/ NoHandler(j) \/ Start(j) \/ EnterHandler(j) \/ Progress(j)
           \/ HandlerReturns(j) \/ HandlerFails(j) \/ WriteDone(j) \/ WriteRetry(j)
           \/ WriteFailed(j) \/ WriteCancelled(j) \/ LastEvent(j)
           \/ DeliverCancel(j) \/ TaskFault(j)
    PROVE  Quiet
<1> USE DEF Await, BeforeTry, InTry, InExcept, Status, Live, Terminal
<1>1. CASE Get(j)
    BY <1>1, MoveIsQuiet DEF Get
<1>2. CASE NoHandler(j)
    BY <1>2, MoveIsQuiet DEF NoHandler
<1>3. CASE Start(j)
    BY <1>3, MoveIsQuiet DEF Start
<1>4. CASE EnterHandler(j)
    BY <1>4, MoveIsQuiet DEF EnterHandler
<1>5. CASE HandlerReturns(j)
    BY <1>5, MoveIsQuiet DEF HandlerReturns
<1>6. CASE HandlerFails(j)
    BY <1>6, MoveIsQuiet DEF HandlerFails, AfterFailure
<1>7. CASE WriteDone(j)
    BY <1>7, MoveIsQuiet DEF WriteDone
<1>8. CASE WriteRetry(j)
    BY <1>8, MoveIsQuiet DEF WriteRetry
<1>9. CASE WriteFailed(j)
    BY <1>9, MoveIsQuiet DEF WriteFailed
<1>10. CASE WriteCancelled(j)
    BY <1>10, MoveIsQuiet DEF WriteCancelled
<1>11. CASE LastEvent(j)
    BY <1>11, MoveIsQuiet DEF LastEvent
<1>12. CASE DeliverCancel(j)
    <2>1. \A k \in Jobs : status'[k] = "absent" => status[k] = "absent"
        BY <1>12, MaybeExecutedKeepsHash DEF DeliverCancel
    <2>2. \A k \in Jobs : task[k] = "none" => task'[k] = "none"
        BY <1>12 DEF DeliverCancel, TypeOK, Running
    <2> QED  BY <1>12, <2>1, <2>2 DEF DeliverCancel, Quiet
<1>13. CASE Progress(j)
    BY <1>13, MoveIsQuiet DEF Progress
<1>14. CASE TaskFault(j)
    <2>1. \A k \in Jobs : status'[k] = "absent" => status[k] = "absent"
        BY <1>14, MaybeExecutedKeepsHash DEF TaskFault
    <2>2. \A k \in Jobs : task[k] = "none" => task'[k] = "none"
        BY <1>14 DEF TaskFault, AfterFailure, Running, TypeOK
    <2> QED  BY <1>14, <2>1, <2>2 DEF TaskFault, Quiet
<1> QED
    BY <1>1, <1>2, <1>3, <1>4, <1>5, <1>6, <1>7, <1>8, <1>9, <1>10, <1>11,
       <1>12, <1>13, <1>14

\* The steps of cancel requests and of the start-up.
LEMMA OtherStepIsQuiet ==
    ASSUME TypeOK,
           \/ \E c \in Clients : \/ \E j \in Jobs : RequestCancel(c, j)
                                 \/ FlipStatus(c) \/ SignalTask(c) \/ ClientFault(c)
           \/ ReapFault \/ ProcessStep \/ UNCHANGED vars
    PROVE  Quiet
<1> USE DEF redis, memory
<1>1. ASSUME NEW c \in Clients, NEW j \in Jobs, RequestCancel(c, j) PROVE Quiet
    BY <1>1 DEF RequestCancel, Quiet
<1>2. ASSUME NEW c \in Clients, FlipStatus(c) PROVE Quiet
    BY <1>2, FlipStatusForm DEF FlipStatus, Put, Quiet, TypeOK
<1>3. ASSUME NEW c \in Clients, SignalTask(c) PROVE Quiet
    BY <1>3 DEF SignalTask, Quiet
<1>4. ASSUME NEW c \in Clients, ClientFault(c) PROVE Quiet
    <2>1. \A k \in Jobs : status'[k] = "absent" => status[k] = "absent"
        BY <1>4, ClientFaultForm DEF ClientFault, Put, TypeOK
    <2> QED  BY <1>4, <2>1 DEF ClientFault, Quiet
<1>5. CASE ReapFault
    BY <1>5 DEF ReapFault, Quiet
<1>6. CASE Stopped \/ Boot \/ RunnerStart
    BY <1>6 DEF Stopped, Boot, RunnerStart, Quiet
<1>7. CASE Reap
    <2>1. Head(toReap) \in Jobs
        BY <1>7, TailElements DEF Reap, TypeOK
    <2> QED  BY <1>7, <2>1 DEF Reap, Put, Quiet, TypeOK
<1>8. CASE UNCHANGED vars
    BY <1>8 DEF vars, Quiet
<1> QED  BY <1>1, <1>2, <1>3, <1>4, <1>5, <1>6, <1>7, <1>8 DEF ProcessStep

\* SingleCarrier: no second entry of a job ever comes to exist.
LEMMA CarrierStep ==
    ASSUME TypeOK, SingleCarrier, [Next]_vars
    PROVE  SingleCarrier'
<1> USE DEF redis, memory
<1>1. ASSUME NEW j \in Jobs, Enqueue(j) PROVE SingleCarrier'
    <2>1. j \notin Queued /\ task[j] = "none" /\ j \notin timers
        BY <1>1 DEF Enqueue, SingleCarrier, Carried
    <2>2. Distinct(queue') /\ Queued' = Queued \union {j}
        BY <1>1, <2>1, AppendElements DEF Enqueue, SingleCarrier, Queued, TypeOK
    <2> QED  BY <1>1, <2>1, <2>2 DEF Enqueue, SingleCarrier, Carried, TypeOK
<1>2. ASSUME NEW j \in Jobs, ScheduleRetry(j) PROVE SingleCarrier'
    <2>1. task[j] = "retryEvent" /\ task' = [task EXCEPT ![j] = "none"]
        BY <1>2 DEF ScheduleRetry, Move
    <2>2. j \notin Queued /\ j \notin timers /\ status[j] # "absent"
        BY <2>1 DEF SingleCarrier, Carried
    <2>3. /\ UNCHANGED <<status, queue, Queued>>
          /\ timers' = timers \union {j}
        BY <1>2 DEF ScheduleRetry, Move, Queued
    <2> QED  BY <2>1, <2>2, <2>3 DEF SingleCarrier, Carried, TypeOK
<1>3. ASSUME NEW j \in Jobs, Requeue(j) PROVE SingleCarrier'
    <2>1. j \notin Queued /\ task[j] = "none" /\ status[j] # "absent"
        BY <1>3 DEF Requeue, SingleCarrier, Carried
    <2>2. Distinct(queue') /\ Queued' = Queued \union {j}
        BY <1>3, <2>1, AppendElements DEF Requeue, SingleCarrier, Queued, TypeOK
    <2>3. timers' = timers \ {j} /\ UNCHANGED <<task, status>>
        BY <1>3 DEF Requeue
    <2> QED  BY <2>1, <2>2, <2>3 DEF SingleCarrier, Carried
<1>4. ASSUME NEW j \in Jobs, RequeueFault(j) PROVE SingleCarrier'
    BY <1>4 DEF RequeueFault, SingleCarrier, Carried, Queued
<1>5. CASE Pop
    <2> DEFINE j == Head(queue)
    <2>1. /\ j \in Jobs /\ j \in Queued /\ j \notin Queued'
          /\ Queued' \subseteq Queued /\ Distinct(queue')
        BY <1>5, TailElements DEF Pop, Queued, SingleCarrier, TypeOK
    <2>2. j \notin timers /\ status[j] # "absent"
        BY <2>1 DEF SingleCarrier, Carried
    <2>3. task' = [task EXCEPT ![j] = "get"] /\ UNCHANGED <<timers, status>>
        BY <1>5 DEF Pop
    <2> HIDE DEF j
    <2> QED  BY <2>1, <2>2, <2>3 DEF SingleCarrier, Carried, TypeOK
<1>6. CASE PopFault
    <2>1. Queued' \subseteq Queued /\ Distinct(queue')
        BY <1>6, TailElements DEF PopFault, Queued, SingleCarrier, TypeOK
    <2> QED  BY <1>6, <2>1 DEF PopFault, SingleCarrier, Carried
<1>7. CASE Crash
    BY <1>7 DEF Crash, ClearMemory, SingleCarrier, Carried, Queued
<1>8. CASE Shutdown
    BY <1>8 DEF Shutdown, SingleCarrier, Carried, Queued
<1> QED
    BY <1>1, <1>2, <1>3, <1>4, <1>5, <1>6, <1>7, <1>8, QuietKeepsCarrier,
       TaskStepIsQuiet, OtherStepIsQuiet
    DEF Next, TaskStep

\* Each job has at most one carrier at any time: whatever the interleaving of
\* runner, timers, cancels, failures and restarts, its handler never runs
\* twice at once.
THEOREM SingleCarrierCorrect == Spec => []SingleCarrier
<1>1. Init => SingleCarrier
    BY DEF Init, SingleCarrier, Carried, Queued, Elements, Distinct
<1>2. TypeOK /\ SingleCarrier /\ [Next]_vars => SingleCarrier'
    BY CarrierStep
<1> QED  BY <1>1, <1>2, TypeCorrect, PTL DEF Spec

-----------------------------------------------------------------------------
(* The number of attempts.                                                 *)

\* A job whose counters and task stay, and that is not made to wait, stays
\* counted.
LEMMA OthersKeepCount ==
    ASSUME TypeOK, NEW k \in Jobs, Counted(k),
           UNCHANGED <<retryCount[k], attempts[k], seen[k], task[k]>>,
           Unentered(k)' => Unentered(k)
    PROVE  Counted(k)'
BY RetriesAssumption DEF Counted, TypeOK

\* The steps after which a job is where it was, as far as waiting goes, and
\* that write no counter.
LEMMA WaitingStays ==
    ASSUME TypeOK, NEW k \in Jobs, UNCHANGED <<queue, timers, task[k]>>,
           status'[k] = "absent" => status[k] = "absent"
    PROVE  Unentered(k)' => Unentered(k)
BY DEF Unentered, Queued

\* A task moves on: only its own job is concerned.
LEMMA MoveCounts ==
    ASSUME TypeOK, AttemptsCounted, Quiet, NEW j \in Jobs,
           \A k \in Jobs \ {j} :
               UNCHANGED <<retryCount[k], attempts[k], seen[k], task[k]>>,
           Counted(j)'
    PROVE  AttemptsCounted'
<1>1. ASSUME NEW k \in Jobs, k # j PROVE Counted(k)'
    BY <1>1, OthersKeepCount, WaitingStays DEF AttemptsCounted, Quiet
<1> QED  BY <1>1 DEF AttemptsCounted

\* A job with a task has no entry elsewhere, so only the task's await decides
\* whether its current attempt has begun.
LEMMA TaskDecides ==
    ASSUME TypeOK, SingleCarrier, NEW j \in Jobs, task[j] # "none"
    PROVE  /\ j \notin Queued /\ j \notin timers /\ status[j] # "absent"
           /\ Unentered(j) <=> task[j] \in BeforeTry \union {"retryEvent"}
BY DEF SingleCarrier, Carried, Unentered

LEMMA CountedTaskStep ==
    ASSUME TypeOK, SingleCarrier, AttemptsCounted, NEW j \in Jobs,
           \/ Get(j) \/ NoHandler(j) \/ Start(j) \/ EnterHandler(j) \/ Progress(j)
           \/ HandlerReturns(j) \/ HandlerFails(j) \/ WriteDone(j) \/ WriteRetry(j)
           \/ WriteFailed(j) \/ WriteCancelled(j) \/ LastEvent(j)
           \/ DeliverCancel(j) \/ TaskFault(j)
    PROVE  AttemptsCounted'
<1> USE RetriesAssumption
    DEF Await, BeforeTry, InTry, InExcept, redis, memory
<1>1. Quiet /\ UNCHANGED <<queue, timers>>
    BY TaskStepIsQuiet DEF Quiet
<1>2. /\ task[j] # "none" /\ Counted(j)
      /\ \A k \in Jobs \ {j} :
            UNCHANGED <<retryCount[k], attempts[k], seen[k], task[k]>>
    <2>1. CASE Get(j)
        BY <2>1 DEF Get, Move, TypeOK, AttemptsCounted
    <2>2. CASE NoHandler(j)
        BY <2>2 DEF NoHandler, Move, TypeOK, AttemptsCounted
    <2>3. CASE Start(j)
        BY <2>3 DEF Start, Move, TypeOK, AttemptsCounted
    <2>4. CASE EnterHandler(j)
        BY <2>4 DEF EnterHandler, Move, TypeOK, AttemptsCounted
    <2>5. CASE Progress(j)
        BY <2>5 DEF Progress, Move, TypeOK, AttemptsCounted
    <2>6. CASE HandlerReturns(j)
        BY <2>6 DEF HandlerReturns, Move, TypeOK, AttemptsCounted
    <2>7. CASE HandlerFails(j)
        BY <2>7 DEF HandlerFails, Move, TypeOK, AttemptsCounted
    <2>8. CASE WriteDone(j)
        BY <2>8 DEF WriteDone, Move, TypeOK, AttemptsCounted
    <2>9. CASE WriteRetry(j)
        BY <2>9 DEF WriteRetry, Move, TypeOK, AttemptsCounted
    <2>10. CASE WriteFailed(j)
        BY <2>10 DEF WriteFailed, Move, TypeOK, AttemptsCounted
    <2>11. CASE WriteCancelled(j)
        BY <2>11 DEF WriteCancelled, Move, TypeOK, AttemptsCounted
    <2>12. CASE LastEvent(j)
        BY <2>12 DEF LastEvent, Move, TypeOK, AttemptsCounted
    <2>13. CASE DeliverCancel(j)
        BY <2>13 DEF DeliverCancel, MaybeExecuted, Running, TypeOK, AttemptsCounted
    <2>14. CASE TaskFault(j)
        BY <2>14 DEF TaskFault, MaybeExecuted, Running, TypeOK, AttemptsCounted
    <2> QED
        BY <2>1, <2>2, <2>3, <2>4, <2>5, <2>6, <2>7, <2>8, <2>9, <2>10,
           <2>11, <2>12, <2>13, <2>14
<1>3. /\ j \notin Queued' /\ j \notin timers' /\ status'[j] # "absent"
      /\ Unentered(j) <=> task[j] \in BeforeTry \union {"retryEvent"}
      /\ Unentered(j)' <=> task'[j] \in BeforeTry \union {"retryEvent"}
    BY <1>1, <1>2, TaskDecides DEF Quiet, Queued, Unentered
<1>4. Counted(j)'
    <2>1. CASE Get(j)
        BY <2>1, <1>2, <1>3 DEF Get, Move, Counted, TypeOK
    <2>2. CASE NoHandler(j)
        BY <2>2, <1>2, <1>3 DEF NoHandler, Move, Counted, TypeOK
    <2>3. CASE Start(j)
        BY <2>3, <1>2, <1>3 DEF Start, Move, Counted, TypeOK
    <2>4. CASE EnterHandler(j)
        BY <2>4, <1>2, <1>3 DEF EnterHandler, Move, Counted, TypeOK
    <2>5. CASE Progress(j)
        BY <2>5, <1>2, <1>3 DEF Progress, Move, Counted, TypeOK
    <2>6. CASE HandlerReturns(j)
        BY <2>6, <1>2, <1>3 DEF HandlerReturns, Move, Counted, TypeOK
    <2>7. CASE HandlerFails(j)
        BY <2>7, <1>2, <1>3 DEF HandlerFails, Move, AfterFailure, Counted, TypeOK
    <2>8. CASE WriteDone(j)
        BY <2>8, <1>2, <1>3 DEF WriteDone, Move, Counted, TypeOK
    <2>9. CASE WriteRetry(j)
        BY <2>9, <1>2, <1>3 DEF WriteRetry, Move, Counted, TypeOK
    <2>10. CASE WriteFailed(j)
        BY <2>10, <1>2, <1>3 DEF WriteFailed, Move, Counted, TypeOK
    <2>11. CASE WriteCancelled(j)
        BY <2>11, <1>2, <1>3 DEF WriteCancelled, Move, Counted, TypeOK
    <2>12. CASE LastEvent(j)
        BY <2>12, <1>2, <1>3 DEF LastEvent, Move, Counted, TypeOK
    <2>13. CASE DeliverCancel(j)
        BY <2>13, <1>2, <1>3 DEF DeliverCancel, MaybeExecuted, Running, Counted, TypeOK
    <2>14. CASE TaskFault(j)
        BY <2>14, <1>2, <1>3 DEF TaskFault, MaybeExecuted, Running, AfterFailure, Counted, TypeOK
    <2> QED
        BY <2>1, <2>2, <2>3, <2>4, <2>5, <2>6, <2>7, <2>8, <2>9, <2>10,
           <2>11, <2>12, <2>13, <2>14
<1> QED  BY <1>1, <1>2, <1>4, MoveCounts

\* The steps that put an entry somewhere or drop it.
LEMMA CountedStep ==
    ASSUME TypeOK, SingleCarrier, AttemptsCounted, [Next]_vars
    PROVE  AttemptsCounted'
<1> USE RetriesAssumption
    DEF Await, BeforeTry, InTry, InExcept, redis, memory
<1>1. ASSUME NEW j \in Jobs, Enqueue(j) PROVE AttemptsCounted'
    <2>1. Queued' = Queued \union {j}
        BY <1>1, AppendElements DEF Enqueue, Queued, TypeOK
    <2>2. Unentered(j) /\ \A k \in Jobs : Unentered(k)' => Unentered(k)
        BY <1>1, <2>1 DEF Enqueue, Unentered, TypeOK
    <2> QED  BY <1>1, <2>2, OthersKeepCount DEF Enqueue, AttemptsCounted
<1>2. ASSUME NEW j \in Jobs, ScheduleRetry(j) PROVE AttemptsCounted'
    <2>1. /\ task[j] = "retryEvent" /\ task' = [task EXCEPT ![j] = "none"]
          /\ timers' = timers \union {j}
          /\ UNCHANGED <<status, queue, retryCount, seen, attempts>>
        BY <1>2 DEF ScheduleRetry, Move
    <2>2. Unentered(j) /\ \A k \in Jobs : Unentered(k)' => Unentered(k)
        BY <2>1 DEF Unentered, Queued, TypeOK
    <2>3. Counted(j)'
        BY <2>1, <2>2 DEF Counted, AttemptsCounted, TypeOK
    <2>4. ASSUME NEW k \in Jobs, k # j PROVE Counted(k)'
        BY <2>1, <2>2, <2>4, OthersKeepCount DEF AttemptsCounted, TypeOK
    <2> QED  BY <2>3, <2>4 DEF AttemptsCounted
<1>3. ASSUME NEW j \in Jobs, Requeue(j) PROVE AttemptsCounted'
    <2>1. Queued' = Queued \union {j}
        BY <1>3, AppendElements DEF Requeue, Queued, TypeOK
    <2>2. \A k \in Jobs : Unentered(k)' => Unentered(k)
        BY <1>3, <2>1 DEF Requeue, Unentered
    <2> QED  BY <1>3, <2>2, OthersKeepCount DEF Requeue, AttemptsCounted
<1>4. ASSUME NEW j \in Jobs, RequeueFault(j) PROVE AttemptsCounted'
    <2>1. \A k \in Jobs : Unentered(k)' => Unentered(k)
        BY <1>4 DEF RequeueFault, Unentered, Queued
    <2> QED  BY <1>4, <2>1, OthersKeepCount DEF RequeueFault, AttemptsCounted
<1>5. CASE Pop
    <2>1. PICK j \in Jobs : /\ j = Head(queue)
                            /\ j \in Queued /\ Queued' \subseteq Queued
        BY <1>5, TailElements DEF Pop, Queued, TypeOK
    <2>2. /\ task' = [task EXCEPT ![j] = "get"]
          /\ UNCHANGED <<status, timers, retryCount, seen, attempts>>
        BY <1>5, <2>1 DEF Pop
    <2>3. Unentered(j) /\ \A k \in Jobs : Unentered(k)' => Unentered(k)
        BY <2>1, <2>2 DEF Unentered, TypeOK
    <2>4. Counted(j)'
        <3>1. task'[j] = "get" /\ Unentered(j)'
            BY <2>1, <2>2 DEF Unentered, TypeOK
        <3> QED  BY <2>1, <2>2, <2>3, <3>1 DEF Counted, AttemptsCounted
    <2>5. ASSUME NEW k \in Jobs, k # j PROVE Counted(k)'
        <3>1. UNCHANGED <<retryCount[k], attempts[k], seen[k], task[k]>>
            BY <2>2, <2>5 DEF TypeOK
        <3> QED  BY <2>3, <3>1, OthersKeepCount DEF AttemptsCounted
    <2> QED  BY <2>4, <2>5 DEF AttemptsCounted
<1>6. CASE PopFault
    <2>1. Queued' \subseteq Queued
        BY <1>6, TailElements DEF PopFault, Queued, TypeOK
    <2>2. \A k \in Jobs : Unentered(k)' => Unentered(k)
        BY <1>6, <2>1 DEF PopFault, Unentered
    <2> QED  BY <1>6, <2>2, OthersKeepCount DEF PopFault, AttemptsCounted
<1>7. CASE Crash
    <2>1. \A k \in Jobs : Unentered(k)' => Unentered(k)
        BY <1>7 DEF Crash, ClearMemory, Unentered, Queued
    <2> QED
        BY <1>7, <2>1 DEF Crash, ClearMemory, Counted, AttemptsCounted, TypeOK
<1>8. CASE Shutdown
    <2>1. \A k \in Jobs : Unentered(k)' => Unentered(k)
        BY <1>8 DEF Shutdown, Unentered, Queued
    <2> QED  BY <1>8, <2>1, OthersKeepCount DEF Shutdown, AttemptsCounted
<1>9. ASSUME \/ \E c \in Clients : \/ \E j \in Jobs : RequestCancel(c, j)
                                   \/ FlipStatus(c) \/ SignalTask(c) \/ ClientFault(c)
             \/ ReapFault \/ ProcessStep \/ UNCHANGED vars
      PROVE  AttemptsCounted'
    <2>1. Quiet
        BY <1>9, OtherStepIsQuiet
    <2>2. UNCHANGED <<retryCount, attempts>>
        BY <1>9 DEF RequestCancel, FlipStatus, SignalTask, ClientFault, ReapFault,
                    ProcessStep, Stopped, Boot, Reap, RunnerStart, vars
    <2>3. UNCHANGED <<seen, task>>
        BY <1>9 DEF RequestCancel, FlipStatus, SignalTask, ClientFault, ReapFault,
                    ProcessStep, Stopped, Boot, Reap, RunnerStart, vars
    <2> QED
        BY <2>1, <2>2, <2>3, OthersKeepCount, WaitingStays DEF Quiet, AttemptsCounted
<1>10. ASSUME NEW j \in Jobs, TaskStep(j) \/ Progress(j) \/ TaskFault(j)
       PROVE  AttemptsCounted'
    <2>1. CASE ScheduleRetry(j)
        BY <1>2, <2>1
    <2>2. CASE ~ScheduleRetry(j)
        BY <1>10, <2>2, CountedTaskStep DEF TaskStep
    <2> QED  BY <2>1, <2>2
<1>11. CASE \E j \in Jobs : \/ Enqueue(j) \/ TaskStep(j) \/ Progress(j)
                            \/ Requeue(j) \/ TaskFault(j) \/ RequeueFault(j)
    BY <1>1, <1>3, <1>4, <1>10, <1>11
<1>12. CASE \E c \in Clients : \/ \E j \in Jobs : RequestCancel(c, j)
                              \/ FlipStatus(c) \/ SignalTask(c) \/ ClientFault(c)
    BY <1>9, <1>12
<1>13. CASE ReapFault \/ ProcessStep \/ UNCHANGED vars
    BY <1>9, <1>13
<1> QED
    BY <1>5, <1>6, <1>7, <1>8, <1>11, <1>12, <1>13 DEF Next

THEOREM AttemptsCountedCorrect == Spec => []AttemptsCounted
<1>1. Init => AttemptsCounted
    BY RetriesAssumption DEF Init, AttemptsCounted, Counted, Await, BeforeTry,
       InTry, InExcept
<1>2. TypeOK /\ SingleCarrier /\ AttemptsCounted /\ [Next]_vars => AttemptsCounted'
    BY CountedStep
<1> QED  BY <1>1, <1>2, TypeCorrect, SingleCarrierCorrect, PTL DEF Spec

\* A handler is entered at most once more than the job's policy has retries,
\* whatever crashes, shutdowns, cancels and Redis failures come between: a
\* job type without retries never has its work repeated.
THEOREM AttemptsBoundedCorrect == Spec => []AttemptsBounded
<1>1. TypeOK /\ AttemptsCounted => AttemptsBounded
    <2>1. ASSUME NEW j \in Jobs, NEW slack \in {0, 1}, TypeOK,
                 attempts[j] <= retryCount[j] + slack
          PROVE  attempts[j] <= 1 + retryCount[j]
        BY <2>1 DEF TypeOK
    <2> QED  BY <2>1 DEF AttemptsCounted, Counted, AttemptsBounded
<1> QED  BY <1>1, TypeCorrect, AttemptsCountedCorrect, PTL

-----------------------------------------------------------------------------
(* JobQueue implements JobAttempts.                                        *)

\* A cancel request is only ever about a job that was enqueued.
RequestsExist ==
    \A c \in Clients : client[c] # Idle => status[client[c].job] # "absent"

\* No step takes the hash of a job away.
HashesStay == \A k \in Jobs : status'[k] = "absent" => status[k] = "absent"

LEMMA StepKeepsHashes ==
    ASSUME TypeOK, [Next]_vars
    PROVE  HashesStay
<1> USE DEF redis, memory
<1>1. ASSUME NEW j \in Jobs, Enqueue(j) PROVE HashesStay
    BY <1>1 DEF Enqueue, HashesStay, TypeOK
<1>2. ASSUME NEW j \in Jobs, ScheduleRetry(j) \/ Requeue(j) \/ RequeueFault(j)
      PROVE  HashesStay
    BY <1>2 DEF ScheduleRetry, Requeue, RequeueFault, HashesStay
<1>3. CASE Pop \/ PopFault \/ Crash \/ Shutdown
    BY <1>3 DEF Pop, PopFault, Crash, Shutdown, HashesStay
<1>4. ASSUME Quiet PROVE HashesStay
    BY <1>4 DEF Quiet, HashesStay
<1> QED
    BY <1>1, <1>2, <1>3, <1>4, TaskStepIsQuiet, OtherStepIsQuiet DEF Next, TaskStep

LEMMA RequestsExistStep ==
    ASSUME TypeOK, RequestsExist, [Next]_vars
    PROVE  RequestsExist'
<1> USE DEF redis, memory
<1>0. HashesStay
    BY StepKeepsHashes
<1>1. ASSUME UNCHANGED client PROVE RequestsExist'
    <2>1. ASSUME NEW c \in Clients, client[c] # Idle
          PROVE  client[c].job \in Jobs
        BY <2>1, RequestForm DEF TypeOK
    <2> QED  BY <1>0, <1>1, <2>1 DEF RequestsExist, HashesStay
<1>2. ASSUME NEW c \in Clients, UNCHANGED status,
             client' = [client EXCEPT ![c] = Idle]
      PROVE  RequestsExist'
    BY <1>2 DEF RequestsExist, TypeOK
<1>3. ASSUME NEW c \in Clients, NEW j \in Jobs, RequestCancel(c, j)
      PROVE  RequestsExist'
    BY <1>3 DEF RequestCancel, RequestsExist, TypeOK, Live
<1>4. ASSUME NEW c \in Clients, FlipStatus(c) PROVE RequestsExist'
    <2>1. ASSUME NEW d \in Clients, client[d] # Idle
          PROVE  client[d].job \in Jobs
        BY <2>1, RequestForm DEF TypeOK
    <2>2. client[c] # Idle
        BY <1>4 DEF FlipStatus, Idle
    <2>3. client' = [client EXCEPT ![c] = [pc |-> "push", job |-> client[c].job]]
        BY <1>4, FlipStatusForm
    <2> QED  BY <1>0, <2>1, <2>2, <2>3 DEF RequestsExist, HashesStay, TypeOK
<1>5. ASSUME NEW c \in Clients, ClientFault(c) PROVE RequestsExist'
    <2>1. ASSUME NEW d \in Clients, client[d] # Idle
          PROVE  client[d].job \in Jobs
        BY <2>1, RequestForm DEF TypeOK
    <2> QED
        BY <1>0, <1>5, <2>1 DEF ClientFault, RequestsExist, HashesStay, TypeOK
<1>6. ASSUME NEW c \in Clients, SignalTask(c) PROVE RequestsExist'
    BY <1>2, <1>6 DEF SignalTask
<1>7. ASSUME client' = [c \in Clients |-> Idle] PROVE RequestsExist'
    BY <1>7 DEF RequestsExist
<1>8. CASE Crash \/ Shutdown
    BY <1>7, <1>8 DEF Crash, Shutdown, ClearMemory
<1>9. CASE Pop \/ PopFault \/ ReapFault \/ ProcessStep \/ UNCHANGED vars
    BY <1>1, <1>9 DEF Pop, PopFault, ReapFault, ProcessStep, Stopped, Boot, Reap,
                      RunnerStart, vars
<1>10. ASSUME NEW j \in Jobs,
              \/ Enqueue(j) \/ TaskStep(j) \/ Progress(j) \/ Requeue(j)
              \/ TaskFault(j) \/ RequeueFault(j)
       PROVE  UNCHANGED client
    BY <1>10 DEF Enqueue, TaskStep, Progress, Requeue, TaskFault, RequeueFault,
       Get, NoHandler, Start, EnterHandler, HandlerReturns, HandlerFails,
       WriteDone, WriteRetry, ScheduleRetry, WriteFailed, WriteCancelled,
       LastEvent, DeliverCancel, Move
<1> QED
    BY <1>1, <1>3, <1>4, <1>5, <1>6, <1>8, <1>9, <1>10 DEF Next

THEOREM RequestsExistCorrect == Spec => []RequestsExist
<1>1. Init => RequestsExist
    BY DEF Init, RequestsExist
<1>2. TypeOK /\ RequestsExist /\ [Next]_vars => RequestsExist'
    BY RequestsExistStep
<1> QED  BY <1>1, <1>2, TypeCorrect, PTL DEF Spec

\* Everything but an enqueue, an entry and a retry is, seen from JobAttempts,
\* the end of some jobs or of none.
Ends == \A k \in Jobs : \/ Stage(k)' = Stage(k)
                        \/ /\ Stage(k)' = "over"
                           /\ Stage(k) \in {"waiting", "running"}

LEMMA EndsIsFinish ==
    ASSUME Ends, UNCHANGED attempts
    PROVE  Attempts!Next
<1> DEFINE S == {k \in Jobs : Stage(k)' # Stage(k)}
<1>1. /\ S \in SUBSET Jobs
      /\ \A k \in S : Stage(k) \in {"waiting", "running"}
      /\ \A k \in Jobs : Stage(k)' = IF k \in S THEN "over" ELSE Stage(k)
    BY DEF Ends
<1> HIDE DEF S
<1>2. Attempts!Finish(S)
    BY <1>1 DEF Attempts!Finish
<1> QED  BY <1>1, <1>2 DEF Attempts!Next

\* A job that keeps its hash, its task and its place keeps its stage.
LEMMA SameStage ==
    ASSUME TypeOK, NEW k \in Jobs, UNCHANGED <<queue, timers, task[k]>>,
           status'[k] = "absent" <=> status[k] = "absent"
    PROVE  Stage(k)' = Stage(k)
BY DEF Stage, Carried, Queued

LEMMA TaskStepEnds ==
    ASSUME TypeOK, SingleCarrier, NEW j \in Jobs,
           \/ Get(j) \/ NoHandler(j) \/ Start(j) \/ Progress(j)
           \/ HandlerReturns(j) \/ HandlerFails(j) \/ WriteDone(j) \/ WriteRetry(j)
           \/ WriteFailed(j) \/ WriteCancelled(j) \/ LastEvent(j)
           \/ DeliverCancel(j) \/ TaskFault(j)
    PROVE  Attempts!Next
<1> USE DEF Await, BeforeTry, InTry, InExcept, redis, memory
<1>1. Quiet /\ UNCHANGED <<queue, timers>>
    BY TaskStepIsQuiet DEF Quiet
<1>2. /\ task[j] # "none"
      /\ \A k \in Jobs \ {j} : UNCHANGED <<status[k], task[k]>>
      /\ UNCHANGED attempts
      /\ \/ task'[j] = "none"
         \/ task[j] \in BeforeTry /\ task'[j] \in BeforeTry
         \/ task[j] \in InTry \union InExcept /\ task'[j] \in InTry \union InExcept
    <2>1. CASE Get(j)
        BY <2>1 DEF Get, Move, TypeOK
    <2>2. CASE NoHandler(j)
        BY <2>2 DEF NoHandler, Move, Put, TypeOK
    <2>3. CASE Start(j)
        BY <2>3 DEF Start, Move, Put, TypeOK
    <2>4. CASE Progress(j)
        BY <2>4 DEF Progress, Move, Put, TypeOK
    <2>5. CASE HandlerReturns(j)
        BY <2>5 DEF HandlerReturns, Move, TypeOK
    <2>6. CASE HandlerFails(j)
        BY <2>6 DEF HandlerFails, Move, AfterFailure, TypeOK
    <2>7. CASE WriteDone(j)
        BY <2>7 DEF WriteDone, Move, Put, TypeOK
    <2>8. CASE WriteRetry(j)
        BY <2>8 DEF WriteRetry, Move, Put, TypeOK
    <2>9. CASE WriteFailed(j)
        BY <2>9 DEF WriteFailed, Move, Put, TypeOK
    <2>10. CASE WriteCancelled(j)
        BY <2>10 DEF WriteCancelled, Move, Put, TypeOK
    <2>11. CASE LastEvent(j)
        BY <2>11 DEF LastEvent, Move, TypeOK
    <2>12. CASE DeliverCancel(j)
        BY <2>12 DEF DeliverCancel, MaybeExecuted, Running, Put, TypeOK
    <2>13. CASE TaskFault(j)
        BY <2>13 DEF TaskFault, MaybeExecuted, Running, Put, AfterFailure, TypeOK
    <2> QED
        BY <2>1, <2>2, <2>3, <2>4, <2>5, <2>6, <2>7, <2>8, <2>9, <2>10,
           <2>11, <2>12, <2>13
<1>3. \A k \in Jobs \ {j} : Stage(k)' = Stage(k)
    BY <1>1, <1>2, SameStage
<1>4. j \notin Queued' /\ j \notin timers' /\ status'[j] # "absent"
    BY <1>1, <1>2, TaskDecides DEF Quiet, Queued
<1>5. status[j] # "absent"
    BY <1>2, TaskDecides
<1>6. Stage(j)' = Stage(j)
      \/ (Stage(j)' = "over" /\ Stage(j) \in {"waiting", "running"})
    BY <1>2, <1>4, <1>5 DEF Stage, Carried
<1> QED  BY <1>2, <1>3, <1>6, EndsIsFinish DEF Ends

LEMMA OtherStepEnds ==
    ASSUME TypeOK, SingleCarrier, RequestsExist,
           \/ \E c \in Clients : \/ \E j \in Jobs : RequestCancel(c, j)
                                 \/ FlipStatus(c) \/ SignalTask(c) \/ ClientFault(c)
           \/ ReapFault \/ ProcessStep \/ UNCHANGED vars
    PROVE  Attempts!Next
<1> USE DEF redis, memory
<1>1. UNCHANGED <<queue, timers>> /\ HashesStay
    BY OtherStepIsQuiet DEF Quiet, HashesStay
<1>2. UNCHANGED <<task, attempts>>
    BY DEF RequestCancel, FlipStatus, SignalTask, ClientFault, ReapFault,
           ProcessStep, Stopped, Boot, Reap, RunnerStart, vars
<1>3. \A k \in Jobs : status[k] = "absent" => status'[k] = "absent"
    <2>1. CASE UNCHANGED status
        BY <2>1
    <2>2. ASSUME NEW c \in Clients, FlipStatus(c) \/ ClientFault(c)
          PROVE  \A k \in Jobs : status[k] = "absent" => status'[k] = "absent"
        <3>1. client[c] # Idle
            BY <2>2 DEF FlipStatus, ClientFault, Idle
        <3> QED  BY <2>2, <3>1 DEF FlipStatus, ClientFault, Put, RequestsExist, TypeOK
    <2>3. CASE Reap
        <3>1. Head(toReap) \in Jobs
            BY <2>3, TailElements DEF Reap, TypeOK
        <3> QED  BY <2>3, <3>1 DEF Reap, Put, Live, TypeOK
    <2> QED
        BY <2>1, <2>2, <2>3 DEF RequestCancel, SignalTask, ReapFault, ProcessStep,
           Stopped, Boot, RunnerStart, vars
<1>4. Ends
    BY <1>1, <1>2, <1>3, SameStage DEF Ends, HashesStay
<1> QED  BY <1>2, <1>4, EndsIsFinish

LEMMA ImplementationStep ==
    ASSUME TypeOK, SingleCarrier, AttemptsCounted, RequestsExist, [Next]_vars
    PROVE  Attempts!Next
<1> USE DEF redis, memory
<1>1. ASSUME NEW j \in Jobs, Enqueue(j) PROVE Attempts!Next
    <2>1. Queued' = Queued \union {j}
        BY <1>1, AppendElements DEF Enqueue, Queued, TypeOK
    <2>2. status[j] = "absent" /\ task[j] = "none"
        BY <1>1 DEF Enqueue, SingleCarrier, Carried
    <2>3. /\ Stage(j) = "new" /\ Stage(j)' = "waiting"
          /\ \A k \in Jobs \ {j} : Stage(k)' = Stage(k)
        BY <1>1, <2>1, <2>2 DEF Enqueue, Stage, Carried, TypeOK, InTry, InExcept
    <2>4. Attempts!Submit(j)
        BY <1>1, <2>3 DEF Enqueue, Attempts!Submit, Attempts!Go
    <2> QED  BY <2>4 DEF Attempts!Next
<1>2. ASSUME NEW j \in Jobs, EnterHandler(j) PROVE Attempts!Next
    <2>1. /\ task[j] = "started" /\ task' = [task EXCEPT ![j] = "handler"]
          /\ UNCHANGED <<status, queue, timers>>
          /\ attempts' = [attempts EXCEPT ![j] = @ + 1]
        BY <1>2 DEF EnterHandler, Move
    <2>2. /\ Stage(j) = "waiting" /\ Stage(j)' = "running"
          /\ \A k \in Jobs \ {j} : Stage(k)' = Stage(k)
        BY <2>1 DEF Stage, Carried, Queued, SingleCarrier, TypeOK, InTry, InExcept
    <2>3. Attempts!Begin(j)
        BY <2>1, <2>2 DEF Attempts!Begin, Attempts!Go
    <2> QED  BY <2>3 DEF Attempts!Next
<1>3. ASSUME NEW j \in Jobs, ScheduleRetry(j) PROVE Attempts!Next
    <2>1. /\ task[j] = "retryEvent" /\ task' = [task EXCEPT ![j] = "none"]
          /\ timers' = timers \union {j}
          /\ UNCHANGED <<status, queue, attempts>>
        BY <1>3 DEF ScheduleRetry, Move
    <2>2. /\ Stage(j) = "running" /\ Stage(j)' = "waiting"
          /\ \A k \in Jobs \ {j} : Stage(k)' = Stage(k)
        BY <2>1 DEF Stage, Carried, Queued, SingleCarrier, TypeOK, InTry, InExcept
    <2>3. attempts[j] <= MaxRetries[j]
        <3>1. Counted(j) /\ Unentered(j)
            BY <2>1 DEF AttemptsCounted, Unentered
        <3> QED  BY <3>1, RetriesAssumption DEF Counted, TypeOK
    <2>4. Attempts!Again(j)
        BY <2>1, <2>2, <2>3 DEF Attempts!Again, Attempts!Go
    <2> QED  BY <2>4 DEF Attempts!Next
<1>4. ASSUME NEW j \in Jobs, Requeue(j) PROVE Attempts!Next
    <2>1. Queued' = Queued \union {j}
        BY <1>4, AppendElements DEF Requeue, Queued, TypeOK
    <2>2. \A k \in Jobs : Stage(k)' = Stage(k)
        BY <1>4, <2>1 DEF Requeue, Stage, Carried
    <2> QED  BY <1>4, <2>2, EndsIsFinish DEF Requeue, Ends
<1>5. ASSUME NEW j \in Jobs, RequeueFault(j) PROVE Attempts!Next
    <2>1. Ends
        BY <1>5 DEF RequeueFault, Ends, Stage, Carried, Queued
    <2> QED  BY <1>5, <2>1, EndsIsFinish DEF RequeueFault
<1>6. CASE Pop
    <2>1. PICK j \in Jobs : /\ j = Head(queue) /\ j \in Queued
                            /\ Queued' \subseteq Queued
                            /\ Queued \subseteq Queued' \union {j}
        BY <1>6, TailElements, TailCovers DEF Pop, Queued, TypeOK
    <2>2. task' = [task EXCEPT ![j] = "get"] /\ UNCHANGED <<status, timers, attempts>>
        BY <1>6, <2>1 DEF Pop
    <2>3. task[j] = "none"
        BY <2>1 DEF SingleCarrier
    <2>4. \A k \in Jobs : Stage(k)' = Stage(k)
        BY <2>1, <2>2, <2>3 DEF Stage, Carried, TypeOK, InTry, InExcept
    <2> QED  BY <2>2, <2>4, EndsIsFinish DEF Ends
<1>7. CASE PopFault
    <2>1. Queued' \subseteq Queued
        BY <1>7, TailElements DEF PopFault, Queued, TypeOK
    <2>2. Ends
        BY <1>7, <2>1 DEF PopFault, Ends, Stage, Carried
    <2> QED  BY <1>7, <2>2, EndsIsFinish DEF PopFault
<1>8. CASE Crash
    <2>1. \A k \in Jobs : task'[k] = "none" /\ k \notin timers'
        BY <1>8 DEF Crash, ClearMemory
    <2>2. Ends
        BY <1>8, <2>1 DEF Crash, Ends, Stage, Carried, Queued, SingleCarrier,
                          InTry, InExcept
    <2> QED  BY <1>8, <2>2, EndsIsFinish DEF Crash
<1>9. CASE Shutdown
    <2>1. Ends
        BY <1>9 DEF Shutdown, Ends, Stage, Carried, Queued
    <2> QED  BY <1>9, <2>1, EndsIsFinish DEF Shutdown
<1>10. ASSUME NEW j \in Jobs, TaskStep(j) \/ Progress(j) \/ TaskFault(j)
       PROVE  Attempts!Next
    <2>1. CASE ScheduleRetry(j) \/ EnterHandler(j)
        BY <1>2, <1>3, <2>1
    <2>2. CASE ~(ScheduleRetry(j) \/ EnterHandler(j))
        BY <1>10, <2>2, TaskStepEnds DEF TaskStep
    <2> QED  BY <2>1, <2>2
<1>11. CASE \E j \in Jobs : \/ Enqueue(j) \/ TaskStep(j) \/ Progress(j)
                            \/ Requeue(j) \/ TaskFault(j) \/ RequeueFault(j)
    BY <1>1, <1>4, <1>5, <1>10, <1>11
<1>12. CASE \/ \E c \in Clients : \/ \E j \in Jobs : RequestCancel(c, j)
                                 \/ FlipStatus(c) \/ SignalTask(c) \/ ClientFault(c)
            \/ ReapFault \/ ProcessStep \/ UNCHANGED vars
    BY <1>12, OtherStepEnds
<1> QED
    BY <1>6, <1>7, <1>8, <1>9, <1>11, <1>12 DEF Next

\* Whatever the Redis hash of a job says, the work itself follows JobAttempts:
\* the runner, the retry timers, the cancels, the failures and the restarts
\* let a job wait, run, run again within its policy, and be over for good.
THEOREM ImplementsJobAttempts == Spec => AttemptsSpec
<1>1. Init => Attempts!Init
    BY DEF Init, Attempts!Init, Stage
<1>2. TypeOK /\ SingleCarrier /\ AttemptsCounted /\ RequestsExist /\ [Next]_vars
      => [Attempts!Next]_Attempts!vars
    BY ImplementationStep
<1> QED
    BY <1>1, <1>2, TypeCorrect, SingleCarrierCorrect, AttemptsCountedCorrect,
       RequestsExistCorrect, PTL
    DEF Spec, AttemptsSpec, Attempts!Spec

-----------------------------------------------------------------------------
(* Outcomes are final.                                                     *)

\* What the task of a job does, it does to its own job.
LEMMA TaskTouchesItsJob ==
    ASSUME TypeOK, NEW j \in Jobs, TaskStep(j) \/ Progress(j) \/ TaskFault(j)
    PROVE  /\ task[j] # "none"
           /\ UNCHANGED <<queue, client>>
           /\ timers' \subseteq timers \union {j}
           /\ \A k \in Jobs \ {j} : UNCHANGED <<status[k], task[k], attempts[k]>>
<1> USE DEF TypeOK, Await, BeforeTry, InTry, InExcept, redis, memory
<1>1. CASE Get(j) \/ HandlerReturns(j) \/ HandlerFails(j) \/ EnterHandler(j)
    BY <1>1 DEF Get, HandlerReturns, HandlerFails, EnterHandler, Move, AfterFailure
<1>2. CASE NoHandler(j) \/ Start(j) \/ Progress(j) \/ WriteDone(j)
    BY <1>2 DEF NoHandler, Start, Progress, WriteDone, Move, Put
<1>3. CASE WriteRetry(j) \/ WriteFailed(j) \/ WriteCancelled(j)
    BY <1>3 DEF WriteRetry, WriteFailed, WriteCancelled, Move, Put
<1>4. CASE ScheduleRetry(j) \/ LastEvent(j)
    BY <1>4 DEF ScheduleRetry, LastEvent, Move
<1>5. CASE DeliverCancel(j)
    BY <1>5 DEF DeliverCancel, MaybeExecuted, Running, Put
<1>6. CASE TaskFault(j)
    BY <1>6 DEF TaskFault, MaybeExecuted, Running, Put
<1> QED  BY <1>1, <1>2, <1>3, <1>4, <1>5, <1>6 DEF TaskStep

\* A task that has not read its job yet writes nothing and runs nothing.
LEMMA UnreadTaskIsHarmless ==
    ASSUME TypeOK, NEW j \in Jobs, TaskStep(j) \/ Progress(j) \/ TaskFault(j),
           task[j] = "get", status[j] = "cancelled"
    PROVE  UNCHANGED <<status, attempts>> /\ task'[j] = "none"
<1> USE DEF TypeOK, Await, BeforeTry, InTry, InExcept, redis, memory
<1>1. Get(j) \/ DeliverCancel(j) \/ TaskFault(j)
    BY DEF TaskStep, Progress, NoHandler, Start, EnterHandler, HandlerReturns,
       HandlerFails, WriteDone, WriteRetry, ScheduleRetry, WriteFailed,
       WriteCancelled, LastEvent, Move
<1>2. CASE Get(j)
    BY <1>2 DEF Get, Move
<1>3. CASE DeliverCancel(j) \/ TaskFault(j)
    <2>1. MaybeExecuted(j) => UNCHANGED status
        BY DEF MaybeExecuted, Writes
    <2> QED  BY <1>3, <2>1 DEF DeliverCancel, TaskFault
<1> QED  BY <1>1, <1>2, <1>3

\* The requests and the reaping change the status of a job that is over only
\* to "cancelled", and only if a request was about to; no step of theirs
\* touches a task, the queue, a timer or a history.
LEMMA OthersRespectOutcomes ==
    ASSUME TypeOK, NEW k \in Jobs, status[k] \in Terminal,
           \/ \E c \in Clients : \/ \E j \in Jobs : RequestCancel(c, j)
                                 \/ FlipStatus(c) \/ SignalTask(c) \/ ClientFault(c)
           \/ ReapFault \/ ProcessStep \/ UNCHANGED vars
    PROVE  /\ UNCHANGED <<queue, timers, task, attempts>>
           /\ \/ UNCHANGED status[k]
              \/ /\ status'[k] = "cancelled"
                 /\ \E c \in Clients : client[c] = [pc |-> "flip", job |-> k]
           /\ \A c \in Clients :
                client'[c] = [pc |-> "flip", job |-> k] => client[c] = client'[c]
<1> USE DEF redis, memory, Terminal, Live
<1>1. ASSUME NEW c \in Clients, NEW j \in Jobs, RequestCancel(c, j)
      PROVE  /\ UNCHANGED <<queue, timers, task, attempts, status>>
             /\ \A d \in Clients :
                  client'[d] = [pc |-> "flip", job |-> k] => client[d] = client'[d]
    BY <1>1 DEF RequestCancel, TypeOK
<1>2. ASSUME NEW c \in Clients, FlipStatus(c) \/ ClientFault(c)
      PROVE  /\ UNCHANGED <<queue, timers, task, attempts>>
             /\ \/ UNCHANGED status[k]
                \/ /\ status'[k] = "cancelled"
                   /\ client[c] = [pc |-> "flip", job |-> k]
             /\ \A d \in Clients :
                  client'[d] = [pc |-> "flip", job |-> k] => client[d] = client'[d]
    <2>1. client[c] \in [pc : {"flip", "push"}, job : Jobs]
        BY <1>2 DEF FlipStatus, ClientFault, TypeOK, CancelRequest, Idle
    <2>2. CASE FlipStatus(c)
        <3>1. client'[c].pc = "push" /\ client' = [client EXCEPT ![c] = client'[c]]
            BY <2>1, <2>2 DEF FlipStatus, TypeOK
        <3> QED  BY <2>1, <2>2, <3>1 DEF FlipStatus, Put, TypeOK
    <2>3. CASE ClientFault(c)
        BY <2>1, <2>3 DEF ClientFault, Put, TypeOK, Idle
    <2> QED  BY <1>2, <2>2, <2>3
<1>3. ASSUME NEW c \in Clients, SignalTask(c)
      PROVE  /\ UNCHANGED <<queue, timers, task, attempts, status>>
             /\ \A d \in Clients :
                  client'[d] = [pc |-> "flip", job |-> k] => client[d] = client'[d]
    BY <1>3 DEF SignalTask, TypeOK, Idle
<1>4. CASE ReapFault \/ ProcessStep \/ UNCHANGED vars
    <2>1. UNCHANGED <<queue, timers, task, attempts, client>>
        BY <1>4 DEF ReapFault, ProcessStep, Stopped, Boot, Reap, RunnerStart, vars
    <2>2. UNCHANGED status[k]
        BY <1>4 DEF ReapFault, ProcessStep, Stopped, Boot, Reap, RunnerStart, vars,
                    Put, TypeOK
    <2> QED  BY <2>1, <2>2
<1> QED  BY <1>1, <1>2, <1>3, <1>4

LEMMA SettledStep ==
    ASSUME TypeOK, [Next]_vars, NEW k \in Jobs, Settled(k)
    PROVE  Settled(k)' /\ UNCHANGED <<status[k], attempts[k]>>
<1> USE DEF redis, memory
<1>1. /\ status[k] \in Terminal /\ k \notin Queued /\ task[k] = "none" /\ k \notin timers
      /\ \A c \in Clients : client[c] # [pc |-> "flip", job |-> k]
    BY DEF Settled, Carried
<1>2. ASSUME UNCHANGED <<status[k], task[k], attempts[k]>>, k \notin Queued',
             k \notin timers',
             \A c \in Clients : client'[c] # [pc |-> "flip", job |-> k]
      PROVE  Settled(k)' /\ UNCHANGED <<status[k], attempts[k]>>
    BY <1>1, <1>2 DEF Settled, Carried
<1>3. ASSUME NEW j \in Jobs, Enqueue(j) PROVE Settled(k)' /\ UNCHANGED <<status[k], attempts[k]>>
    <2>1. j # k /\ Queued' = Queued \union {j}
        BY <1>1, <1>3, AppendElements DEF Enqueue, Queued, TypeOK, Terminal
    <2> QED  BY <1>1, <1>2, <1>3, <2>1 DEF Enqueue, TypeOK
<1>4. ASSUME NEW j \in Jobs, TaskStep(j) \/ Progress(j) \/ TaskFault(j)
      PROVE  Settled(k)' /\ UNCHANGED <<status[k], attempts[k]>>
    BY <1>1, <1>2, <1>4, TaskTouchesItsJob DEF Queued
<1>5. ASSUME NEW j \in Jobs, Requeue(j) \/ RequeueFault(j)
      PROVE  Settled(k)' /\ UNCHANGED <<status[k], attempts[k]>>
    <2>1. j # k /\ UNCHANGED <<status, task, attempts, client>> /\ timers' \subseteq timers
        BY <1>1, <1>5 DEF Requeue, RequeueFault
    <2>2. CASE Requeue(j)
        <3>1. Queued' = Queued \union {j}
            BY <2>2, AppendElements DEF Requeue, Queued, TypeOK
        <3> QED  BY <1>1, <1>2, <2>1, <3>1
    <2>3. CASE RequeueFault(j)
        BY <1>1, <1>2, <2>1, <2>3 DEF RequeueFault, Queued
    <2> QED  BY <1>5, <2>2, <2>3
<1>6. CASE Pop \/ PopFault
    <2>1. queue \in Seq(Jobs) /\ queue # <<>> /\ queue' = Tail(queue)
        BY <1>6 DEF Pop, PopFault, TypeOK
    <2>2. Head(queue) \in Queued /\ Queued' \subseteq Queued
        BY <2>1, TailElements DEF Queued
    <2>3. Head(queue) # k
        BY <1>1, <2>2
    <2> QED  BY <1>1, <1>2, <1>6, <2>2, <2>3 DEF Pop, PopFault, TypeOK
<1>7. CASE Crash \/ Shutdown
    BY <1>1, <1>2, <1>7 DEF Crash, Shutdown, ClearMemory, Idle, Queued
<1>8. ASSUME \/ \E c \in Clients : \/ \E j \in Jobs : RequestCancel(c, j)
                                   \/ FlipStatus(c) \/ SignalTask(c) \/ ClientFault(c)
             \/ ReapFault \/ ProcessStep \/ UNCHANGED vars
      PROVE  Settled(k)' /\ UNCHANGED <<status[k], attempts[k]>>
    <2>1. /\ UNCHANGED <<queue, timers, task, attempts, status[k]>>
          /\ \A c \in Clients : client'[c] # [pc |-> "flip", job |-> k]
        BY <1>1, <1>8, OthersRespectOutcomes
    <2> QED  BY <1>1, <1>2, <2>1 DEF Queued
<1> QED  BY <1>3, <1>4, <1>5, <1>6, <1>7, <1>8 DEF Next

LEMMA HonouredStep ==
    ASSUME TypeOK, SingleCarrier, [Next]_vars, NEW k \in Jobs, Honoured(k)
    PROVE  Honoured(k)' /\ UNCHANGED attempts[k]
<1> USE DEF redis, memory
<1>1. status[k] = "cancelled" /\ task[k] \in {"none", "get"}
    BY DEF Honoured
<1>2. ASSUME status'[k] = "cancelled", task'[k] \in {"none", "get"}, UNCHANGED attempts[k]
      PROVE  Honoured(k)' /\ UNCHANGED attempts[k]
    BY <1>2 DEF Honoured
<1>3. ASSUME NEW j \in Jobs, Enqueue(j) PROVE Honoured(k)' /\ UNCHANGED attempts[k]
    BY <1>1, <1>2, <1>3 DEF Enqueue, TypeOK
<1>4. ASSUME NEW j \in Jobs, TaskStep(j) \/ Progress(j) \/ TaskFault(j)
      PROVE  Honoured(k)' /\ UNCHANGED attempts[k]
    <2>1. CASE j # k
        BY <1>1, <1>2, <1>4, <2>1, TaskTouchesItsJob
    <2>2. CASE j = k
        BY <1>1, <1>2, <1>4, <2>2, TaskTouchesItsJob, UnreadTaskIsHarmless
    <2> QED  BY <2>1, <2>2
<1>5. ASSUME NEW j \in Jobs, Requeue(j) \/ RequeueFault(j)
      PROVE  Honoured(k)' /\ UNCHANGED attempts[k]
    BY <1>1, <1>2, <1>5 DEF Requeue, RequeueFault
<1>6. CASE Pop \/ PopFault
    BY <1>1, <1>2, <1>6, TailElements DEF Pop, PopFault, TypeOK
<1>7. CASE Crash \/ Shutdown
    BY <1>1, <1>2, <1>7 DEF Crash, Shutdown, ClearMemory
<1>8. ASSUME \/ \E c \in Clients : \/ \E j \in Jobs : RequestCancel(c, j)
                                   \/ FlipStatus(c) \/ SignalTask(c) \/ ClientFault(c)
             \/ ReapFault \/ ProcessStep \/ UNCHANGED vars
      PROVE  Honoured(k)' /\ UNCHANGED attempts[k]
    <2>1. status[k] \in Terminal
        BY <1>1 DEF Terminal
    <2>2. UNCHANGED <<task, attempts>> /\ (UNCHANGED status[k] \/ status'[k] = "cancelled")
        BY <1>8, <2>1, OthersRespectOutcomes
    <2> QED  BY <1>1, <1>2, <2>2
<1> QED  BY <1>3, <1>4, <1>5, <1>6, <1>7, <1>8 DEF Next

\* What a client was told stays true: a job that settled keeps its outcome and
\* never runs again, and a cancel that came before the runner read the job is
\* honoured, whatever retries, restarts, reapings and late requests follow.
THEOREM OutcomesHoldCorrect == Spec => OutcomesHold
<1>1. TypeOK /\ [Next]_vars
      => [\A j \in Jobs : Settled(j) => Settled(j)' /\ UNCHANGED <<status[j], attempts[j]>>]_vars
    BY SettledStep
<1>2. TypeOK /\ SingleCarrier /\ [Next]_vars
      => [\A j \in Jobs : Honoured(j) => Honoured(j)' /\ UNCHANGED attempts[j]]_vars
    BY HonouredStep
<1>3. Spec => SettledForever
    BY <1>1, TypeCorrect, PTL DEF Spec, SettledForever
<1>4. Spec => CancelHonoured
    BY <1>2, TypeCorrect, SingleCarrierCorrect, PTL DEF Spec, CancelHonoured
<1> QED  BY <1>3, <1>4 DEF OutcomesHold

-----------------------------------------------------------------------------
(* No connection gets a job's events twice or out of order.  The list      *)
(* holds the newest events in a row (Newest), so what a connection reads   *)
(* next is numbered by its place in the list.  Trimming moves the events   *)
(* towards the front while the connection's index stays: what it was sent  *)
(* is never newer than what stood before that index (SentBefore).          *)

Newest == /\ Len(events) <= pushed
          /\ \A i \in 1..Len(events) : events[i] = pushed - Len(events) + i
          /\ pushed <= EventsMax => Len(events) = pushed

SentBefore == \A s \in Streams :
    /\ Len(stream[s].sent) = stream[s].last_idx
    /\ \A n \in 1..Len(stream[s].sent) :
         stream[s].sent[n] <= pushed - Len(events) + stream[s].last_idx

Ordered == \A s \in Streams : \A m, n \in 1..Len(stream[s].sent) :
              m < n => stream[s].sent[m] < stream[s].sent[n]

Untrimmed == pushed <= EventsMax =>
              \A s \in Streams : \A n \in 1..Len(stream[s].sent) : stream[s].sent[n] = n

StreamsInv == EventsTyped /\ Newest /\ SentBefore /\ Ordered /\ Untrimmed

Connection == [pc : {"none", "status", "events", "closed"}, seen : {"live", "over"},
         last_idx : Nat, sent : Seq(1..MaxEvents)]

\* The parts of StreamsInv that do not depend on the list follow when it stays.
LEMMA TypesOfStreams ==
  ASSUME StreamsInv
  PROVE  /\ events \in Seq(1..MaxEvents) /\ Len(events) \in Nat /\ Len(events) <= EventsMax + trims + lost
         /\ trims \in Nat /\ lost \in Nat /\ trims + lost <= pushed
         /\ pushed \in Nat /\ pushed <= MaxEvents /\ EventsMax \in Nat \ {0} /\ MaxEvents \in Nat
         /\ stream \in [Streams -> Connection]
         /\ \A s \in Streams : /\ stream[s].sent \in Seq(1..MaxEvents) /\ stream[s].last_idx \in Nat
                               /\ Len(stream[s].sent) \in Nat
                               /\ \A n \in 1..Len(stream[s].sent) : stream[s].sent[n] \in Nat
<1>1. /\ events \in Seq(1..MaxEvents) /\ Len(events) <= EventsMax + trims + lost /\ pushed \in 0..MaxEvents
      /\ trims \in Nat /\ lost \in Nat /\ trims + lost <= pushed
      /\ stream \in [Streams -> Connection]
  BY DEF StreamsInv, EventsTyped, Connection
<1>2. ASSUME NEW s \in Streams
      PROVE  /\ stream[s].sent \in Seq(1..MaxEvents) /\ stream[s].last_idx \in Nat
             /\ Len(stream[s].sent) \in Nat
             /\ \A n \in 1..Len(stream[s].sent) : stream[s].sent[n] \in Nat
  <2>1. stream[s].sent \in Seq(1..MaxEvents) /\ stream[s].last_idx \in Nat
    BY <1>1 DEF Connection
  <2>2. Len(stream[s].sent) \in Nat
    BY <2>1, LenProperties
  <2>3. ASSUME NEW n \in 1..Len(stream[s].sent) PROVE stream[s].sent[n] \in Nat
    <3>1. stream[s].sent[n] \in 1..MaxEvents
      BY <2>1, ElementOfSeq, Zenon
    <3> QED
      BY <3>1, LimitsAssumption
  <2> QED
    BY <2>1, <2>2, <2>3
<1> QED
  BY <1>1, <1>2, LimitsAssumption, LenProperties

\* An event is appended; its push owes the list a trim.
LEMMA PushKeeps == ASSUME StreamsInv, Push PROVE StreamsInv'
<1>1. /\ Len(events) \in Nat /\ pushed \in Nat /\ pushed < MaxEvents
      /\ Len(events) <= EventsMax + trims + lost
      /\ trims \in Nat /\ lost \in Nat /\ trims + lost <= pushed
      /\ MaxEvents \in Nat /\ EventsMax \in Nat
      /\ events \in Seq(1..MaxEvents) /\ pushed' = pushed + 1 /\ trims' = trims + 1
      /\ UNCHANGED <<jobStatus, lost, stream>>
  BY TypesOfStreams DEF Push
<1>2. /\ events' \in Seq(1..MaxEvents)
      /\ Len(events') = Len(events) + 1
      /\ \A i \in 1..Len(events) : events'[i] = events[i]
      /\ events'[Len(events) + 1] = pushed + 1
  BY <1>1 DEF Push
<1>3. EventsTyped'
  BY <1>1, <1>2 DEF StreamsInv, EventsTyped, Push
<1>4. Newest'
  <2>1. ASSUME NEW i \in 1..Len(events') PROVE events'[i] = pushed' - Len(events') + i
    <3>1. CASE i = Len(events) + 1
      BY <3>1, <1>1, <1>2
    <3>2. CASE i \in 1..Len(events)
      <4>1. events[i] = pushed - Len(events) + i
        BY <3>2 DEF StreamsInv, Newest
      <4> QED
        BY <4>1, <3>2, <1>1, <1>2
    <3> QED
      BY <3>1, <3>2, <1>1, <1>2
  <2>2. Len(events) <= pushed /\ (pushed <= EventsMax => Len(events) = pushed)
    BY DEF StreamsInv, Newest
  <2> QED
    BY <2>1, <2>2, <1>1, <1>2 DEF Newest
<1>5. SentBefore' /\ Ordered'
  BY <1>1, <1>2 DEF StreamsInv, SentBefore, Ordered
<1>6. Untrimmed'
  BY <1>1 DEF StreamsInv, Untrimmed
<1> QED
  BY <1>3, <1>4, <1>5, <1>6 DEF StreamsInv

\* The oldest events go; the numbers of the others and of what was sent stay.
LEMMA TrimKeeps == ASSUME StreamsInv, Trim PROVE StreamsInv'
<1>1. /\ Len(events) \in Nat /\ pushed \in Nat /\ EventsMax \in Nat \ {0}
      /\ events \in Seq(1..MaxEvents) /\ events' = Kept(EventsMax)
      /\ trims' \in Nat /\ lost' = 0 /\ trims' + lost' <= pushed
      /\ UNCHANGED <<jobStatus, pushed, stream>>
  BY TypesOfStreams DEF Trim
<1>2. CASE Len(events) <= EventsMax
  <2>1. UNCHANGED events
    BY <1>1, <1>2 DEF Kept
  <2>2. EventsTyped'
    <3>1. Len(events') <= EventsMax + trims' + lost' /\ lost' \in Nat
      BY <1>1, <1>2, <2>1
    <3> QED
      BY <1>1, <2>1, <3>1 DEF StreamsInv, EventsTyped
  <2>3. Newest' /\ SentBefore' /\ Ordered' /\ Untrimmed'
    BY <1>1, <2>1 DEF StreamsInv, Newest, SentBefore, Ordered, Untrimmed
  <2> QED
    BY <2>2, <2>3 DEF StreamsInv
<1>3. CASE Len(events) > EventsMax
  <2>1. /\ events' = SubSeq(events, Len(events) - EventsMax + 1, Len(events))
        /\ Len(events) - EventsMax + 1 \in 1..Len(events)
    BY <1>1, <1>3 DEF Kept
  <2>2. /\ events' \in Seq(1..MaxEvents)
        /\ Len(events') = EventsMax
        /\ \A i \in 1..EventsMax : events'[i] = events[Len(events) - EventsMax + i]
    <3>1. ASSUME NEW i \in Len(events) - EventsMax + 1 .. Len(events) PROVE events[i] \in 1..MaxEvents
      <4>1. i \in 1..Len(events)
        BY <1>1, <2>1
      <4> QED
        BY <4>1, <1>1, ElementOfSeq, Zenon
    <3>2. /\ events' \in Seq(1..MaxEvents)
          /\ Len(events') = Len(events) - (Len(events) - EventsMax + 1) + 1
          /\ \A i \in 1..Len(events) - (Len(events) - EventsMax + 1) + 1 :
               events'[i] = events[Len(events) - EventsMax + 1 + i - 1]
      BY <1>1, <2>1, <3>1, SubSeqProperties
    <3> QED
      BY <1>1, <3>2
  <2>3. pushed > EventsMax /\ Len(events) <= pushed
    BY <1>1, <1>3 DEF StreamsInv, Newest
  <2>4. EventsTyped'
    <3>1. Len(events') <= EventsMax + trims' + lost' /\ lost' \in Nat
      <4>1. lost' = 0 /\ Len(events') = EventsMax
        BY <1>1, <2>2
      <4>2. EventsMax \in Nat /\ trims' \in Nat
        BY <1>1
      <4>3. \A e, t \in Nat : e <= e + t + 0
        OBVIOUS
      <4> QED
        BY <4>1, <4>2, <4>3
    <3> QED
      BY <1>1, <2>2, <3>1 DEF StreamsInv, EventsTyped
  <2>5. Newest'
    <3>1. ASSUME NEW i \in 1..EventsMax PROVE events'[i] = pushed - EventsMax + i
      <4>1. Len(events) - EventsMax + i \in 1..Len(events)
        BY <1>1, <1>3
      <4>2. events[Len(events) - EventsMax + i] = pushed - Len(events) + (Len(events) - EventsMax + i)
        BY <4>1 DEF StreamsInv, Newest
      <4> QED
        BY <4>2, <2>2, <1>1
    <3> QED
      BY <3>1, <2>2, <2>3, <1>1 DEF Newest
  <2>6. SentBefore'
    <3>1. ASSUME NEW s \in Streams, NEW n \in 1..Len(stream[s].sent)
          PROVE  stream[s].sent[n] <= pushed - EventsMax + stream[s].last_idx
      <4>1. /\ stream[s].sent[n] <= pushed - Len(events) + stream[s].last_idx
            /\ stream[s].sent[n] \in Nat /\ stream[s].last_idx \in Nat
        BY TypesOfStreams DEF StreamsInv, SentBefore
      <4> QED
        BY <4>1, <1>1, <1>3
    <3> QED
      BY <3>1, <1>1, <2>2 DEF StreamsInv, SentBefore
  <2>7. Ordered' /\ Untrimmed'
    BY <2>3, <1>1 DEF StreamsInv, Ordered, Untrimmed
  <2> QED
    BY <2>4, <2>5, <2>6, <2>7 DEF StreamsInv
<1> QED
  BY <1>1, <1>2, <1>3

\* What the push owed the list is owed for good; nothing else moves.
LEMMA LoseTrimKeeps == ASSUME StreamsInv, LoseTrim PROVE StreamsInv'
<1>1. /\ trims' + lost' = trims + lost /\ trims' \in Nat /\ lost' \in Nat
      /\ EventsMax + trims' + lost' = EventsMax + trims + lost
      /\ UNCHANGED <<jobStatus, events, pushed, stream>>
  <2>1. trims \in Nat /\ lost \in Nat /\ EventsMax \in Nat /\ trims > 0
        /\ trims' = trims - 1 /\ lost' = lost + 1
    BY TypesOfStreams DEF LoseTrim
  <2> QED
    BY <2>1 DEF LoseTrim
<1>2. EventsTyped'
  BY <1>1 DEF StreamsInv, EventsTyped
<1>3. Newest' /\ SentBefore' /\ Ordered' /\ Untrimmed'
  BY <1>1 DEF StreamsInv, Newest, SentBefore, Ordered, Untrimmed
<1> QED
  BY <1>2, <1>3 DEF StreamsInv

\* What a connection reads comes after what it was sent, in the list's order.
LEMMA ReadKeeps == ASSUME StreamsInv, NEW s \in Streams, ReadEvents(s) PROVE StreamsInv'
<1> DEFINE old == stream[s]  new == stream'[s]  at == Len(stream[s].sent)
<1>1. /\ stream \in [Streams -> Connection] /\ old \in Connection
      /\ events \in Seq(1..MaxEvents) /\ old.sent \in Seq(1..MaxEvents)
      /\ old.last_idx = at /\ at \in Nat /\ pushed \in Nat /\ Len(events) \in Nat
      /\ \A n \in 1..at : old.sent[n] \in Nat
  BY TypesOfStreams DEF StreamsInv, SentBefore
<1>2. UNCHANGED <<jobStatus, events, pushed, trims, lost>>
  BY DEF ReadEvents
<1>3. /\ new.pc \in {"closed", "status"} /\ new.seen = old.seen
      /\ new.last_idx = old.last_idx + Len(Unread(s))
      /\ new.sent = old.sent \o Unread(s)
      /\ \A r \in Streams \ {s} : stream'[r] = stream[r]
      /\ new = [pc |-> new.pc, seen |-> new.seen, last_idx |-> new.last_idx, sent |-> new.sent]
      /\ stream' = [stream EXCEPT ![s] = new]
  BY <1>1 DEF ReadEvents, Connection
<1>4. /\ Unread(s) \in Seq(1..MaxEvents) /\ Len(Unread(s)) \in Nat
      /\ Unread(s) # <<>> => at + Len(Unread(s)) = Len(events)
      /\ \A i \in 1..Len(Unread(s)) : Unread(s)[i] = events[at + i]
  <2>1. Unread(s) = SubSeq(events, at + 1, Len(events))
    BY <1>1 DEF Unread
  <2>2. ASSUME NEW i \in at + 1 .. Len(events) PROVE events[i] \in 1..MaxEvents
    <3>1. i \in 1..Len(events)
      BY <1>1
    <3> QED
      BY <3>1, <1>1, ElementOfSeq, Zenon
  <2>3. /\ Unread(s) \in Seq(1..MaxEvents)
        /\ Len(Unread(s)) = IF at + 1 <= Len(events) THEN Len(events) - (at + 1) + 1 ELSE 0
        /\ \A i \in 1..Len(events) - (at + 1) + 1 : Unread(s)[i] = events[at + 1 + i - 1]
    <3>1. at + 1 \in Int /\ Len(events) \in Int
      BY <1>1
    <3> HIDE DEF at
    <3> QED
      BY <2>1, <2>2, <3>1, SubSeqProperties
  <2>4. Unread(s) = <<>> => Len(Unread(s)) = 0
    OBVIOUS
  <2>5. ASSUME Unread(s) # <<>> PROVE at + Len(Unread(s)) = Len(events)
    <3>1. Len(Unread(s)) # 0
      BY <2>3, <2>5, EmptySeq
    <3>2. CASE at + 1 <= Len(events)
      <4>1. Len(Unread(s)) = Len(events) - (at + 1) + 1
        BY <2>3, <3>2
      <4> QED
        BY <4>1, <1>1
    <3>3. CASE ~(at + 1 <= Len(events))
      BY <3>1, <3>3, <2>3
    <3> QED
      BY <3>2, <3>3
  <2>6. ASSUME NEW i \in 1..Len(Unread(s)) PROVE Unread(s)[i] = events[at + i]
    <3>1. i \in 1..Len(events) - (at + 1) + 1 /\ at + 1 + i - 1 = at + i
      BY <2>3, <1>1
    <3> QED
      BY <3>1, <2>3
  <2> QED
    BY <2>3, <2>5, <2>6, LenProperties
<1>5. /\ new.sent \in Seq(1..MaxEvents)
      /\ Len(new.sent) = at + Len(Unread(s)) /\ Len(new.sent) \in Nat
      /\ \A n \in 1..at : n \in 1..Len(new.sent) /\ new.sent[n] = old.sent[n]
      /\ \A n \in 1..Len(new.sent) : n > at => n - at \in 1..Len(Unread(s)) /\ new.sent[n] = Unread(s)[n - at]
  <2>1. new.sent = old.sent \o Unread(s)
    BY <1>3
  <2>2. new.sent \in Seq(1..MaxEvents) /\ Len(new.sent) = at + Len(Unread(s))
    BY <2>1, <1>1, <1>4, ConcatProperties
  <2>3. ASSUME NEW n \in 1..Len(new.sent)
        PROVE  new.sent[n] = IF n <= at THEN old.sent[n] ELSE Unread(s)[n - at]
    BY <2>1, <2>2, <1>1, <1>4, ConcatProperties
  <2> QED
    BY <2>2, <2>3, <1>1, <1>4
<1>6. ASSUME NEW n \in 1..Len(new.sent), n > at
      PROVE  n \in 1..Len(events) /\ new.sent[n] = events[n] /\ Len(new.sent) = Len(events)
  <2>1. n - at \in 1..Len(Unread(s)) /\ new.sent[n] = Unread(s)[n - at]
    BY <1>5, <1>6
  <2>2. Unread(s) # <<>>
    <3>1. Len(Unread(s)) # 0
      BY <2>1, <1>4
    <3> QED
      BY <3>1, <1>4
  <2>3. Unread(s)[n - at] = events[at + (n - at)]
    BY <2>1, <1>4
  <2> QED
    BY <2>1, <2>2, <2>3, <1>1, <1>4, <1>5, <1>6
<1>7. ASSUME NEW n \in 1..Len(new.sent), n > at
      PROVE  new.sent[n] = pushed - Len(events) + n /\ n \in 1..Len(events)
  <2>1. n \in 1..Len(events) /\ new.sent[n] = events[n]
    BY <1>6, <1>7
  <2>2. events[n] = pushed - Len(events) + n
    BY <2>1 DEF StreamsInv, Newest
  <2> QED
    BY <2>1, <2>2
<1>8. EventsTyped'
  <2>1. /\ new.pc \in {"none", "status", "events", "closed"} /\ new.seen \in {"live", "over"}
        /\ new.last_idx \in Nat
    BY <1>1, <1>3, <1>4 DEF Connection
  <2>2. new \in Connection
    BY <2>1, <1>3, <1>5, Zenon DEF Connection
  <2>3. stream' \in [Streams -> Connection]
    BY <2>2, <1>1, <1>3
  <2> QED
    BY <2>3, <1>2 DEF StreamsInv, EventsTyped, Connection
<1>9. Newest'
  BY <1>2 DEF StreamsInv, Newest
<1>10. SentBefore'
  <2>1. Len(new.sent) = new.last_idx
    BY <1>1, <1>3, <1>5
  <2>2. ASSUME NEW n \in 1..Len(new.sent) PROVE new.sent[n] <= pushed - Len(events) + new.last_idx
    <3>1. CASE n > at
      BY <3>1, <1>7, <2>1, <1>1
    <3>2. CASE n <= at
      <4>1. old.sent[n] <= pushed - Len(events) + at /\ old.sent[n] \in Nat
        BY <3>2, <1>1, <1>5 DEF StreamsInv, SentBefore
      <4> QED
        BY <4>1, <3>2, <1>1, <1>5, <2>1
    <3> QED
      BY <3>1, <3>2, <1>1
  <2> QED
    BY <2>1, <2>2, <1>2, <1>3 DEF StreamsInv, SentBefore
<1>11. Ordered'
  <2>1. ASSUME NEW m \in 1..Len(new.sent), NEW n \in 1..Len(new.sent), m < n
        PROVE  new.sent[m] < new.sent[n]
    <3>1. CASE n <= at
      <4>1. m \in 1..at /\ n \in 1..at
        BY <3>1, <2>1, <1>1, <1>5
      <4>2. old.sent[m] < old.sent[n]
        BY <4>1, <2>1 DEF StreamsInv, Ordered
      <4> QED
        BY <4>1, <4>2, <1>5
    <3>2. CASE m > at
      <4>1. m \in Int /\ n \in Int /\ m < n /\ n > at
        BY <3>2, <2>1, <1>1, <1>5
      <4>2. new.sent[m] = pushed - Len(events) + m
        BY <3>2, <1>7
      <4>3. new.sent[n] = pushed - Len(events) + n
        BY <4>1, <1>7
      <4> QED
        BY <4>1, <4>2, <4>3, <1>1
    <3>3. CASE m <= at /\ n > at
      <4>1. old.sent[m] <= pushed - Len(events) + at /\ old.sent[m] \in Nat
        BY <3>3, <1>1, <1>5 DEF StreamsInv, SentBefore
      <4> QED
        BY <4>1, <3>3, <1>1, <1>5, <1>7 DEF StreamsInv
    <3> QED
      BY <3>1, <3>2, <3>3, <1>1
  <2> QED
    BY <2>1, <1>2, <1>3 DEF StreamsInv, Ordered
<1>12. Untrimmed'
  <2>1. ASSUME pushed <= EventsMax, NEW n \in 1..Len(new.sent) PROVE new.sent[n] = n
    <3>1. CASE n > at
      <4>1. new.sent[n] = pushed - Len(events) + n
        BY <3>1, <1>7
      <4>2. Len(events) = pushed
        BY <2>1 DEF StreamsInv, Newest
      <4> QED
        BY <4>1, <4>2, <1>1
    <3>2. CASE n <= at
      BY <3>2, <2>1, <1>1, <1>5 DEF StreamsInv, Untrimmed
    <3> QED
      BY <3>1, <3>2, <1>1
  <2> QED
    BY <2>1, <1>2, <1>3 DEF StreamsInv, Untrimmed
<1> QED
  BY <1>8, <1>9, <1>10, <1>11, <1>12 DEF StreamsInv

\* A connection that opens has been sent nothing; one that closes or looks at
\* the status is sent nothing.
LEMMA OtherStreamKeeps ==
  ASSUME StreamsInv, NEW s \in Streams, Connect(s) \/ Disconnect(s) \/ ReadStatus(s)
  PROVE  StreamsInv'
<1> USE LimitsAssumption
<1>1. /\ UNCHANGED <<jobStatus, events, pushed, trims, lost>>
      /\ stream \in [Streams -> Connection]
  BY DEF Connect, Disconnect, ReadStatus, StreamsInv, EventsTyped, Connection
<1>2. PICK new \in Connection :
         /\ stream' = [stream EXCEPT ![s] = new]
         /\ \/ new.sent = <<>> /\ new.last_idx = 0
            \/ new.sent = stream[s].sent /\ new.last_idx = stream[s].last_idx
  <2>1. CASE Connect(s)
    <3>1. [Unconnected EXCEPT !.pc = "status"] \in Connection
      <4>1. [Unconnected EXCEPT !.pc = "status"] = [pc |-> "status", seen |-> "live", last_idx |-> 0, sent |-> <<>>]
        BY DEF Unconnected
      <4>2. <<>> \in Seq(1..MaxEvents)
        BY EmptySeq, Zenon
      <4>3. [pc |-> "status", seen |-> "live", last_idx |-> 0, sent |-> <<>>] \in Connection
        BY <4>2 DEF Connection
      <4> QED
        BY <4>1, <4>3, Zenon
    <3>2. [Unconnected EXCEPT !.pc = "status"].sent = <<>> /\ [Unconnected EXCEPT !.pc = "status"].last_idx = 0
      BY DEF Unconnected
    <3> QED
      BY <2>1, <3>1, <3>2 DEF Connect
  <2>2. CASE Disconnect(s)
    <3>1. [stream[s] EXCEPT !.pc = "closed"] \in Connection
      BY <1>1 DEF Connection
    <3> QED
      BY <2>2, <3>1, <1>1 DEF Disconnect, Connection
  <2>3. CASE ReadStatus(s)
    <3>1. [stream[s] EXCEPT !.pc = "events", !.seen = jobStatus] \in Connection
      BY <1>1 DEF Connection, StreamsInv, EventsTyped
    <3> QED
      BY <2>3, <3>1, <1>1 DEF ReadStatus, Connection
  <2> QED
    BY <2>1, <2>2, <2>3
<1>3. /\ stream' \in [Streams -> Connection] /\ stream'[s] = new
      /\ \A r \in Streams \ {s} : stream'[r] = stream[r]
  BY <1>1, <1>2
<1>4. EventsTyped' /\ Newest'
  BY <1>1, <1>3 DEF StreamsInv, EventsTyped, Connection, Newest
<1>5. SentBefore' /\ Ordered' /\ Untrimmed'
  BY <1>1, <1>2, <1>3 DEF StreamsInv, SentBefore, Ordered, Untrimmed
<1> QED
  BY <1>4, <1>5 DEF StreamsInv

LEMMA StreamsInvCorrect == EventsSpec => []StreamsInv
<1>1. EventsInit => StreamsInv
  <2> SUFFICES ASSUME EventsInit PROVE StreamsInv
    OBVIOUS
  <2>1. /\ events = <<>> /\ Len(events) = 0 /\ pushed = 0 /\ <<>> \in Seq(1..MaxEvents)
        /\ trims = 0 /\ lost = 0
        /\ jobStatus = "live"
        /\ stream = [s \in Streams |-> [pc |-> "none", seen |-> "live", last_idx |-> 0, sent |-> <<>>]]
    BY EmptySeq DEF EventsInit, Unconnected
  <2>2. EventsTyped
    <3>1. [pc |-> "none", seen |-> "live", last_idx |-> 0, sent |-> <<>>] \in Connection
      BY <2>1 DEF Connection
    <3>2. stream \in [Streams -> Connection]
      BY <2>1, <3>1
    <3>3. events \in Seq(1..MaxEvents)
      BY <2>1, Zenon
    <3>4. /\ Len(events) <= EventsMax + trims + lost /\ pushed \in 0..MaxEvents
          /\ trims \in Nat /\ lost \in Nat /\ trims + lost <= pushed
      BY <2>1, LimitsAssumption
    <3> QED
      BY <2>1, <3>2, <3>3, <3>4 DEF EventsTyped, Connection
  <2>3. Newest /\ SentBefore /\ Ordered /\ Untrimmed
    BY <2>1, LimitsAssumption DEF Newest, SentBefore, Ordered, Untrimmed
  <2> QED
    BY <2>2, <2>3 DEF StreamsInv
<1>2. StreamsInv /\ [EventsNext]_eventVars => StreamsInv'
  <2> SUFFICES ASSUME StreamsInv, [EventsNext]_eventVars PROVE StreamsInv'
    OBVIOUS
  <2>1. CASE Push
    BY <2>1, PushKeeps
  <2>2. CASE Trim
    BY <2>2, TrimKeeps
  <2>3. CASE Terminate \/ RunAgain
    BY <2>3 DEF Terminate, RunAgain, StreamsInv, EventsTyped, Newest, SentBefore, Ordered, Untrimmed
  <2>4. ASSUME NEW s \in Streams, ReadEvents(s) PROVE StreamsInv'
    BY <2>4, ReadKeeps
  <2>5. ASSUME NEW s \in Streams, Connect(s) \/ Disconnect(s) \/ ReadStatus(s)
        PROVE  StreamsInv'
    BY <2>5, OtherStreamKeeps
  <2>6. CASE UNCHANGED eventVars
    BY <2>6 DEF eventVars, StreamsInv, EventsTyped, Newest, SentBefore, Ordered, Untrimmed
  <2>7. CASE LoseTrim
    BY <2>7, LoseTrimKeeps
  <2> QED
    BY <2>1, <2>2, <2>3, <2>4, <2>5, <2>6, <2>7 DEF EventsNext
<1> QED
  BY <1>1, <1>2, PTL DEF EventsSpec

\* jobs.py's stream sends every event at most once and in the order they were
\* pushed, and leaves none out before the list was first cut (EventsInOrder),
\* for any bound of the list and any number of connections.
THEOREM EventsInOrderCorrect == EventsSpec => []EventsInOrder
<1>1. StreamsInv => EventsInOrder
  <2> SUFFICES ASSUME StreamsInv, NEW s \in Streams
               PROVE  /\ \A m, n \in DOMAIN stream[s].sent :
                            m < n => stream[s].sent[m] < stream[s].sent[n]
                      /\ pushed <= EventsMax =>
                            \A n \in DOMAIN stream[s].sent : stream[s].sent[n] = n
    BY DEF EventsInOrder
  <2>1. DOMAIN stream[s].sent = 1..Len(stream[s].sent)
    BY DEF StreamsInv, EventsTyped
  <2> QED
    BY <2>1 DEF StreamsInv, Ordered, Untrimmed
<1> QED
  BY <1>1, StreamsInvCorrect, PTL

-----------------------------------------------------------------------------
(* Queue and streams side by side: whatever moves, a step is one of the     *)
(* queue and one of the streams, or leaves them alone.                      *)

LEMMA PartsKeepTheirSpecs == AllSpec => Spec /\ EventsSpec
<1>1. AllInit => Init /\ EventsInit
  BY DEF AllInit
<1>2. [AllNext]_<<part, vars, eventVars, scanVars>> => [Next]_vars /\ [EventsNext]_eventVars
  BY DEF AllNext
<1> QED
  BY <1>1, <1>2, PTL DEF AllSpec, Spec, EventsSpec

\* The queue's Redis keys and the runner's memory keep their types, and a job's list of
\* events is longer than its limit by no more than the pushes that are between rpush and
\* ltrim (core/jobs.py:212-213) or ended there since the last trim, however many push at
\* once; also when the parts of one backend are looked at together.
THEOREM TypesOKCorrect == AllSpec => []TypesOK
<1>1. StreamsInv => EventsTyped
  BY DEF StreamsInv
<1> QED
  BY <1>1, PartsKeepTheirSpecs, TypeCorrect, StreamsInvCorrect, PTL DEF TypesOK

\* One place carries a job, an outcome stays and a cancel in time is honoured, jobs run
\* as JobAttempts allows (core/jobs.py), and a connection gets the events in order
\* (routers/jobs.py): each in company of the other parts as it is alone.
THEOREM SideBySideCorrect ==
    AllSpec => []SingleCarrier /\ []EventsInOrder /\ OutcomesHold /\ AttemptsSpec
BY PartsKeepTheirSpecs, SingleCarrierCorrect, EventsInOrderCorrect, OutcomesHoldCorrect,
   ImplementsJobAttempts, PTL
=============================================================================
