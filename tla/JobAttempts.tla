----------------------------- MODULE JobAttempts -----------------------------
(***************************************************************************)
(* What the job framework of backend/app/core/jobs.py promises about the   *)
(* work itself, whatever the Redis hash of a job says: a job waits, runs,  *)
(* may wait again if its policy lets it, and when it is over it is over.   *)
(***************************************************************************)
EXTENDS Naturals

CONSTANTS
    Jobs,        \* job ids
    MaxRetries   \* JobPolicy.max_retries of each job's type

VARIABLES
    stage,       \* new, waiting, running or over
    runs         \* how often the handler was entered

vars == <<stage, runs>>

Stage == {"new", "waiting", "running", "over"}

Init ==
    /\ stage = [j \in Jobs |-> "new"]
    /\ runs = [j \in Jobs |-> 0]

Go(j, from, to) ==
    /\ stage[j] = from
    /\ stage' = [stage EXCEPT ![j] = to]

\* enqueue.
Submit(j) == Go(j, "new", "waiting") /\ UNCHANGED runs

\* The runner enters the handler.
Begin(j) ==
    /\ Go(j, "waiting", "running")
    /\ runs' = [runs EXCEPT ![j] = @ + 1]

\* A failed run waits for another one, once per retry of the policy.
Again(j) ==
    /\ runs[j] <= MaxRetries[j]
    /\ Go(j, "running", "waiting")
    /\ UNCHANGED runs

\* Any set of jobs is given up or completed: one in normal operation, all
\* that the process held in memory when it stops.
Finish(S) ==
    /\ \A j \in S : stage[j] \in {"waiting", "running"}
    /\ stage' = [j \in Jobs |-> IF j \in S THEN "over" ELSE stage[j]]
    /\ UNCHANGED runs

Next ==
    \/ \E j \in Jobs : Submit(j) \/ Begin(j) \/ Again(j)
    \/ \E S \in SUBSET Jobs : Finish(S)

Spec == Init /\ [][Next]_vars

-----------------------------------------------------------------------------
TypeOK == stage \in [Jobs -> Stage] /\ runs \in [Jobs -> Nat]

\* A job is run at most once more than its policy has retries.
RunsBounded ==
    \A j \in Jobs :
        runs[j] <= MaxRetries[j] + (IF stage[j] \in {"new", "waiting"} THEN 0 ELSE 1)

\* What is over is never run again.
OverIsFinal ==
    [][\A j \in Jobs : stage[j] = "over" => UNCHANGED <<stage[j], runs[j]>>]_vars
=============================================================================
