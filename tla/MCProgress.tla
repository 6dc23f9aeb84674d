------------------------------ MODULE MCProgress ------------------------------
(***************************************************************************)
(* What the backend must get done, for TLC: jobs that settle, event        *)
(* streams that end, pushed images that are scanned.  Queue and streams    *)
(* are extended; the ledger, whose safety other runs check at larger       *)
(* bounds, is an instance.  A run takes one part at a time, and the others *)
(* rest; each part has the fairness of its own module.                     *)
(***************************************************************************)
EXTENDS JobQueue, JobEvents, TLC

CONSTANTS a, b, r1,
    Repos, Images, RepoOf, Contents, Requests, Sources, ScanIds, Modes

VARIABLES
    part,        \* the component that moves
    nexus, hooks, target, ledger, cleanup, req, watch, session, scanJobs, scanCount,
    observed, credit, fresh, scanned

scanVars == <<nexus, hooks, target, ledger, cleanup, req, watch, session, scanJobs,
              scanCount, observed, credit, fresh, scanned>>

\* Pushes, and nothing that goes wrong.
Scans == INSTANCE ScanLedger WITH
    deliveries <- hooks, jobs <- scanJobs, count <- scanCount, JobIds <- ScanIds,
    PromptCommit <- TRUE, MaxPushes <- 2, MaxAsks <- 0, MaxDeletes <- 0,
    MaxDrops <- 0, MaxFaults <- 0, MaxCrashes <- 0

\* a retries once, like collect_metrics; the others never do.
OneRetries == [j \in Jobs |-> IF j = a THEN 1 ELSE 0]
AllButB    == Jobs \ {b}
OneRepo    == [i \in Images |-> r1]

AllInit ==
    /\ part \in {"jobs", "events", "scans"}
    /\ Init /\ EventsInit /\ Scans!Init
    /\ part # "scans" => nexus = [i \in Images |-> "none"]

AllNext ==
    /\ UNCHANGED part
    /\ \/ part = "jobs" /\ Next
       \/ part # "jobs" /\ UNCHANGED vars
    /\ \/ part = "events" /\ EventsNext
       \/ part # "events" /\ UNCHANGED eventVars
    /\ \/ part = "scans" /\ Scans!Next
       \/ part # "scans" /\ UNCHANGED scanVars

\* The fairness of the part that moves; a part that rests promises nothing.
AllFair ==
    /\ \A j \in Jobs : /\ WF_vars(part = "jobs" /\ TaskStep(j))
                       /\ WF_vars(part = "jobs" /\ Requeue(j))
    /\ \A k \in Clients : /\ WF_vars(part = "jobs" /\ FlipStatus(k))
                          /\ WF_vars(part = "jobs" /\ SignalTask(k))
    /\ WF_vars(part = "jobs" /\ Pop) /\ WF_vars(part = "jobs" /\ ProcessStep)
    /\ WF_eventVars(part = "events" /\ (Trim \/ LoseTrim))
    /\ \A s \in Streams : WF_eventVars(part = "events" /\ (ReadStatus(s) \/ ReadEvents(s)))
    /\ WF_scanVars(part = "scans" /\ Scans!WatchStep)
    /\ \A q \in Requests : WF_scanVars(part = "scans" /\ Scans!RequestStep(q))
    /\ \A k \in ScanIds : WF_scanVars(part = "scans" /\ Scans!JobStep(k))

AllSpec == /\ AllInit
           /\ [][AllNext]_<<part, vars, eventVars, scanVars>>
           /\ AllFair

(* The queue and the streams keep their types. *)
TypesOK == TypeOK /\ EventsTyped

(* What is pushed after the baseline is scanned: every image once, and      *)
(* again when its content differs from the digest in the ledger.            *)
PushesAreScanned == Scans!RepushIsScanned /\ Scans!NewImageIsScanned
=============================================================================
