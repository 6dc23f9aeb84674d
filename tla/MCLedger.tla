------------------------------ MODULE MCLedger ------------------------------
(***************************************************************************)
(* ScanLedger in two settings, one per behaviour.  "hostile", of the       *)
(* constants themselves: a delete, a dropped job, a failure, a crash, and  *)
(* jobs that overtake the commits of their queuers.  "prompt": nothing     *)
(* fails, but there are more requests, pushes and contents.                *)
(***************************************************************************)
EXTENDS MCScanLedger

CONSTANTS q1, q2, k1, k2

ASSUME PromptNames == None \notin {c1, c2, q1, q2}

VARIABLE setting

Prompt == INSTANCE ScanLedger WITH
    Contents <- {c1, c2}, Requests <- {q1, q2}, Sources <- {"webhook", "manual"},
    JobIds <- {k1, k2}, PromptCommit <- TRUE, MaxPushes <- 2, MaxAsks <- 1,
    MaxDeletes <- 0, MaxDrops <- 0, MaxFaults <- 0, MaxCrashes <- 0

Either == \/ setting = "hostile" /\ Init
          \/ setting = "prompt" /\ Prompt!Init

Alike == Permutations({k1, k2}) \union Permutations({q1, q2})

LedgerSpec ==
    /\ Either
    /\ [][/\ UNCHANGED setting
          /\ \/ setting = "hostile" /\ Next
             \/ setting = "prompt" /\ Prompt!Next]_<<setting, vars>>

(* Either setting keeps its types.                                         *)
LedgersTyped == IF setting = "hostile" THEN TypeOK ELSE Prompt!TypeOK

(***************************************************************************)
(* Where nothing fails and a job ends after its queuer's commit, scans,    *)
(* pushes and the ledger agree: every scan nobody asked for has a push of  *)
(* its own after the baseline, a queued row has its scan, and no image has *)
(* two.                                                                    *)
(***************************************************************************)
PromptScansAreDue == setting = "prompt" => Prompt!ScansAreDue
=============================================================================
