--------------------------- MODULE MCAnalysisRuns ---------------------------
(* Instances of AnalysisRuns for TLC: each branch has a Sonar project.       *)
EXTENDS AnalysisRuns

CONSTANTS main, dev

BranchKey == [b \in Branches |-> b]

\* Two pushes, or one and an analysis asked for by hand, without trouble, with one
\* trouble of any kind, and with a failure that is handled and a restart.
Limits(troubles, most) ==
    [e \in Kinds |-> IF e \in {"push", "causes"} THEN 2
                     ELSE IF e = "troubles" THEN most
                     ELSE IF e \in troubles \union {"ask"} THEN 1 ELSE 0]
NoTrouble       == Limits({}, 0)
OneTrouble      == Limits(Troubles, 1)
FaultAndRestart == Limits({"fault", "restart"}, 2)

(* FairSpec with one trouble of any kind, and a restart after a failure.     *)
Twice == INSTANCE AnalysisRuns WITH Limit <- FaultAndRestart

RestartAfterFault == count["fault"] > 0 /\ Twice!Restart

TroubledSpec == Init /\ [][Next \/ RestartAfterFault]_vars /\ WF_vars(Progress)
=============================================================================
