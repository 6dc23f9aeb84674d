---------------------------- MODULE MCMaintenance ----------------------------
(***************************************************************************)
(* What the background loops and the administrators keep going, for TLC:   *)
(* when a backup is due, backup schedules and runs, retention policies,    *)
(* metric alerts, and the stored connections.  Apart from the calendar,    *)
(* which the schedules use, they share nothing, so a run takes one part at *)
(* a time, and the others rest.                                            *)
(***************************************************************************)
EXTENDS BackupSchedules, RetentionRuns, MetricAlerts, Connections, TLC

CONSTANTS r1, b1, a1, a2

VARIABLE part   \* the component that moves

\* January to April of a common year that begins on a Wednesday.
EarlyYear == <<31, 28, 31, 30>>
Matches == {5, 28, 59, 90, 118}
TwiceADay == [frequency : {"daily"}, slot : {0, 1}]
OneImage == <<"a", "a", "a">>
InX == <<"x", "x", "x">>
WatchedBy == (a1 :> {r1}) @@ (a2 :> {b1})

rest == <<cadenceVars, backupVars, retentionVars, alertVars, connVars>>

(* The parts that rest start in one state only. *)
AllInit ==
    /\ part \in {"cadence", "backups", "retention", "alerts", "connections"}
    /\ CadenceInit
    /\ part # "cadence" => /\ asked.after = 0
                           /\ asked.cadence = [frequency |-> "daily", slot |-> 0]
    /\ BackupInit /\ RetentionInit
    /\ \A p \in Policies : policy[p].rule = [repo |-> "x", keep |-> 1, age |-> Unset]
    /\ AlertsInit
    /\ \A x \in Resources : x \in Blobstores \/ part # "alerts" => ~present[x].high
    /\ ConnInit
    /\ part # "connections" => /\ env.conn["nexus"] = Unconfigured
                               /\ env.key = CHOOSE k \in Keys : TRUE

AllNext ==
    /\ UNCHANGED part
    /\ \/ /\ part = "cadence" /\ Preview
          /\ UNCHANGED <<backupVars, retentionVars, alertVars, connVars>>
       \/ /\ part = "backups" /\ BackupNext
          /\ UNCHANGED <<cadenceVars, retentionVars, alertVars, connVars>>
       \/ /\ part = "retention" /\ RetentionNext
          /\ UNCHANGED <<cadenceVars, backupVars, alertVars, connVars>>
       \/ /\ part = "alerts" /\ AlertsNext
          /\ UNCHANGED <<cadenceVars, backupVars, retentionVars, connVars>>
       \/ /\ part = "connections" /\ ConnNext
          /\ UNCHANGED <<cadenceVars, backupVars, retentionVars, alertVars>>

AllSpec == AllInit /\ [][AllNext]_<<part, rest>>

(* Every part keeps its types; samples and stages are ones the code has.    *)
TypesOK == CadenceTyped /\ BackupsTyped /\ RetentionTyped /\ AlertsTyped /\ ConnTyped

(* A schedule fires when its cadence means, and once: the next moment       *)
(* computed is the first one after (backup_schedule.py:82-100), and a due   *)
(* moment starts one run unless its poll never committed (:112-147).        *)
SchedulesFireOnce == FirstMomentAfter /\ FiresOncePerCommit

(* Nothing is removed but by its rule: no component of the repositories     *)
(* (retention.py), no archive of the volume (backup_schedule.py:150-202).   *)
RemovalsAreEarned == []EveryRemovalIsEarned /\ OnlySupersededArchivesGo
=============================================================================
