---------------------------- MODULE QualityGates -----------------------------
(***************************************************************************)
(* Rotsy's own quality gates on SonarQube, modules/sonar/provisioning.py,  *)
(* and which gate a project of routers/sonar.py has.  A gate is created    *)
(* with conditions of SonarQube's choice; ensure_quality_gate then makes   *)
(* it what the preset says, one call to SonarQube after another, from the  *)
(* conditions it read first.  Any call may fail, a request may be dropped  *)
(* between two of them, requests overlap, and the operator edits gates in  *)
(* SonarQube's own pages.                                                  *)
(***************************************************************************)
EXTENDS FiniteSets, Naturals

CONSTANTS
    Presets,     \* the presets that are asked for
    Default,     \* DEFAULT_QUALITY_GATE_PRESET
    Metrics,
    Intended,    \* of each preset, its conditions: the thresholds of some metrics
    SonarWay,    \* the conditions of a gate that is created
    SonarKeys,     \* the Sonar projects of the repositories
    SonarBranches, \* the Sonar projects of their other branches
    Changes,     \* the requests that may be under way
    MaxEdits     \* bound: conditions edited and gates chosen in SonarQube

ASSUME PresetsAssumption == \A p \in Presets : /\ Intended[p] = [m \in DOMAIN Intended[p] |-> Intended[p][m]]
                                               /\ DOMAIN Intended[p] \subseteq Metrics
ASSUME DefaultAssumption == Default \in Presets
ASSUME SonarWayAssumption == /\ SonarWay = [m \in DOMAIN SonarWay |-> SonarWay[m]]
                             /\ DOMAIN SonarWay \subseteq Metrics

Custom        == "custom"     \* a gate of the operator's
SonarDefault  == "sonar way"  \* SonarQube's default gate
NoProject     == "none"
Unset         == "unset"
Thresholds    == UNION {{c[m] : m \in DOMAIN c} : c \in {Intended[p] : p \in Presets} \union {SonarWay}}

VARIABLES
    gate,       \* of each preset, the conditions of its gate, once it is created
    assigned,   \* the gate of each Sonar project
    shown,      \* quality_gate_preset of each sonar_projects row
    ask,        \* the requests
    touched,    \* requests whose gate somebody else changed while they reconciled it
    edits

gateVars == <<gate, assigned, shown, ask, touched, edits>>

Exists(p) == p \in DOMAIN gate

GatesInit ==
    /\ gate = [p \in {} |-> SonarWay]
    /\ assigned = [k \in SonarKeys \union SonarBranches |-> NoProject] /\ shown = [k \in SonarKeys |-> Unset]
    /\ ask = [r \in Changes |-> [at |-> "idle"]] /\ touched = {} /\ edits = 0

\* Whoever else reconciles the gate that changes now.
Others(r, p) == {x \in Changes \ {r} : ask[x].at = "fix" /\ ask[x].preset = p}

Change(r, p, conditions) ==
    /\ gate' = [g \in DOMAIN gate \union {p} |-> IF g = p THEN conditions ELSE gate[g]]
    /\ touched' = touched \union Others(r, p)

GoesTo(r, at) == ask' = [ask EXCEPT ![r].at = at]

-----------------------------------------------------------------------------
(* A repository gets its Sonar project, with the gate that is named or the *)
(* default one; a branch gets one before each analysis; and the preset of  *)
(* a row is changed.                                                       *)

BeginAsk(r, k, op, p) ==
    /\ ask[r].at = "idle"
    /\ ask' = [ask EXCEPT ![r] = [at |-> "look", op |-> op, key |-> k, preset |-> p]]
    /\ UNCHANGED <<gate, touched, edits>>

ConnectProject(r, k) ==
    /\ shown[k] = Unset
    /\ assigned' = [assigned EXCEPT ![k] = IF @ = NoProject THEN SonarDefault ELSE @]
    /\ BeginAsk(r, k, "connect", Default) /\ UNCHANGED shown

\* An existing gate that is named: assigned, and the row inserted.
ConnectToNamed(k) ==
    /\ shown[k] = Unset
    /\ assigned' = [assigned EXCEPT ![k] = Custom] /\ shown' = [shown EXCEPT ![k] = Default]
    /\ UNCHANGED <<gate, ask, touched, edits>>

BeforeBranch(r, k) ==
    /\ assigned' = [assigned EXCEPT ![k] = IF @ = NoProject THEN SonarDefault ELSE @]
    /\ BeginAsk(r, k, "branch", Default) /\ UNCHANGED shown

Switch(r, k, p) ==
    /\ shown[k] # Unset /\ BeginAsk(r, k, "switch", p) /\ UNCHANGED <<assigned, shown>>

-----------------------------------------------------------------------------
(* ensure_quality_gate.                                                    *)

\* The gate is looked for by name; one made before ours is fails its creation.
CreateGate(r) == LET p == ask[r].preset IN
    /\ ask[r].at = "look" /\ GoesTo(r, "read")
    /\ IF Exists(p) THEN UNCHANGED <<gate, touched>> ELSE Change(r, p, SonarWay)
    /\ UNCHANGED <<assigned, shown, edits>>

\* The metrics of the preset the gate lacks, or has with another threshold.
Needs(p, has) == {m \in DOMAIN Intended[p] : m \notin DOMAIN has \/ has[m] # Intended[p][m]}

\* A fault: what SonarQube added on its own stays.
SurplusStays(p, has) == {}

Surplus(p, has) == DOMAIN has \ DOMAIN Intended[p]

ReadConditions(r) == LET p == ask[r].preset IN
    /\ ask[r].at = "read"
    /\ ask' = [ask EXCEPT ![r] = [at |-> "fix", op |-> @.op, key |-> @.key, preset |-> p,
                                  had |-> DOMAIN gate[p], sets |-> Needs(p, gate[p]), drops |-> Surplus(p, gate[p])]]
    /\ touched' = touched \ {r}
    /\ UNCHANGED <<gate, assigned, shown, edits>>

\* A condition is added or corrected, in any order; SonarQube refuses to add one
\* that is there and to correct one that is not.
SetCondition(r, m) == LET p == ask[r].preset IN
    /\ ask[r].at = "fix" /\ m \in ask[r].sets /\ (m \in ask[r].had <=> m \in DOMAIN gate[p])
    /\ ask' = [ask EXCEPT ![r].sets = @ \ {m}]
    /\ Change(r, p, [n \in DOMAIN gate[p] \union {m} |-> IF n = m THEN Intended[p][m] ELSE gate[p][n]])
    /\ UNCHANGED <<assigned, shown, edits>>

DropCondition(r, m) == LET p == ask[r].preset IN
    /\ ask[r].at = "fix" /\ ask[r].sets = {} /\ m \in ask[r].drops \intersect DOMAIN gate[p]
    /\ ask' = [ask EXCEPT ![r].drops = @ \ {m}]
    /\ Change(r, p, [n \in DOMAIN gate[p] \ {m} |-> gate[p][n]])
    /\ UNCHANGED <<assigned, shown, edits>>

Reconciled(r) ==
    /\ ask[r].at = "fix" /\ ask[r].sets = {} /\ ask[r].drops = {} /\ GoesTo(r, "assign")
    /\ UNCHANGED <<gate, assigned, shown, touched, edits>>

AssignGate(r) ==
    /\ ask[r].at = "assign" /\ assigned' = [assigned EXCEPT ![ask[r].key] = ask[r].preset]
    /\ GoesTo(r, IF ask[r].op = "branch" THEN "done" ELSE "row")
    /\ UNCHANGED <<gate, shown, touched, edits>>

\* The row is updated, or inserted with the column's default unless there is one now.
CommitRow(r) ==
    /\ ask[r].at = "row" /\ GoesTo(r, "done")
    /\ shown' = IF ask[r].op = "connect" /\ shown[ask[r].key] # Unset THEN shown
                ELSE [shown EXCEPT ![ask[r].key] = ask[r].preset]
    /\ UNCHANGED <<gate, assigned, touched, edits>>

\* SonarQube fails a call: connecting goes on without a gate of ours, a switch does not.
CallFails(r) ==
    /\ ask[r].at \in {"look", "read", "fix", "assign"}
    /\ GoesTo(r, IF ask[r].op = "connect" THEN "row" ELSE "done")
    /\ UNCHANGED <<gate, assigned, shown, touched, edits>>

Drop(r) ==
    /\ ask[r].at \in {"look", "read", "fix", "assign", "row"} /\ GoesTo(r, "done")
    /\ UNCHANGED <<gate, assigned, shown, touched, edits>>

-----------------------------------------------------------------------------
(* In SonarQube's own pages.                                               *)

EditGate(p, m) ==
    /\ edits < MaxEdits /\ edits' = edits + 1 /\ Exists(p)
    /\ \/ \E t \in Thresholds :
            gate' = [gate EXCEPT ![p] = [n \in DOMAIN @ \union {m} |-> IF n = m THEN t ELSE @[n]]]
       \/ gate' = [gate EXCEPT ![p] = [n \in DOMAIN @ \ {m} |-> @[n]]]
    /\ gate' # gate /\ touched' = touched \union {x \in Changes : ask[x].at = "fix" /\ ask[x].preset = p}
    /\ UNCHANGED <<assigned, shown, ask>>

ChooseGate(k) ==
    /\ edits < MaxEdits /\ edits' = edits + 1
    /\ assigned[k] \notin {NoProject, Custom} /\ assigned' = [assigned EXCEPT ![k] = Custom]
    /\ UNCHANGED <<gate, shown, ask, touched>>

GatesNext ==
    \/ \E r \in Changes, k \in SonarKeys : ConnectProject(r, k) \/ \E p \in Presets : Switch(r, k, p)
    \/ \E r \in Changes, k \in SonarBranches : BeforeBranch(r, k)
    \/ \E k \in SonarKeys : ConnectToNamed(k) \/ ChooseGate(k)
    \/ \E r \in Changes : CreateGate(r) \/ ReadConditions(r) \/ Reconciled(r) \/ AssignGate(r) \/ CommitRow(r)
                           \/ CallFails(r) \/ Drop(r)
    \/ \E r \in Changes, m \in Metrics : SetCondition(r, m) \/ DropCondition(r, m)
    \/ \E p \in Presets, m \in Metrics : EditGate(p, m)

GatesSpec == GatesInit /\ [][GatesNext]_gateVars

-----------------------------------------------------------------------------
GatesTyped ==
    /\ DOMAIN gate \subseteq Presets
    /\ \A p \in DOMAIN gate : DOMAIN gate[p] \subseteq Metrics /\ \A m \in DOMAIN gate[p] : gate[p][m] \in Thresholds
    /\ assigned \in [SonarKeys \union SonarBranches -> Presets \union {Custom, SonarDefault, NoProject}]
    /\ shown \in [SonarKeys -> Presets \union {Unset}] /\ touched \subseteq Changes

(***************************************************************************)
(* A reconciliation that runs to its end leaves the gate with the preset's *)
(* conditions, neither more nor fewer, whatever an earlier one that was    *)
(* interrupted, SonarQube's defaults or the operator made of it - unless   *)
(* somebody else changes the gate after its conditions were read.          *)
(***************************************************************************)
ReconciledIsPreset ==
    [][\A r \in Changes \ touched :
          ask[r].at = "fix" /\ ask'[r].at = "assign" => gate[ask[r].preset] = Intended[ask[r].preset]]_gateVars
=============================================================================
