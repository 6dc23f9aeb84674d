---------------------------- MODULE MetricAlerts ----------------------------
(***************************************************************************)
(* A collection round (services/metrics_collector.py, then services/       *)
(* alerting.py): sample every repository of Nexus, sample every blobstore, *)
(* trim old samples, read back the latest sample of each, and evaluate the *)
(* alert rules against them, sending a webhook for each that matches.  The *)
(* periodic loop (main.py) and collect_metrics jobs run rounds side by     *)
(* side; the job is tried a second time.  A resource is a repository or a  *)
(* blobstore.                                                              *)
(***************************************************************************)
EXTENDS Naturals, FiniteSets

CONSTANTS Repos, Blobstores,
          AlertRules, Watches,   \* rules, and the resources each one's pattern covers
          Rounds,                \* the rounds that may be running: the loop's and the jobs'
          KeepFor,               \* METRIC_RETENTION_DAYS
          MaxNow, MaxTroubles

ASSUME AlertsAssumption == /\ KeepFor \in Nat /\ MaxNow \in Nat \ {0}
                           /\ Repos \intersect Blobstores = {}
                           /\ \A a \in AlertRules : Watches[a] \subseteq Repos \union Blobstores

Resources == Repos \union Blobstores
None == [at |-> 0, high |-> FALSE]   \* no sample; real moments start at 1

VARIABLES now,
          present,   \* resources Nexus has, each with its usage above the threshold or not
          sample,    \* the latest stored sample of each resource
          rule,      \* the AlertRule rows
          round,     \* each round under way
          sent,      \* webhooks: the rule, the round and its start, when the sample was taken
          trouble    \* failures and outside changes so far; rounds refused their last commit

alertVars == <<now, present, sample, rule, round, sent, trouble>>

NewRound == [stage |-> "idle", began |-> 0, seen |-> [x \in Resources |-> None],
             todo |-> {}, fired |-> {}]

AlertsInit ==
    /\ now = 1
    /\ present \in [Resources -> [there : {TRUE}, high : BOOLEAN]]
    /\ sample = [x \in Resources |-> None]
    /\ rule = [a \in AlertRules |-> [live |-> TRUE, enabled |-> TRUE, triggered |-> 0]]
    /\ round = [m \in Rounds |-> NewRound]
    /\ sent = {}
    /\ trouble = [count |-> 0, lost |-> {}]

Trouble == trouble.count < MaxTroubles /\ trouble' = [trouble EXCEPT !.count = @ + 1]
Step(m, stage) == round' = [round EXCEPT ![m].stage = stage]

-----------------------------------------------------------------------------
\* Nexus: usage rises or falls, a repository goes or comes.
UsageChanges(x) ==
    /\ Trouble
    /\ \E there, high \in BOOLEAN : present' = [present EXCEPT ![x] = [there |-> there, high |-> high]]
    /\ UNCHANGED <<now, sample, rule, round, sent>>

UpdateAlert(a) ==
    /\ rule[a].live /\ Trouble
    /\ rule' = [rule EXCEPT ![a].enabled = ~@]
    /\ UNCHANGED <<now, present, sample, round, sent>>

DeleteAlert(a) ==
    /\ rule[a].live /\ Trouble
    /\ rule' = [rule EXCEPT ![a].live = FALSE]
    /\ UNCHANGED <<now, present, sample, round, sent>>

-----------------------------------------------------------------------------
BeginRound(m) ==
    /\ round[m].stage = "idle"
    /\ round' = [round EXCEPT ![m] = [NewRound EXCEPT !.stage = "repos", !.began = now]]
    /\ UNCHANGED <<now, present, sample, rule, sent, trouble>>

Sampled(resources, old) ==
    [x \in Resources |-> IF x \in resources /\ present[x].there
                         THEN [at |-> now, high |-> present[x].high] ELSE old[x]]
Trimmed(samples) == [x \in Resources |-> IF samples[x].at + KeepFor < now THEN None ELSE samples[x]]

\* Listing or walking failed: the round ends.  A job's second try is a new round.
CollectFails(m) ==
    /\ round[m].stage = "repos" /\ Trouble
    /\ round' = [round EXCEPT ![m] = NewRound]
    /\ UNCHANGED <<now, present, sample, rule, sent>>

\* The samples and the trimming of old ones are one commit.
CollectOnce(m) ==
    /\ round[m].stage = "repos"
    /\ sample' = IF \E x \in Repos : present[x].there THEN Trimmed(Sampled(Repos, sample)) ELSE sample
    /\ Step(m, "blobstores")
    /\ UNCHANGED <<now, present, rule, sent, trouble>>

\* Unlike the repositories, blobstores that cannot be read end nothing.
CollectBlobstoreMetrics(m) ==
    /\ round[m].stage = "blobstores"
    /\ \/ sample' = Sampled(Blobstores, sample) /\ UNCHANGED trouble
       \/ Trouble /\ UNCHANGED sample
    /\ Step(m, "snapshot")
    /\ UNCHANGED <<now, present, rule, sent>>

\* The latest stored sample of each resource, however old it is.
Snapshot(samples) == samples

ReadSnapshot(m) ==
    /\ round[m].stage = "snapshot"
    /\ round' = [round EXCEPT ![m].stage = "evaluating", ![m].seen = Snapshot(sample),
                              ![m].todo = {a \in AlertRules : rule[a].live /\ rule[a].enabled}]
    /\ UNCHANGED <<now, present, sample, rule, sent, trouble>>

\* _evaluate_rule: the first match fires, and no more of them this round.
Matching(m, a) == {x \in Watches[a] : round[m].seen[x].high}

EvaluateRule(m) ==
    /\ round[m].stage = "evaluating"
    /\ \E a \in round[m].todo :
         \/ /\ Matching(m, a) = {}
            /\ round' = [round EXCEPT ![m].todo = @ \ {a}]
            /\ UNCHANGED sent
         \/ \E x \in Matching(m, a) :
              /\ sent' = sent \union {[rule |-> a, by |-> m, began |-> round[m].began,
                                       sampled |-> round[m].seen[x].at]}
              /\ round' = [round EXCEPT ![m].todo = @ \ {a}, ![m].fired = @ \union {a}]
    /\ UNCHANGED <<now, present, sample, rule, trouble>>

\* A fault: only rules that are still enabled are recorded.
RecordedIfEnabled(m, a) == a \in round[m].fired /\ rule[a].enabled

\* One commit for every rule that fired, after the last webhook.  It may be
\* refused when one of them was deleted meanwhile.
Recorded(m, a) == a \in round[m].fired

EndRound(m) ==
    /\ round[m].stage = "evaluating" /\ round[m].todo = {}
    /\ \/ /\ rule' = [a \in AlertRules |-> IF Recorded(m, a) /\ rule[a].live
                                           THEN [rule[a] EXCEPT !.triggered = now] ELSE rule[a]]
          /\ UNCHANGED trouble
       \/ /\ \E a \in round[m].fired : ~rule[a].live
          /\ trouble' = [trouble EXCEPT !.lost = @ \union {round[m].began}]
          /\ UNCHANGED rule
    /\ round' = [round EXCEPT ![m] = NewRound]
    /\ UNCHANGED <<now, present, sample, sent>>

\* Cancelled or restarted: webhooks are out, nothing is recorded.
CancelRound(m) ==
    /\ round[m].stage # "idle" /\ trouble.count < MaxTroubles
    /\ trouble' = [count |-> trouble.count + 1, lost |-> trouble.lost \union {round[m].began}]
    /\ round' = [round EXCEPT ![m] = NewRound]
    /\ UNCHANGED <<now, present, sample, rule, sent>>

TimePasses ==
    /\ now < MaxNow /\ now' = now + 1
    /\ UNCHANGED <<present, sample, rule, round, sent, trouble>>

AlertsNext ==
    \/ \E x \in Resources : UsageChanges(x)
    \/ \E a \in AlertRules : UpdateAlert(a) \/ DeleteAlert(a)
    \/ \E m \in Rounds : \/ BeginRound(m) \/ CollectFails(m) \/ CollectOnce(m) \/ CollectBlobstoreMetrics(m)
                         \/ ReadSnapshot(m) \/ EvaluateRule(m) \/ EndRound(m) \/ CancelRound(m)
    \/ TimePasses

AlertsSpec == AlertsInit /\ [][AlertsNext]_alertVars

-----------------------------------------------------------------------------
AlertsTyped ==
    /\ now \in 1..MaxNow
    /\ \A m \in Rounds : /\ round[m].stage \in {"idle", "repos", "blobstores", "snapshot", "evaluating"}
                         /\ round[m].todo \union round[m].fired \subseteq AlertRules
    /\ \A x \in Resources : sample[x].at \in 0..MaxNow

(* A webhook that went out leaves its trace: once its round is over, the    *)
(* rule's last_triggered_at is no older than the round, whoever edits the   *)
(* rule meanwhile, unless the round was cut off or its commit refused.      *)
NotifiedMeansRecorded ==
    \A w \in sent :
        \/ round[w.by].began = w.began /\ round[w.by].stage # "idle"
        \/ ~rule[w.rule].live \/ w.began \in trouble.lost
        \/ rule[w.rule].triggered >= w.began
=============================================================================
