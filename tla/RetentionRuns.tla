---------------------------- MODULE RetentionRuns ----------------------------
(***************************************************************************)
(* Retention policies: their rows (routers/retention.py), the poll and the *)
(* daily sweep that enqueue runs (services/retention.py, main.py), and the *)
(* run itself: list the repository's components, pick by age and by rank   *)
(* within each image, delete them one by one in Nexus, compact.  Runs      *)
(* overlap with each other, with pushes, with deletions from the dashboard *)
(* and with edits of the policy; the row a run reads, it reads once.  The  *)
(* clock counts days.                                                      *)
(***************************************************************************)
EXTENDS Naturals, FiniteSets

CONSTANTS Components,            \* components, numbered as Nexus lists them
          Repositories, RepoOf,  \* repositories, and each component's
          ImageOf,               \* _group_key
          Undatable,             \* those whose timestamp this code cannot parse
          Policies, Sweeps,      \* policies, and the run_retention jobs in their order
          Everyone,              \* the scope of a sweep over every policy
          Nobody, User,          \* who removed a component, besides a policy
          Limits,                \* what keep_last_n and, but for 0, delete_older_than_days may be
          Undated, Unset, MaxDay, MaxChanges

ASSUME RetentionAssumption == /\ Components \subseteq Nat /\ IsFiniteSet(Components)
                              /\ Sweeps = 1..Cardinality(Sweeps) /\ Limits \subseteq Nat /\ MaxDay \in Nat
                              /\ {Undated, Unset} \intersect Nat = {}
                              /\ Everyone \notin Policies /\ {Nobody, User} \intersect Policies = {}
                              /\ Nobody # User

VARIABLES day,
          nexus,     \* each component: in its repository, its date, who removed it under which rule
          policy,    \* the RetentionPolicy rows, and the rules each has had
          sweep,     \* each run_retention job, with the rows it has read
          duePoll,   \* poll_due_policies between its query and its commit
          changes    \* changes made from outside so far

retentionVars == <<day, nexus, policy, sweep, duePoll, changes>>

NewSweep == [stage |-> "none", scope |-> Everyone, dry |-> FALSE, todo |-> {}, now |-> Everyone,
             targets |-> {}]
NoPoll == [rows |-> {}, fired |-> {}, busy |-> FALSE, at |-> 0]

\* What a policy asks: of which repository, how many versions to keep, and for how many
\* days.  _validate: one of the two limits at least.
Rules == {r \in [repo : Repositories, keep : {Unset} \union Limits, age : {Unset} \union (Limits \ {0})] :
             r.keep # Unset \/ r.age # Unset}

RetentionInit ==
    /\ day = 0
    /\ nexus = [c \in Components |-> [there |-> FALSE, date |-> Undated, by |-> Nobody, under |-> Unset]]
    /\ \E rule \in [Policies -> Rules] :
         policy = [p \in Policies |-> [live |-> TRUE, enabled |-> TRUE, rule |-> rule[p], had |-> {rule[p]},
                                       interval |-> Unset, next |-> Unset]]
    /\ sweep = [j \in Sweeps |-> NewSweep]
    /\ duePoll = NoPoll /\ changes = 0

Change == changes < MaxChanges /\ changes' = changes + 1
Runnable(p) == policy[p].live /\ policy[p].enabled
Go(j, stage) == sweep' = [sweep EXCEPT ![j].stage = stage]
Queue(j, scope, dry) ==
    sweep' = [sweep EXCEPT ![j].stage = "queued", ![j].scope = scope, ![j].dry = dry]
Begin(j, todo) == sweep' = [sweep EXCEPT ![j].stage = "next", ![j].todo = todo]
\* Jobs are taken in order.
Unused(j) == sweep[j].stage = "none" /\ \A i \in 1..j - 1 : sweep[i].stage # "none"
Ends(j, stage) == sweep' = [sweep EXCEPT ![j] = [NewSweep EXCEPT !.stage = stage]]

-----------------------------------------------------------------------------
\* Nexus: a push.
Push(c) ==
    /\ ~nexus[c].there /\ nexus[c].by = Nobody
    /\ nexus' = [nexus EXCEPT ![c] = [there |-> TRUE, date |-> IF c \in Undatable THEN Undated ELSE day,
                                      by |-> Nobody, under |-> Unset]]
    /\ UNCHANGED <<day, policy, sweep, duePoll, changes>>

Remove(c, who, rule) ==
    nexus' = [nexus EXCEPT ![c] = [there |-> FALSE, date |-> @.date, by |-> who, under |-> rule]]

\* Someone deletes an image from the dashboard.
DeleteComponents(c) ==
    /\ nexus[c].there /\ Change
    /\ Remove(c, User, Unset)
    /\ UNCHANGED <<day, policy, sweep, duePoll>>

\* One PATCH: any of the switch, the repository, the limits and the cadence, from which
\* the next moment is computed anew.
UpdatePolicy(p) ==
    /\ policy[p].live /\ Change
    /\ \E e \in BOOLEAN, r \in Rules,
          c \in {[at |-> policy[p].interval, next |-> policy[p].next], [at |-> Unset, next |-> Unset],
                [at |-> 1, next |-> day + 1]} :
         policy' = [policy EXCEPT ![p] = [live |-> TRUE, enabled |-> e, rule |-> r, had |-> @.had \union {r},
                                          interval |-> c.at, next |-> c.next]]
    /\ UNCHANGED <<day, nexus, sweep, duePoll>>

DeletePolicy(p) ==
    /\ policy[p].live /\ Change
    /\ policy' = [policy EXCEPT ![p].live = FALSE]
    /\ UNCHANGED <<day, nexus, sweep, duePoll>>

RunPolicyNow(p) ==
    /\ policy[p].live /\ Change
    /\ \E j \in Sweeps, d \in BOOLEAN :
         /\ Unused(j)
         /\ Queue(j, p, d)
    /\ UNCHANGED <<day, nexus, policy, duePoll>>

\* RETENTION_RUN_AT, or the button that runs all.
EnqueueSweep ==
    /\ \E j \in Sweeps : Unused(j) /\ Queue(j, Everyone, FALSE)
    /\ UNCHANGED <<day, nexus, policy, duePoll, changes>>

PollDuePolicies ==
    LET due == {p \in Policies : Runnable(p) /\ policy[p].interval # Unset /\ policy[p].next <= day}
    IN  /\ ~duePoll.busy /\ due # {}
        /\ duePoll' = [rows |-> due, fired |-> {}, busy |-> TRUE, at |-> day]
        /\ UNCHANGED <<day, nexus, policy, sweep, changes>>

PolicyFires(p) ==
    /\ p \in duePoll.rows
    /\ \E j \in Sweeps : Unused(j) /\ Queue(j, p, FALSE)
    /\ duePoll' = [duePoll EXCEPT !.rows = @ \ {p}, !.fired = @ \union {p}]
    /\ UNCHANGED <<day, nexus, policy, changes>>

PoliciesAdvance ==
    /\ duePoll.busy /\ duePoll.rows = {}
    /\ policy' = [p \in Policies |-> IF p \in duePoll.fired THEN [policy[p] EXCEPT !.next = duePoll.at + 1]
                                     ELSE policy[p]]
    /\ duePoll' = NoPoll
    /\ UNCHANGED <<day, nexus, sweep, changes>>

-----------------------------------------------------------------------------
\* What a run reads of a policy, and keeps.
Row(p) == [id |-> p, rule |-> policy[p].rule]

\* A sweep reads the enabled policies without a cadence of their own.
BeginSweep(j) ==
    /\ sweep[j].stage = "queued"
    /\ LET shared == {p \in Policies : Runnable(p) /\ policy[p].interval = Unset}
           p == sweep[j].scope
       IN  IF p = Everyone THEN Begin(j, {Row(q) : q \in shared})
           ELSE IF policy[p].live THEN Begin(j, {Row(p)})
           ELSE Ends(j, "failed")
    /\ UNCHANGED <<day, nexus, policy, duePoll, changes>>

\* The rows were read once: what changes meanwhile is not looked at again.
NextPolicy(j) ==
    /\ sweep[j].stage = "next"
    /\ \/ /\ sweep[j].todo = {} /\ Ends(j, "done")
       \/ \E row \in sweep[j].todo :
            sweep' = [sweep EXCEPT ![j].stage = "listing", ![j].todo = @ \ {row}, ![j].now = row]
    /\ UNCHANGED <<day, nexus, policy, duePoll, changes>>

\* Newest first, the undated last; the sort is stable, and Nexus lists in one order.
Level(d, c) == nexus[d].date = nexus[c].date
Ahead(d, c) ==
    \/ nexus[d].date # Undated /\ (nexus[c].date = Undated \/ nexus[d].date > nexus[c].date)
    \/ Level(d, c) /\ d < c

ExceedsAge(c, days) == nexus[c].date # Undated /\ nexus[c].date + days < day

SameGroup(c, d) == ImageOf[c] = ImageOf[d]

BeyondKept(listed, n) ==
    {c \in listed : Cardinality({d \in listed : SameGroup(d, c) /\ Ahead(d, c)}) >= n}

AgedOut(c, rule) == rule.age # Unset /\ ExceedsAge(c, rule.age)

Selected(rule, listed) ==
    {c \in listed : AgedOut(c, rule) \/ (rule.keep # Unset /\ c \in BeyondKept(listed, rule.keep))}

\* One listing, page after page; a failed one ends this policy or this run.
SelectForDeletion(j) ==
    /\ sweep[j].stage = "listing"
    /\ \/ LET rule == sweep[j].now.rule
              listed == {c \in Components : nexus[c].there /\ RepoOf[c] = rule.repo}
          IN  sweep' = [sweep EXCEPT ![j].stage = "deleting",
                          ![j].targets = IF sweep[j].dry THEN {} ELSE Selected(rule, listed)]
       \/ sweep[j].scope = Everyone /\ Go(j, "next")
       \/ sweep[j].scope # Everyone /\ Ends(j, "failed")
    /\ UNCHANGED <<day, nexus, policy, duePoll, changes>>

\* Each failure is recorded with its reason and the next one is tried.
DeleteTarget(j) ==
    /\ sweep[j].stage = "deleting"
    /\ \E c \in sweep[j].targets :
         /\ \/ nexus[c].there /\ Remove(c, sweep[j].now.id, sweep[j].now.rule)
            \/ UNCHANGED nexus
         /\ sweep' = [sweep EXCEPT ![j].targets = @ \ {c}]
    /\ UNCHANGED <<day, policy, duePoll, changes>>

\* Compaction, if anything went, moves nothing here; last_run_at cannot be stored for a policy
\* deleted meanwhile, which ends a run of its own and may end a sweep.
FinishPolicy(j) ==
    LET p == sweep[j].now.id
        whole == sweep[j].scope = Everyone
    IN  /\ sweep[j].stage = "deleting" /\ sweep[j].targets = {}
        /\ \/ /\ policy[p].live \/ sweep[j].dry
              /\ Go(j, "next")
           \/ /\ ~policy[p].live /\ whole
              /\ Go(j, "next")
           \/ /\ ~policy[p].live /\ ~sweep[j].dry
              /\ Ends(j, "failed")
        /\ UNCHANGED <<day, nexus, policy, duePoll, changes>>

\* A cancel or a restart; nothing takes the run up again.
AbortSweep(j) ==
    /\ sweep[j].stage \in {"next", "listing", "deleting"} /\ Change
    /\ Ends(j, "failed")
    /\ UNCHANGED <<day, nexus, policy, duePoll>>

NextDay ==
    /\ day < MaxDay /\ day' = day + 1
    /\ UNCHANGED <<nexus, policy, sweep, duePoll, changes>>

RetentionNext ==
    \/ \E c \in Components : Push(c) \/ DeleteComponents(c)
    \/ \E p \in Policies : UpdatePolicy(p) \/ DeletePolicy(p) \/ RunPolicyNow(p) \/ PolicyFires(p)
    \/ \E j \in Sweeps : \/ BeginSweep(j) \/ NextPolicy(j) \/ SelectForDeletion(j)
                         \/ DeleteTarget(j) \/ FinishPolicy(j) \/ AbortSweep(j)
    \/ EnqueueSweep \/ PollDuePolicies \/ PoliciesAdvance \/ NextDay

-----------------------------------------------------------------------------
RetentionTyped ==
    /\ day \in 0..MaxDay
    /\ \A c \in Components : nexus[c].by \in Policies \union {Nobody, User}
    /\ \A p \in Policies : policy[p].rule \in policy[p].had /\ policy[p].had \subseteq Rules
    /\ \A j \in Sweeps : /\ sweep[j].stage \in {"none", "queued", "next", "listing", "deleting",
                                                "done", "failed"}
                         /\ sweep[j].targets \subseteq Components
                         /\ sweep[j].todo \subseteq [id : Policies, rule : Rules]
    /\ duePoll.rows \subseteq Policies

Pushed(c) == nexus[c].there \/ nexus[c].by # Nobody

\* The versions of its image that were ever there and rank higher.
Higher(c) == {d \in Components : /\ RepoOf[d] = RepoOf[c] /\ ImageOf[d] = ImageOf[c]
                                 /\ Pushed(d) /\ Ahead(d, c)}

\* Removed for its rank alone, under a rule that keeps n or more.
RankedOut(c, n) ==
    /\ nexus[c].by \in Policies /\ ~AgedOut(c, nexus[c].under)
    /\ nexus[c].under.keep # Unset /\ nexus[c].under.keep >= n

(* Whatever a policy removed, it removed by a rule it really had, of that    *)
(* rule's repository: the component's age is known and beyond the limit, or *)
(* as many versions of that very image as the rule keeps rank higher and    *)
(* were themselves never removed for their rank by any policy that keeps as *)
(* many; with runs overlapping, policies edited, switched to another        *)
(* repository or deleted under them, pushes between listing and deleting,   *)
(* and others deleting from the same repository.                            *)
EveryRemovalIsEarned ==
    \A c \in Components :
        nexus[c].by \in Policies =>
            LET rule == nexus[c].under
            IN  /\ rule \in policy[nexus[c].by].had /\ rule.repo = RepoOf[c]
                /\ \/ AgedOut(c, rule)
                   \/ /\ rule.keep # Unset
                      /\ Cardinality({d \in Higher(c) : ~RankedOut(d, rule.keep)}) >= rule.keep
=============================================================================
