------------------------- MODULE Maintenance_proofs -------------------------
(***************************************************************************)
(* What the background loops and the stored settings keep true, for any    *)
(* schedules, runs, policies, rules, requests and bounds: the live client  *)
(* is what was saved, a webhook that went out is recorded, a successful    *)
(* run has its archive, nothing is removed but by its rule, and a schedule *)
(* fires at the first moment its cadence means, and there once.            *)
(***************************************************************************)
EXTENDS MCMaintenance, FiniteSetTheorems, WellFoundedInduction, TLAPS

(* The connections.  While no two PUTs overlapped since the last start, the *)
(* one that has not yet reached the client is alone, and its row is in      *)
(* place, sealed with the key in use.                                       *)

Environment == [conn : [Kinds -> Conn \union {Unconfigured}], key : Keys]
Pending == [doing : {"nothing", "creating"}, with : {Unconfigured}] \union [doing : {"saving"}, with : Conn]

SettingsTyped ==
    /\ env \in Environment
    /\ DOMAIN stored = Kinds
    /\ request \in [Clients -> Pending]
    /\ counts \in [saves : Nat, starts : Nat, overlapped : BOOLEAN, since : BOOLEAN]
    /\ webhook = [secret |-> webhook.secret, was |-> webhook.was, shown |-> webhook.shown]

\* A client that is saving, its row and the others.
SavedByOne ==
    ~counts.overlapped =>
      \A r \in Clients : request[r].doing = "saving" =>
        /\ \A q \in Clients : request[q].doing = "saving" => q = r
        /\ stored["nexus"] = StoredAs(request[r].with)

SecretKept == webhook.secret # Absent => webhook.secret \in webhook.was

ConnInv == SettingsTyped /\ SavedByOne /\ LiveIsWhatWasSaved /\ SecretKept /\ ShownSecretsWereStored

LEMMA ConnStart == ConnInit => ConnInv
<1> SUFFICES ASSUME ConnInit PROVE ConnInv
  OBVIOUS
<1>1. SettingsTyped
  BY DEF ConnInit, SettingsTyped, Environment, Pending, Quiet
<1>2. SavedByOne /\ LiveIsWhatWasSaved /\ SecretKept /\ ShownSecretsWereStored
  BY DEF ConnInit, SavedByOne, LiveIsWhatWasSaved, SecretKept, ShownSecretsWereStored, Quiet, Kinds
<1>. QED  BY <1>1, <1>2 DEF ConnInv

\* What leaves the Nexus row, the client and who is saving alone.
LEMMA OtherSettingsKeep ==
    ASSUME ConnInv, SettingsTyped', env' = env, live' = live, stored'["nexus"] = stored["nexus"],
           counts'.overlapped = counts.overlapped, counts'.since = counts.since,
           \A r \in Clients : (request'[r].doing = "saving") <=> (request[r].doing = "saving"),
           \A r \in Clients : request[r].doing = "saving" => request'[r] = request[r]
    PROVE  SavedByOne' /\ LiveIsWhatWasSaved'
<1>1. SavedByOne'
  BY DEF ConnInv, SavedByOne, StoredAs, Sealed
<1>2. SavingNow' <=> SavingNow
  BY DEF SavingNow
<1>3. Effective("nexus", env)' = Effective("nexus", env)
  BY DEF Effective
<1>4. LiveIsWhatWasSaved'
  BY <1>2, <1>3 DEF ConnInv, LiveIsWhatWasSaved
<1>. QED  BY <1>1, <1>4

LEMMA SaveKeeps ==
    ASSUME ConnInv, NEW c \in Conn,
           SaveSonarConnection(c) \/ SaveGithubAppConfig(c) \/ SaveTelegramConnection(c)
    PROVE  ConnInv'
<1>1. PICK k \in {"sonar", "github", "telegram"} : Save(k, c)
  BY DEF SaveSonarConnection, SaveGithubAppConfig, SaveTelegramConnection
<1>2. SettingsTyped' /\ counts'.overlapped = counts.overlapped /\ counts'.since = counts.since
  BY <1>1 DEF Save, ConnInv, SettingsTyped
<1>3. stored'["nexus"] = stored["nexus"]
  BY <1>1 DEF Save, ConnInv, SettingsTyped, Kinds
<1>4. SavedByOne' /\ LiveIsWhatWasSaved'
  BY <1>1, <1>2, <1>3, OtherSettingsKeep DEF Save
<1>5. SecretKept' /\ ShownSecretsWereStored'
  BY <1>1 DEF Save, ConnInv, SecretKept, ShownSecretsWereStored
<1>. QED  BY <1>2, <1>4, <1>5 DEF ConnInv

LEMMA SaveNexusKeeps ==
    ASSUME ConnInv, NEW r \in Clients, NEW c \in Conn, SaveNexusConnection(r, c)
    PROVE  ConnInv'
<1>1. /\ request' = [request EXCEPT ![r] = [doing |-> "saving", with |-> c]]
      /\ stored' = [stored EXCEPT !["nexus"] = StoredAs(c)]
      /\ UNCHANGED <<env, live, webhook>>
  BY DEF SaveNexusConnection
<1>2. SettingsTyped'
  <2>1. counts' \in [saves : Nat, starts : Nat, overlapped : BOOLEAN, since : BOOLEAN]
    <3>1. PICK o \in BOOLEAN :
            o = (counts.overlapped \/ \E q \in Clients : request[q].doing = "saving")
      BY Zenon
    <3>2. counts' = [counts EXCEPT !.saves = @ + 1, !.since = TRUE, !.overlapped = o]
      BY <3>1 DEF SaveNexusConnection
    <3>3. counts' = [saves |-> counts.saves + 1, starts |-> counts.starts, overlapped |-> o, since |-> TRUE]
      BY <3>2 DEF ConnInv, SettingsTyped
    <3>4. counts.saves + 1 \in Nat /\ counts.starts \in Nat
      BY DEF ConnInv, SettingsTyped
    <3>. QED  BY <3>3, <3>4, Zenon
  <2>2. request' \in [Clients -> Pending]
    BY <1>1 DEF ConnInv, SettingsTyped, Pending
  <2>. QED  BY <1>1, <2>1, <2>2 DEF ConnInv, SettingsTyped
<1>3. request'[r] = [doing |-> "saving", with |-> c] /\ \A q \in Clients \ {r} : request'[q] = request[q]
  BY <1>1 DEF ConnInv, SettingsTyped
<1>4. SavedByOne'
  <2> SUFFICES ASSUME ~counts'.overlapped, NEW q \in Clients, request'[q].doing = "saving"
               PROVE  q = r
    <3>1. stored'["nexus"] = [url |-> c.url, sealed |-> [secret |-> c.secret, key |-> env'.key]]
      BY <1>1 DEF ConnInv, SettingsTyped, Kinds, StoredAs, Sealed
    <3>. QED  BY <1>3, <3>1 DEF SavedByOne, StoredAs, Sealed
  <2>1. ~\E x \in Clients : request[x].doing = "saving"
    <3>1. counts'.overlapped = (counts.overlapped \/ \E x \in Clients : request[x].doing = "saving")
      BY DEF SaveNexusConnection, ConnInv, SettingsTyped
    <3>. QED  BY <3>1
  <2>. QED  BY <1>3, <2>1
<1>5. LiveIsWhatWasSaved'
  BY <1>3 DEF LiveIsWhatWasSaved, SavingNow
<1>6. SecretKept' /\ ShownSecretsWereStored'
  BY <1>1 DEF ConnInv, SecretKept, ShownSecretsWereStored
<1>. QED  BY <1>2, <1>4, <1>5, <1>6 DEF ConnInv

LEMMA ReconfigureKeeps ==
    ASSUME ConnInv, NEW r \in Clients, Reconfigure(r)
    PROVE  ConnInv'
<1>1. /\ request[r].doing = "saving" /\ live' = request[r].with
      /\ request' = [request EXCEPT ![r] = Quiet]
      /\ UNCHANGED <<env, stored, webhook, counts>>
  BY DEF Reconfigure
<1>2. SettingsTyped' /\ request[r].with \in Conn
  BY <1>1 DEF ConnInv, SettingsTyped, Pending, Quiet
<1>3. request'[r].doing = "nothing" /\ \A q \in Clients \ {r} : request'[q] = request[q]
  BY <1>1 DEF ConnInv, SettingsTyped, Quiet
<1>4. SavedByOne'
  BY <1>1, <1>3 DEF ConnInv, SavedByOne, StoredAs, Sealed
<1>5. LiveIsWhatWasSaved'
  <2> SUFFICES ASSUME ~counts.overlapped, stored["nexus"] # Absent
               PROVE  Effective("nexus", env)' = request[r].with
    BY <1>1 DEF LiveIsWhatWasSaved
  <2>1. stored["nexus"] = StoredAs(request[r].with)
    BY <1>1 DEF ConnInv, SavedByOne
  <2>2. Effective("nexus", env)' = [url |-> request[r].with.url, secret |-> request[r].with.secret]
    BY <1>1, <2>1 DEF Effective, StoredAs, Sealed, Unsealed
  <2>. QED  BY <1>2, <2>2 DEF Conn
<1>6. SecretKept' /\ ShownSecretsWereStored'
  BY <1>1 DEF ConnInv, SecretKept, ShownSecretsWereStored
<1>. QED  BY <1>2, <1>4, <1>5, <1>6 DEF ConnInv

LEMMA RestartKeepsConnections == ASSUME ConnInv, Start PROVE ConnInv'
<1>1. PICK key \in Keys, c \in {env.conn["nexus"], Unconfigured} :
         /\ env' = [env EXCEPT !.key = key, !.conn["nexus"] = c]
         /\ live' = LoadNexusConnection(env')
  BY DEF Start
<1>2. /\ request' = [r \in Clients |-> Quiet] /\ UNCHANGED <<stored, webhook>>
      /\ counts' = [counts EXCEPT !.starts = @ + 1, !.overlapped = FALSE, !.since = FALSE]
  BY DEF Start
<1>3. SettingsTyped'
  <2>1. env' \in Environment
    BY <1>1 DEF ConnInv, SettingsTyped, Environment, Kinds
  <2>2. counts' \in [saves : Nat, starts : Nat, overlapped : BOOLEAN, since : BOOLEAN]
    <3>1. counts' = [saves |-> counts.saves, starts |-> counts.starts + 1, overlapped |-> FALSE, since |-> FALSE]
      BY <1>2 DEF ConnInv, SettingsTyped
    <3>2. counts.saves \in Nat /\ counts.starts + 1 \in Nat
      BY DEF ConnInv, SettingsTyped
    <3>. QED  BY <3>1, <3>2, Zenon
  <2>3. request' \in [Clients -> Pending]
    BY <1>2 DEF Pending, Quiet
  <2>. QED  BY <1>2, <2>1, <2>2, <2>3 DEF ConnInv, SettingsTyped
<1>4. SavedByOne'
  BY <1>2 DEF SavedByOne, Quiet
<1>5. ~counts'.since
  BY <1>2 DEF ConnInv, SettingsTyped
<1>6. LiveIsWhatWasSaved'
  <2>1. Effective("nexus", env)' = Effective("nexus", env')
    BY <1>2 DEF Effective
  <2>. QED  BY <1>1, <1>5, <2>1 DEF LiveIsWhatWasSaved, LoadNexusConnection, Differs
<1>7. SecretKept' /\ ShownSecretsWereStored'
  BY <1>2 DEF ConnInv, SecretKept, ShownSecretsWereStored
<1>. QED  BY <1>3, <1>4, <1>6, <1>7 DEF ConnInv

LEMMA WebhookSecretKeeps ==
    ASSUME ConnInv,
           RotateWebhookSecret \/ \E r \in Clients : ReadWebhookSecret(r) \/ CreateWebhookSecret(r)
    PROVE  ConnInv'
<1>1. CASE RotateWebhookSecret
  <2>1. SettingsTyped' /\ counts'.overlapped = counts.overlapped /\ counts'.since = counts.since
    BY <1>1 DEF RotateWebhookSecret, ConnInv, SettingsTyped
  <2>2. SavedByOne' /\ LiveIsWhatWasSaved'
    BY <1>1, <2>1, OtherSettingsKeep DEF RotateWebhookSecret
  <2>3. SecretKept' /\ ShownSecretsWereStored'
    BY <1>1 DEF RotateWebhookSecret, ConnInv, SecretKept, ShownSecretsWereStored
  <2>. QED  BY <2>1, <2>2, <2>3 DEF ConnInv
<1>2. ASSUME NEW r \in Clients, ReadWebhookSecret(r) \/ CreateWebhookSecret(r)
      PROVE  ConnInv'
  <2>1. /\ request[r].doing # "saving" /\ UNCHANGED <<env, stored, live, counts>>
        /\ \/ request' = request
           \/ request' = [request EXCEPT ![r] = [doing |-> "creating", with |-> Unconfigured]]
           \/ request' = [request EXCEPT ![r] = Quiet]
    BY <1>2 DEF ReadWebhookSecret, CreateWebhookSecret, Quiet
  <2>2. /\ request' \in [Clients -> Pending] /\ request'[r].doing # "saving"
        /\ \A q \in Clients \ {r} : request'[q] = request[q]
    BY <2>1 DEF ConnInv, SettingsTyped, Pending, Quiet
  <2>3. webhook' = [secret |-> webhook'.secret, was |-> webhook'.was, shown |-> webhook'.shown]
    BY <1>2 DEF ReadWebhookSecret, CreateWebhookSecret, ConnInv, SettingsTyped
  <2>4. SettingsTyped'
    BY <2>1, <2>2, <2>3 DEF ConnInv, SettingsTyped
  <2>5. SavedByOne' /\ LiveIsWhatWasSaved'
    BY <2>1, <2>2, <2>4, OtherSettingsKeep
  <2>6. SecretKept' /\ ShownSecretsWereStored'
    BY <1>2 DEF ReadWebhookSecret, CreateWebhookSecret, InsertRefused, ConnInv, SettingsTyped,
                SecretKept, ShownSecretsWereStored
  <2>. QED  BY <2>4, <2>5, <2>6 DEF ConnInv
<1>. QED  BY <1>1, <1>2

LEMMA ConnStep == ConnInv /\ [ConnNext]_connVars => ConnInv'
<1> SUFFICES ASSUME ConnInv, [ConnNext]_connVars PROVE ConnInv'
  OBVIOUS
<1>1. CASE UNCHANGED connVars
  <2>1. SettingsTyped'
    BY <1>1 DEF connVars, ConnInv, SettingsTyped
  <2>2. SavedByOne' /\ LiveIsWhatWasSaved'
    BY <1>1, <2>1, OtherSettingsKeep DEF connVars
  <2>. QED
    BY <1>1, <2>1, <2>2 DEF connVars, ConnInv, SecretKept, ShownSecretsWereStored
<1>. QED
  BY <1>1, SaveKeeps, SaveNexusKeeps, ReconfigureKeeps, RestartKeepsConnections, WebhookSecretKeeps
  DEF ConnNext

-----------------------------------------------------------------------------
(* The metric alerts.  While its round is evaluating, a webhook's rule is   *)
(* among those the round will record; afterwards the rule is gone, or the   *)
(* round lost its commit, or the rule was last triggered in it or later.    *)

Shaped(m) == /\ round[m] = [stage |-> round[m].stage, began |-> round[m].began, seen |-> round[m].seen,
                            todo |-> round[m].todo, fired |-> round[m].fired]
             /\ round[m].began \in Nat /\ round[m].began <= now
             /\ round[m].todo \subseteq AlertRules

RoundsTyped ==
    /\ now \in Nat
    /\ DOMAIN round = Rounds /\ \A m \in Rounds : Shaped(m)
    /\ DOMAIN rule = AlertRules
    /\ \A a \in AlertRules : /\ rule[a] = [live |-> rule[a].live, enabled |-> rule[a].enabled,
                                           triggered |-> rule[a].triggered]
                             /\ rule[a].triggered \in Nat /\ rule[a].triggered <= now
    /\ trouble = [count |-> trouble.count, lost |-> trouble.lost]
    /\ \A w \in sent : w.rule \in AlertRules /\ w.by \in Rounds /\ w.began \in Nat /\ w.began <= now

Pursued(w) == round[w.by].stage = "evaluating" /\ round[w.by].began = w.began /\ w.rule \in round[w.by].fired
Settled(w) == ~rule[w.rule].live \/ w.began \in trouble.lost \/ rule[w.rule].triggered >= w.began

AlertInv == RoundsTyped /\ \A w \in sent : Pursued(w) \/ Settled(w)

LEMMA NewRoundShape ==
    /\ NewRound.stage = "idle" /\ NewRound.began = 0 /\ NewRound.todo = {}
    /\ NewRound = [stage |-> NewRound.stage, began |-> NewRound.began, seen |-> NewRound.seen,
                   todo |-> NewRound.todo, fired |-> NewRound.fired]
  BY DEF NewRound

LEMMA AlertsStart == AlertsInit => AlertInv
<1> SUFFICES ASSUME AlertsInit PROVE AlertInv
  OBVIOUS
<1>1. now = 1 /\ sent = {} /\ trouble = [count |-> 0, lost |-> {}]
  BY DEF AlertsInit
<1>2. DOMAIN round = Rounds /\ \A m \in Rounds : Shaped(m)
  BY <1>1, NewRoundShape DEF AlertsInit, Shaped
<1>3. DOMAIN rule = AlertRules
      /\ \A a \in AlertRules : rule[a] = [live |-> TRUE, enabled |-> TRUE, triggered |-> 0]
  BY DEF AlertsInit
<1>. QED  BY <1>1, <1>2, <1>3 DEF AlertInv, RoundsTyped

(* What a round records, and what ends it, is all that moves a webhook from *)
(* pursued to settled; nothing unsettles one.                               *)
LEMMA SettledStays ==
    ASSUME AlertInv, RoundsTyped', NEW w \in sent, Settled(w),
           \A a \in AlertRules : (rule'[a].live => rule[a].live) /\ rule'[a].triggered >= rule[a].triggered,
           trouble.lost \subseteq trouble'.lost
    PROVE  Settled(w)'
<1>1. w.rule \in AlertRules /\ w.began \in Nat
  BY DEF AlertInv, RoundsTyped
<1>2. rule[w.rule].triggered \in Nat /\ rule'[w.rule].triggered \in Nat
  BY <1>1 DEF AlertInv, RoundsTyped
<1>. QED  BY <1>1, <1>2 DEF Settled

\* A step that sends nothing and leaves the rounds that evaluate alone.
LEMMA OtherRoundsKeep ==
    ASSUME AlertInv, RoundsTyped', sent' = sent,
           \A m \in Rounds : round[m].stage = "evaluating" => round'[m] = round[m],
           \A a \in AlertRules : (rule'[a].live => rule[a].live) /\ rule'[a].triggered >= rule[a].triggered,
           trouble.lost \subseteq trouble'.lost
    PROVE  AlertInv'
<1> SUFFICES ASSUME NEW w \in sent PROVE Pursued(w)' \/ Settled(w)'
  BY DEF AlertInv
<1>1. CASE Pursued(w)
  BY <1>1 DEF Pursued, AlertInv, RoundsTyped
<1>2. CASE Settled(w)
  BY <1>2, SettledStays
<1>. QED  BY <1>1, <1>2 DEF AlertInv

LEMMA OutsideKeepsAlerts ==
    ASSUME AlertInv,
           \/ TimePasses \/ \E x \in Resources : UsageChanges(x)
           \/ \E a \in AlertRules : UpdateAlert(a) \/ DeleteAlert(a)
    PROVE  AlertInv'
<1>1. /\ round' = round /\ sent' = sent /\ (trouble' = trouble \/ trouble' = [trouble EXCEPT !.count = @ + 1])
      /\ (now' = now \/ now' = now + 1)
      /\ \/ rule' = rule
         \/ \E a \in AlertRules : \/ rule' = [rule EXCEPT ![a].enabled = ~@]
                                  \/ rule' = [rule EXCEPT ![a].live = FALSE]
  BY DEF TimePasses, UsageChanges, UpdateAlert, DeleteAlert, Trouble
<1>2. trouble' = [count |-> trouble'.count, lost |-> trouble'.lost] /\ trouble'.lost = trouble.lost
  BY <1>1 DEF AlertInv, RoundsTyped
<1>3. /\ DOMAIN rule' = AlertRules
      /\ \A a \in AlertRules : /\ rule'[a] = [live |-> rule'[a].live, enabled |-> rule'[a].enabled,
                                              triggered |-> rule'[a].triggered]
                               /\ rule'[a].triggered = rule[a].triggered /\ (rule'[a].live => rule[a].live)
  BY <1>1 DEF AlertInv, RoundsTyped
<1>4. now' \in Nat /\ now <= now'
  BY <1>1 DEF AlertInv, RoundsTyped
<1>5. RoundsTyped'
  BY <1>1, <1>2, <1>3, <1>4 DEF AlertInv, RoundsTyped, Shaped
<1>6. \A a \in AlertRules : (rule'[a].live => rule[a].live) /\ rule'[a].triggered >= rule[a].triggered
  BY <1>3 DEF AlertInv, RoundsTyped
<1>. QED  BY <1>1, <1>2, <1>5, <1>6, OtherRoundsKeep

\* Up to the snapshot a round has told nobody anything.
LEMMA SamplingKeepsAlerts ==
    ASSUME AlertInv, NEW m \in Rounds,
           \/ BeginRound(m) \/ CollectFails(m) \/ CollectOnce(m) \/ CollectBlobstoreMetrics(m)
           \/ ReadSnapshot(m)
    PROVE  AlertInv'
<1>1. /\ round[m].stage # "evaluating" /\ now' = now /\ sent' = sent /\ rule' = rule
      /\ (trouble' = trouble \/ trouble' = [trouble EXCEPT !.count = @ + 1])
  BY DEF BeginRound, CollectFails, CollectOnce, CollectBlobstoreMetrics, ReadSnapshot, Trouble
<1>2. /\ DOMAIN round' = Rounds /\ \A n \in Rounds \ {m} : round'[n] = round[n]
  BY DEF BeginRound, CollectFails, CollectOnce, CollectBlobstoreMetrics, ReadSnapshot, Step, NewRound,
         AlertInv, RoundsTyped
<1>3. Shaped(m)'
  <2>1. \/ round'[m] \in {NewRound, [NewRound EXCEPT !.stage = "repos", !.began = now],
                          [round[m] EXCEPT !.stage = "blobstores"], [round[m] EXCEPT !.stage = "snapshot"],
                          [round[m] EXCEPT !.stage = "evaluating", !.seen = Snapshot(sample),
                                           !.todo = {a \in AlertRules : rule[a].live /\ rule[a].enabled}]}
    BY DEF BeginRound, CollectFails, CollectOnce, CollectBlobstoreMetrics, ReadSnapshot, Step,
           AlertInv, RoundsTyped
  <2>2. PICK q : q = round'[m]
    OBVIOUS
  <2>3. /\ q = [stage |-> q.stage, began |-> q.began, seen |-> q.seen, todo |-> q.todo, fired |-> q.fired]
        /\ q.began \in Nat /\ q.began <= now /\ q.todo \subseteq AlertRules
    <3>0. now \in Nat /\ Shaped(m)
      BY DEF AlertInv, RoundsTyped
    <3>1. CASE q = NewRound
      BY <3>0, <3>1, NewRoundShape
    <3>2. CASE q = [NewRound EXCEPT !.stage = "repos", !.began = now]
      <4>1. q = [stage |-> "repos", began |-> now, seen |-> NewRound.seen, todo |-> {}, fired |-> NewRound.fired]
        BY <3>2, NewRoundShape
      <4>. QED  BY <3>0, <4>1
    <3>3. CASE q \in {[round[m] EXCEPT !.stage = "blobstores"], [round[m] EXCEPT !.stage = "snapshot"]}
      BY <3>0, <3>3 DEF Shaped
    <3>4. CASE q = [round[m] EXCEPT !.stage = "evaluating", !.seen = Snapshot(sample),
                                    !.todo = {a \in AlertRules : rule[a].live /\ rule[a].enabled}]
      BY <3>0, <3>4 DEF Shaped
    <3>. QED  BY <2>1, <2>2, <3>1, <3>2, <3>3, <3>4
  <2>. QED  BY <1>1, <2>2, <2>3 DEF Shaped
<1>4. \A n \in Rounds : Shaped(n)'
  <2> TAKE n \in Rounds
  <2>1. n # m => round'[n] = round[n] /\ Shaped(n)
    BY <1>2 DEF AlertInv, RoundsTyped
  <2>. QED  BY <1>1, <1>3, <2>1 DEF Shaped
<1>5. trouble' = [count |-> trouble'.count, lost |-> trouble'.lost] /\ trouble'.lost = trouble.lost
  BY <1>1 DEF AlertInv, RoundsTyped
<1>6. RoundsTyped'
  BY <1>1, <1>2, <1>4, <1>5 DEF AlertInv, RoundsTyped
<1>7. \A a \in AlertRules : (rule'[a].live => rule[a].live) /\ rule'[a].triggered >= rule[a].triggered
  BY <1>1 DEF AlertInv, RoundsTyped
<1>. QED  BY <1>1, <1>2, <1>5, <1>6, <1>7, OtherRoundsKeep

LEMMA EvaluateKeeps == ASSUME AlertInv, NEW m \in Rounds, EvaluateRule(m) PROVE AlertInv'
<1>1. /\ round[m].stage = "evaluating" /\ UNCHANGED <<now, rule, trouble>> /\ Shaped(m)
      /\ DOMAIN round' = Rounds /\ \A n \in Rounds \ {m} : round'[n] = round[n]
  BY DEF EvaluateRule, AlertInv, RoundsTyped
<1>2. PICK a \in round[m].todo :
        \/ round' = [round EXCEPT ![m].todo = @ \ {a}] /\ sent' = sent
        \/ /\ round' = [round EXCEPT ![m].todo = @ \ {a}, ![m].fired = @ \union {a}]
           /\ \E x \in Matching(m, a) : sent' = sent \union {[rule |-> a, by |-> m, began |-> round[m].began,
                                                              sampled |-> round[m].seen[x].at]}
  BY DEF EvaluateRule
<1>3. /\ round'[m].stage = "evaluating" /\ round'[m].began = round[m].began
      /\ round[m].fired \subseteq round'[m].fired /\ Shaped(m)'
  BY <1>1, <1>2 DEF AlertInv, RoundsTyped, Shaped
<1>4. \A w \in sent' : \/ w \in sent
                       \/ /\ w.rule = a /\ w.by = m /\ w.began = round[m].began
                          /\ a \in round'[m].fired
  BY <1>1, <1>2 DEF AlertInv, RoundsTyped, Shaped
<1>5. RoundsTyped'
  <2>1. \A n \in Rounds : Shaped(n)'
    BY <1>1, <1>3 DEF AlertInv, RoundsTyped, Shaped
  <2>2. \A w \in sent' : w.rule \in AlertRules /\ w.by \in Rounds /\ w.began \in Nat /\ w.began <= now
    BY <1>1, <1>4 DEF AlertInv, RoundsTyped, Shaped
  <2>. QED  BY <1>1, <2>1, <2>2 DEF AlertInv, RoundsTyped
<1>6. ASSUME NEW w \in sent' PROVE Pursued(w)' \/ Settled(w)'
  <2>1. CASE w \in sent
    <3>1. Pursued(w) => Pursued(w)'
      BY <1>1, <1>3, <2>1 DEF Pursued, AlertInv, RoundsTyped
    <3>2. Settled(w) => Settled(w)'
      BY <1>1 DEF Settled
    <3>. QED  BY <2>1, <3>1, <3>2 DEF AlertInv
  <2>2. CASE w.rule = a /\ w.by = m /\ w.began = round[m].began /\ a \in round'[m].fired
    BY <1>3, <2>2 DEF Pursued
  <2>. QED  BY <1>4, <2>1, <2>2
<1>. QED  BY <1>5, <1>6 DEF AlertInv

\* What ends a round settles what the round pursued.
LEMMA EndKeeps ==
    ASSUME AlertInv, NEW m \in Rounds, EndRound(m) \/ CancelRound(m)
    PROVE  AlertInv'
<1>1. /\ now' = now /\ sent' = sent /\ round' = [round EXCEPT ![m] = NewRound]
      /\ \/ /\ trouble' = trouble
            /\ rule' = [a \in AlertRules |-> IF a \in round[m].fired /\ rule[a].live
                                             THEN [rule[a] EXCEPT !.triggered = now] ELSE rule[a]]
         \/ /\ rule' = rule
            /\ \/ trouble' = [trouble EXCEPT !.lost = @ \union {round[m].began}]
               \/ trouble' = [count |-> trouble.count + 1, lost |-> trouble.lost \union {round[m].began}]
  BY DEF EndRound, CancelRound, Recorded
<1>2. /\ trouble' = [count |-> trouble'.count, lost |-> trouble'.lost] /\ trouble.lost \subseteq trouble'.lost
      /\ (trouble' = trouble \/ round[m].began \in trouble'.lost)
  BY <1>1 DEF AlertInv, RoundsTyped
<1>3. /\ DOMAIN round' = Rounds /\ \A n \in Rounds \ {m} : round'[n] = round[n]
      /\ \A n \in Rounds : Shaped(n)'
  <2>1. DOMAIN round' = Rounds /\ round'[m] = NewRound /\ \A n \in Rounds \ {m} : round'[n] = round[n]
    BY <1>1 DEF AlertInv, RoundsTyped
  <2>2. \A n \in Rounds \ {m} : Shaped(n)'
    BY <1>1, <2>1 DEF AlertInv, RoundsTyped, Shaped
  <2>3. Shaped(m)'
    BY <1>1, <2>1, NewRoundShape DEF AlertInv, RoundsTyped, Shaped
  <2>. QED  BY <2>1, <2>2, <2>3
<1>4. /\ DOMAIN rule' = AlertRules
      /\ \A a \in AlertRules :
           /\ rule'[a] = [live |-> rule'[a].live, enabled |-> rule'[a].enabled, triggered |-> rule'[a].triggered]
           /\ rule'[a].live = rule[a].live
           /\ rule'[a].triggered = rule[a].triggered \/ rule'[a].triggered = now
  BY <1>1 DEF AlertInv, RoundsTyped
<1>5. \A a \in AlertRules : /\ rule'[a].triggered \in Nat /\ rule'[a].triggered <= now
                            /\ rule'[a].triggered >= rule[a].triggered
  BY <1>4 DEF AlertInv, RoundsTyped
<1>6. RoundsTyped'
  BY <1>1, <1>2, <1>3, <1>4, <1>5 DEF AlertInv, RoundsTyped
<1>7. ASSUME NEW w \in sent PROVE Pursued(w)' \/ Settled(w)'
  <2>0. w.rule \in AlertRules /\ w.by \in Rounds /\ w.began \in Nat /\ w.began <= now
    BY DEF AlertInv, RoundsTyped
  <2>1. CASE Settled(w)
    BY <1>2, <1>4, <1>5, <1>6, <2>1, SettledStays
  <2>2. CASE Pursued(w) /\ w.by # m
    BY <1>3, <2>0, <2>2 DEF Pursued
  <2>3. CASE Pursued(w) /\ w.by = m
    <3>1. CASE trouble' = trouble /\ rule[w.rule].live /\ ~round[m].began \in trouble'.lost
      <4>1. rule'[w.rule] = [rule[w.rule] EXCEPT !.triggered = now]
        BY <1>1, <1>2, <2>0, <2>3, <3>1 DEF Pursued, AlertInv, RoundsTyped
      <4>2. rule'[w.rule].triggered = now
        BY <2>0, <4>1 DEF AlertInv, RoundsTyped
      <4>. QED  BY <2>0, <4>2 DEF Settled, AlertInv, RoundsTyped
    <3>2. CASE round[m].began \in trouble'.lost
      BY <2>3, <3>2 DEF Pursued, Settled
    <3>3. CASE ~rule[w.rule].live
      BY <1>4, <2>0, <3>3 DEF Settled
    <3>. QED  BY <1>2, <3>1, <3>2, <3>3
  <2>. QED  BY <2>1, <2>2, <2>3 DEF AlertInv
<1>. QED  BY <1>1, <1>6, <1>7 DEF AlertInv

LEMMA AlertsStep == AlertInv /\ [AlertsNext]_alertVars => AlertInv'
<1> SUFFICES ASSUME AlertInv, [AlertsNext]_alertVars PROVE AlertInv'
  OBVIOUS
<1>1. CASE UNCHANGED alertVars
  BY <1>1 DEF alertVars, AlertInv, RoundsTyped, Shaped, Pursued, Settled
<1>. QED
  BY <1>1, OutsideKeepsAlerts, SamplingKeepsAlerts, EvaluateKeeps, EndKeeps DEF AlertsNext

LEMMA AlertsHold == AlertInv => NotifiedMeansRecorded
  BY DEF AlertInv, NotifiedMeansRecorded, Pursued, Settled

-----------------------------------------------------------------------------
(* The backups.  A run owns its path until a prune picks it; who succeeded  *)
(* later ranks higher and finished no earlier; and unless a rule keeps      *)
(* none, each archive that was picked leaves a later one of its schedule    *)
(* that nobody has picked.                                                  *)

ScheduleTyped(s) ==
    /\ schedule[s] = [state |-> schedule[s].state, enabled |-> schedule[s].enabled,
                      cadence |-> schedule[s].cadence, next |-> schedule[s].next,
                      keep |-> schedule[s].keep, age |-> schedule[s].age]
    /\ {schedule[s].keep, schedule[s].age} \subseteq Nat \union {NoRule}

BackupRow == [stage : Underway \union {"none", "queued", "done", "failed", "gone"},
              owner : Schedules \union {NoSchedule}, made : Schedules \union {NoSchedule},
              row : {"none", "running", "success", "failed", "deleted"},
              finished : Nat, rank : Nat, doomed : SUBSET Runs, kept : Nat \union {NoRule}]
Archive(d) == d = [by |-> d.by, whole |-> d.whole]

RowsTyped ==
    /\ clock \in Nat
    /\ DOMAIN schedule = Schedules /\ \A s \in Schedules : ScheduleTyped(s)
    /\ backup \in [Runs -> BackupRow]
    /\ DOMAIN disk = Runs /\ \A p \in Runs : Archive(disk[p])

Unopened == {"none", "queued", "resolving"}
Unrecorded == Unopened \union {"writing", "written"}
Picked(x) == \E q \in Runs : x \in backup[q].doomed
Mine(r) == [by |-> {r}, whole |-> TRUE]

RunHolds(r) ==
    LET b == backup[r]
    IN  /\ b.stage \in Unrecorded => b.row \in {"none", "running"} /\ b.rank = 0
        /\ b.stage \in Unrecorded \union {"recorded"} => b.doomed = {} /\ b.kept = NoRule
        /\ b.stage \in Unopened => disk[r] = Nothing
        /\ b.stage = "writing" => disk[r].by = {r}
        /\ b.stage = "written" => disk[r] = Mine(r)
        /\ b.stage = "recorded" => b.finished = clock /\ b.rank >= 1 /\ b.made # NoSchedule
        /\ b.finished <= clock
        /\ b.rank >= 1 <=> b.row \in {"success", "deleted"}
        /\ b.row = "deleted" => Picked(r)
        /\ b.row = "success" => disk[r] = Mine(r) \/ Picked(r)
        /\ \/ b.owner = b.made
           \/ b.owner = NoSchedule /\ b.made \in Schedules /\ schedule[b.made].state = "deleted"

InOrder ==
    \A x, y \in Runs : backup[x].rank >= 1 =>
        /\ backup[x].rank = backup[y].rank => x = y
        /\ backup[x].rank < backup[y].rank => backup[x].finished <= backup[y].finished

KeepsNone == \E r \in Runs : backup[r].kept = 0
Supersedes(y, x) == /\ backup[y].row = "success" /\ ~Picked(y)
                    /\ backup[y].made = backup[x].made /\ backup[y].rank > backup[x].rank
PickedIsSuperseded ==
    \A x \in Runs : Picked(x) =>
        /\ backup[x].rank >= 1 /\ backup[x].made # NoSchedule
        /\ KeepsNone \/ \E y \in Runs : Supersedes(y, x)

BackupInv == RowsTyped /\ (\A r \in Runs : RunHolds(r)) /\ InOrder /\ PickedIsSuperseded

\* A finite set has an element on which a function to the naturals is highest.
LEMMA HighestOf ==
    ASSUME NEW S, S # {}, IsFiniteSet(S), NEW f \in [S -> Nat]
    PROVE  \E m \in S : \A n \in S : f[n] <= f[m]
<1> DEFINE Above(m) == {n \in S : f[n] > f[m]}
           T == {Above(m) : m \in S}
<1>1. T \subseteq FiniteSubsetsOf(S) /\ T # {}
  <2>1. \A m \in S : Above(m) \subseteq S /\ IsFiniteSet(Above(m))
    <3> TAKE m \in S
    <3>1. Above(m) \in SUBSET S
      OBVIOUS
    <3>. QED  BY <3>1, FS_Subset
  <2>2. \A m \in S : Above(m) \in FiniteSubsetsOf(S)
    <3> HIDE DEF Above
    <3>. QED  BY <2>1 DEF FiniteSubsetsOf
  <2>3. T # {}
    <3>1. PICK m \in S : TRUE
      OBVIOUS
    <3>2. Above(m) \in T
      BY <3>1
    <3>. QED  BY <3>2
  <2>. QED  BY <2>2, <2>3
<1>2. PICK U \in T : \A V \in T : ~(<<V, U>> \in StrictSubsetOrdering(S))
  <2>1. IsWellFoundedOn(StrictSubsetOrdering(S), FiniteSubsetsOf(S))
    BY FS_StrictSubsetOrderingWellFounded
  <2> HIDE DEF T
  <2>. QED  BY <1>1, <2>1, WFMin
<1>3. PICK m \in S : U = Above(m)
  BY <1>2
<1>4. ASSUME NEW n \in S, f[n] > f[m] PROVE FALSE
  <2>1. Above(n) \in T
    OBVIOUS
  <2>2. Above(n) \subseteq Above(m)
    BY <1>4
  <2>3. n \in Above(m) /\ n \notin Above(n)
    BY <1>4
  <2>4. Above(n) \subseteq S /\ Above(m) \subseteq S
    OBVIOUS
  <2>5. <<Above(n), Above(m)>> \in StrictSubsetOrdering(S)
    <3> HIDE DEF Above
    <3>. QED  BY <2>2, <2>3, <2>4 DEF StrictSubsetOrdering
  <2>. QED  BY <1>2, <1>3, <2>1, <2>5
<1>. QED  BY <1>4

LEMMA BackupsStart == BackupInit => BackupInv
<1> SUFFICES ASSUME BackupInit PROVE BackupInv
  OBVIOUS
<1>1. /\ clock = 0 /\ schedule = [s \in Schedules |-> NewSchedule]
      /\ backup = [r \in Runs |-> NewRun] /\ disk = [p \in Runs |-> Nothing]
  BY DEF BackupInit
<1>2. RowsTyped
  <2>1. NewRun \in BackupRow
    BY DEF NewRun, BackupRow
  <2>2. \A s \in Schedules : ScheduleTyped(s)
    BY <1>1 DEF ScheduleTyped, NewSchedule
  <2>. QED  BY <1>1, <2>1, <2>2 DEF RowsTyped, Archive, Nothing
<1>3. \A r \in Runs : ~Picked(r) /\ RunHolds(r)
  BY <1>1 DEF Picked, RunHolds, NewRun, Unrecorded, Unopened
<1>4. InOrder /\ PickedIsSuperseded
  BY <1>1, <1>3 DEF InOrder, PickedIsSuperseded, NewRun
<1>. QED  BY <1>2, <1>3, <1>4 DEF BackupInv

\* A step that ranks, dooms and re-opens nothing.
LEMMA OrderKeeps ==
    ASSUME BackupInv,
           \A x \in Runs : /\ backup'[x].rank = backup[x].rank /\ backup'[x].finished = backup[x].finished
                           /\ backup'[x].doomed = backup[x].doomed /\ backup'[x].kept = backup[x].kept
                           /\ backup[x].rank >= 1 => backup'[x].made = backup[x].made
                           /\ backup[x].row = "success" /\ ~Picked(x) => backup'[x].row = "success"
    PROVE  InOrder' /\ PickedIsSuperseded' /\ \A x \in Runs : Picked(x)' <=> Picked(x)
<1>1. \A x \in Runs : Picked(x)' <=> Picked(x)
  BY DEF Picked
<1>2. InOrder'
  BY DEF BackupInv, InOrder
<1>3. KeepsNone' <=> KeepsNone
  BY DEF KeepsNone
<1>4. ASSUME NEW x \in Runs, Picked(x), NEW y \in Runs, Supersedes(y, x) PROVE Supersedes(y, x)'
  <2>1. backup[x].rank >= 1 /\ backup[y].rank >= 1
    BY <1>4 DEF BackupInv, PickedIsSuperseded, RunHolds, Supersedes
  <2>. QED  BY <1>1, <1>4, <2>1 DEF Supersedes
<1>5. PickedIsSuperseded'
  <2> SUFFICES ASSUME NEW x \in Runs, Picked(x)
               PROVE  /\ backup'[x].rank >= 1 /\ backup'[x].made # NoSchedule
                      /\ KeepsNone' \/ \E y \in Runs : Supersedes(y, x)'
    BY <1>1 DEF PickedIsSuperseded
  <2>1. /\ backup[x].rank >= 1 /\ backup[x].made # NoSchedule
        /\ KeepsNone \/ \E y \in Runs : Supersedes(y, x)
    BY DEF BackupInv, PickedIsSuperseded
  <2>. QED  BY <1>3, <1>4, <2>1
<1>. QED  BY <1>1, <1>2, <1>5

\* A run nobody touched.
LEMMA RunStays ==
    ASSUME NEW x \in Runs, RunHolds(x), backup'[x] = backup[x], disk'[x] = disk[x], clock' = clock,
           Picked(x) => Picked(x)',
           \A s \in Schedules : schedule[s].state = "deleted" => schedule'[s].state = "deleted"
    PROVE  RunHolds(x)'
  BY DEF RunHolds

\* One run, and at most its own path, moves.
LEMMA RunMoves ==
    ASSUME BackupInv, NEW r \in Runs, NEW to \in BackupRow, backup' = [backup EXCEPT ![r] = to],
           clock' = clock, schedule' = schedule,
           to.rank = backup[r].rank, to.finished = backup[r].finished, to.doomed = backup[r].doomed,
           to.made = backup[r].made \/ backup[r].stage = "none", to.kept = backup[r].kept,
           backup[r].row = "success" => to.row = "success",
           DOMAIN disk' = Runs, Archive(disk'[r]), \A p \in Runs \ {r} : disk'[p] = disk[p],
           (Picked(r)' <=> Picked(r)) => RunHolds(r)'
    PROVE  BackupInv'
<1>1. backup'[r] = to /\ \A x \in Runs \ {r} : backup'[x] = backup[x]
  BY DEF BackupInv, RowsTyped
<1>2. RowsTyped'
  <2>1. backup' \in [Runs -> BackupRow]
    BY DEF BackupInv, RowsTyped
  <2>2. \A s \in Schedules : ScheduleTyped(s)'
    BY DEF BackupInv, RowsTyped, ScheduleTyped
  <2>3. \A p \in Runs : Archive(disk'[p])
    BY DEF BackupInv, RowsTyped
  <2>. QED  BY <2>1, <2>2, <2>3 DEF BackupInv, RowsTyped, Archive
<1>3. \A x \in Runs : /\ backup'[x].rank = backup[x].rank /\ backup'[x].finished = backup[x].finished
                      /\ backup'[x].doomed = backup[x].doomed /\ backup'[x].kept = backup[x].kept
                      /\ backup[x].rank >= 1 => backup'[x].made = backup[x].made
                      /\ backup[x].row = "success" => backup'[x].row = "success"
  <2>1. backup[r].stage = "none" => ~(backup[r].rank >= 1)
    BY DEF BackupInv, RunHolds, Unrecorded, Unopened
  <2>. QED  BY <1>1, <2>1
<1>4. InOrder' /\ PickedIsSuperseded' /\ \A x \in Runs : Picked(x)' <=> Picked(x)
  BY <1>3, OrderKeeps
<1>5. \A x \in Runs : RunHolds(x)'
  <2> TAKE x \in Runs
  <2>1. CASE x = r
    BY <1>4, <2>1
  <2>2. CASE x # r
    BY <1>1, <1>4, <2>2, RunStays DEF BackupInv
  <2>. QED  BY <2>1, <2>2
<1>. QED  BY <1>2, <1>4, <1>5 DEF BackupInv

LEMMA EnqueueKeeps ==
    ASSUME BackupInv, NEW r \in Runs, NEW s \in Schedules \union {NoSchedule}, Enqueue(r, s),
           UNCHANGED <<clock, schedule, disk>>
    PROVE  BackupInv'
<1> DEFINE to == [backup[r] EXCEPT !.stage = "queued", !.owner = s, !.made = s]
<1>1. backup' = [backup EXCEPT ![r] = to] /\ backup[r].stage = "none" /\ backup[r] \in BackupRow
  BY DEF Enqueue, BackupInv, RowsTyped
<1>2. to \in BackupRow /\ to.stage = "queued" /\ to.owner = s /\ to.made = s /\ to.row = backup[r].row
      /\ to.rank = backup[r].rank /\ to.finished = backup[r].finished /\ to.doomed = backup[r].doomed
      /\ to.kept = backup[r].kept
  BY <1>1 DEF BackupRow
<1> HIDE DEF to
<1>3. backup'[r] = to /\ RunHolds(r) /\ Archive(disk'[r]) /\ DOMAIN disk' = Runs
  BY <1>1 DEF BackupInv, RowsTyped
<1>4. (Picked(r)' <=> Picked(r)) => RunHolds(r)'
  BY <1>1, <1>2, <1>3 DEF RunHolds, Unrecorded, Unopened
<1>. QED  BY <1>1, <1>2, <1>3, <1>4, RunMoves

LEMMA BeginRunKeeps == ASSUME BackupInv, NEW r \in Runs, BeginRun(r) PROVE BackupInv'
<1>1. PICK to : /\ backup' = [backup EXCEPT ![r] = to] /\ UNCHANGED <<clock, schedule, disk>>
                /\ to \in {[backup[r] EXCEPT !.stage = "resolving", !.row = "running"],
                           [backup[r] EXCEPT !.stage = "failed"]}
  BY DEF BeginRun, To, BackupInv, RowsTyped
<1>2. backup[r].stage = "queued" /\ backup[r] \in BackupRow /\ RunHolds(r)
  BY DEF BeginRun, BackupInv, RowsTyped
<1>3. to \in BackupRow /\ to.rank = backup[r].rank /\ to.finished = backup[r].finished
      /\ to.doomed = backup[r].doomed /\ to.made = backup[r].made /\ to.kept = backup[r].kept
      /\ to.owner = backup[r].owner /\ to.stage \in {"resolving", "failed"}
      /\ (to.row = "running" \/ to.row = backup[r].row)
  BY <1>1, <1>2 DEF BackupRow, Underway
<1>4. backup'[r] = to /\ Archive(disk'[r]) /\ DOMAIN disk' = Runs
  BY <1>1 DEF BackupInv, RowsTyped
<1>5. backup[r].row \in {"none", "running"}
  BY <1>2 DEF RunHolds, Unrecorded, Unopened
<1>6. (Picked(r)' <=> Picked(r)) => RunHolds(r)'
  BY <1>1, <1>2, <1>3, <1>4, <1>5 DEF RunHolds, Unrecorded, Unopened
<1>. QED  BY <1>1, <1>3, <1>4, <1>5, <1>6, RunMoves

LEMMA OpenKeeps == ASSUME BackupInv, NEW r \in Runs, OpenArchive(r) PROVE BackupInv'
<1> DEFINE to == [backup[r] EXCEPT !.stage = "writing"]
<1>1. backup' = [backup EXCEPT ![r] = to] /\ UNCHANGED <<clock, schedule>>
      /\ backup[r].stage = "resolving" /\ backup[r] \in BackupRow /\ RunHolds(r) /\ disk[r] = Nothing
  BY DEF OpenArchive, To, BackupInv, RowsTyped, RunHolds, Unopened
<1>2. to \in BackupRow /\ to.rank = backup[r].rank /\ to.finished = backup[r].finished
      /\ to.doomed = backup[r].doomed /\ to.made = backup[r].made /\ to.kept = backup[r].kept
      /\ to.owner = backup[r].owner /\ to.stage = "writing" /\ to.row = backup[r].row
  BY <1>1 DEF BackupRow, Underway
<1> HIDE DEF to
<1>3. disk' = [disk EXCEPT ![r] = [by |-> {r}, whole |-> FALSE]]
  BY <1>1 DEF OpenArchive, PathOf, Nothing, BackupInv, RowsTyped
<1>4. backup'[r] = to /\ disk'[r] = [by |-> {r}, whole |-> FALSE] /\ Archive(disk'[r])
      /\ DOMAIN disk' = Runs /\ \A p \in Runs \ {r} : disk'[p] = disk[p]
  BY <1>1, <1>3 DEF BackupInv, RowsTyped, Archive
<1>5. backup[r].row \in {"none", "running"}
  BY <1>1 DEF RunHolds, Unrecorded, Unopened
<1>6. (Picked(r)' <=> Picked(r)) => RunHolds(r)'
  BY <1>1, <1>2, <1>4, <1>5 DEF RunHolds, Unrecorded, Unopened
<1>. QED  BY <1>1, <1>2, <1>4, <1>6, RunMoves

LEMMA FinishArchiveKeeps == ASSUME BackupInv, NEW r \in Runs, FinishArchive(r) PROVE BackupInv'
<1> DEFINE to == [backup[r] EXCEPT !.stage = "written"]
<1>1. backup' = [backup EXCEPT ![r] = to] /\ UNCHANGED <<clock, schedule>>
      /\ backup[r].stage = "writing" /\ backup[r] \in BackupRow /\ RunHolds(r) /\ disk[r].by = {r}
  BY DEF FinishArchive, To, BackupInv, RowsTyped, RunHolds
<1>2. to \in BackupRow /\ to.rank = backup[r].rank /\ to.finished = backup[r].finished
      /\ to.doomed = backup[r].doomed /\ to.made = backup[r].made /\ to.kept = backup[r].kept
      /\ to.owner = backup[r].owner /\ to.stage = "written" /\ to.row = backup[r].row
  BY <1>1 DEF BackupRow, Underway
<1> HIDE DEF to
<1>3. disk' = [disk EXCEPT ![r].whole = TRUE] /\ DOMAIN disk = Runs /\ Archive(disk[r])
  BY <1>1 DEF FinishArchive, PathOf, BackupInv, RowsTyped
<1>4. backup'[r] = to /\ disk'[r] = Mine(r) /\ Archive(disk'[r])
      /\ DOMAIN disk' = Runs /\ \A p \in Runs \ {r} : disk'[p] = disk[p]
  BY <1>1, <1>3 DEF BackupInv, RowsTyped, Archive, Mine
<1>5. backup[r].row \in {"none", "running"}
  BY <1>1 DEF RunHolds, Unrecorded, Unopened
<1>6. (Picked(r)' <=> Picked(r)) => RunHolds(r)'
  BY <1>1, <1>2, <1>4, <1>5 DEF RunHolds, Unrecorded, Unopened
<1>. QED  BY <1>1, <1>2, <1>4, <1>6, RunMoves

\* A run that fails, is cancelled, or has nothing to prune: only its stage
\* moves, and the row of one that failed.
LEMMA RunEndsKeeps ==
    ASSUME BackupInv, NEW r \in Runs, NEW to,
           backup' = [backup EXCEPT ![r] = to], UNCHANGED <<clock, schedule, disk>>,
           \/ to = [backup[r] EXCEPT !.stage = "gone"]
           \/ to = [backup[r] EXCEPT !.stage = "done"]
           \/ /\ backup[r].stage \in {"resolving", "writing"}
              /\ to = [backup[r] EXCEPT !.stage = "failed", !.row = "failed"]
    PROVE  BackupInv'
<1>1. backup[r] \in BackupRow /\ RunHolds(r)
  BY DEF BackupInv, RowsTyped
<1>2. to \in BackupRow /\ to.rank = backup[r].rank /\ to.finished = backup[r].finished
      /\ to.doomed = backup[r].doomed /\ to.made = backup[r].made /\ to.kept = backup[r].kept
      /\ to.owner = backup[r].owner /\ to.stage \in {"gone", "done", "failed"}
      /\ \/ to.row = backup[r].row
         \/ backup[r].stage \in {"resolving", "writing"} /\ to.row = "failed"
  BY <1>1 DEF BackupRow
<1>3. backup'[r] = to /\ Archive(disk'[r]) /\ DOMAIN disk' = Runs
  BY <1>2 DEF BackupInv, RowsTyped
<1>4. to.row = backup[r].row \/ (backup[r].row \in {"none", "running"} /\ backup[r].rank = 0 /\ to.row = "failed")
  <2>1. backup[r].stage \in {"resolving", "writing"} => backup[r].row \in {"none", "running"} /\ backup[r].rank = 0
    BY <1>1 DEF RunHolds, Unrecorded, Unopened
  <2>. QED  BY <1>2, <2>1
<1>5. (Picked(r)' <=> Picked(r)) => RunHolds(r)'
  BY <1>1, <1>2, <1>3, <1>4 DEF RunHolds, Unrecorded, Unopened
<1>. QED  BY <1>2, <1>3, <1>4, <1>5, RunMoves

LEMMA SchedulesMayMove ==
    ASSUME BackupInv, UNCHANGED <<clock, backup, disk>>,
           DOMAIN schedule' = Schedules, \A s \in Schedules : ScheduleTyped(s)',
           \A s \in Schedules : schedule[s].state = "deleted" => schedule'[s].state = "deleted"
    PROVE  BackupInv'
<1>1. RowsTyped'
  BY DEF BackupInv, RowsTyped, Archive
<1>2. InOrder' /\ PickedIsSuperseded' /\ \A x \in Runs : Picked(x)' <=> Picked(x)
  BY OrderKeeps
<1>3. \A x \in Runs : RunHolds(x)'
  BY <1>2, RunStays DEF BackupInv
<1>. QED  BY <1>1, <1>2, <1>3 DEF BackupInv

LEMMA ScheduleEditsKeep ==
    ASSUME BackupInv,
           PollDue \/ PollCommits \/ \E s \in Schedules : CreateSchedule(s) \/ UpdateSchedule(s)
    PROVE  BackupInv'
<1>1. UNCHANGED <<clock, backup, disk>>
  BY DEF PollDue, PollCommits, CreateSchedule, UpdateSchedule
<1>2. DOMAIN schedule = Schedules /\ \A s \in Schedules : ScheduleTyped(s)
  BY DEF BackupInv, RowsTyped
<1>3. CASE PollDue
  <2>1. schedule' = schedule
    BY <1>3 DEF PollDue
  <2>. QED  BY <1>1, <1>2, <2>1, SchedulesMayMove DEF ScheduleTyped
<1>4. CASE PollCommits
  <2>1. \/ schedule' = schedule
        \/ schedule' = [s \in Schedules |->
              IF s \in poll.fired /\ Live(s) THEN [schedule[s] EXCEPT !.next = Advanced(s)] ELSE schedule[s]]
    BY <1>4 DEF PollCommits
  <2>2. DOMAIN schedule' = Schedules
    BY <1>2, <2>1
  <2>3. ASSUME NEW s \in Schedules
        PROVE  ScheduleTyped(s)' /\ schedule'[s].state = schedule[s].state
    <3>1. schedule'[s] = schedule[s] \/ schedule'[s] = [schedule[s] EXCEPT !.next = Advanced(s)]
      BY <2>1
    <3>2. ScheduleTyped(s)
      BY <1>2
    <3>. QED  BY <3>1, <3>2 DEF ScheduleTyped
  <2>. QED  BY <1>1, <2>2, <2>3, SchedulesMayMove
<1>5. ASSUME NEW s \in Schedules, CreateSchedule(s) PROVE BackupInv'
  <2>1. PICK c \in Choices, k \in KeepRules, a \in AgeRules :
           schedule' = [schedule EXCEPT ![s] = [state |-> "live", enabled |-> TRUE, cadence |-> c,
                                               next |-> compute_next_run(c, clock), keep |-> k, age |-> a]]
    BY <1>5 DEF CreateSchedule
  <2>2. schedule[s].state = "new" /\ {k, a} \subseteq Nat \union {NoRule}
    BY <1>5, BackupAssumption DEF CreateSchedule
  <2>3. \A x \in Schedules : ScheduleTyped(x)'
    BY <1>2, <2>1, <2>2 DEF ScheduleTyped
  <2>4. DOMAIN schedule' = Schedules /\ \A x \in Schedules \ {s} : schedule'[x] = schedule[x]
    BY <1>2, <2>1
  <2>. QED  BY <1>1, <2>2, <2>3, <2>4, SchedulesMayMove
<1>6. ASSUME NEW s \in Schedules, UpdateSchedule(s) PROVE BackupInv'
  <2>0. /\ DOMAIN schedule' = Schedules
        /\ \A x \in Schedules \ {s} : schedule'[x] = schedule[x]
        /\ \/ \E c \in Choices : schedule'[s] = [schedule[s] EXCEPT !.cadence = c,
                                                              !.next = compute_next_run(c, clock)]
           \/ schedule'[s] = [schedule[s] EXCEPT !.enabled = ~@]
           \/ \E k \in KeepRules, a \in AgeRules : schedule'[s] = [schedule[s] EXCEPT !.keep = k, !.age = a]
    <3>1. CASE \E c \in Choices :
                 schedule' = [schedule EXCEPT ![s].cadence = c, ![s].next = compute_next_run(c, clock)]
      <4>1. PICK c \in Choices :
               schedule' = [schedule EXCEPT ![s].cadence = c, ![s].next = compute_next_run(c, clock)]
        BY <3>1
      <4>2. schedule' = [schedule EXCEPT ![s] = [schedule[s] EXCEPT !.cadence = c,
                                                                   !.next = compute_next_run(c, clock)]]
        BY <1>2, <4>1
      <4>. QED  BY <1>2, <4>2
    <3>2. CASE schedule' = [schedule EXCEPT ![s].enabled = ~@]
      BY <1>2, <3>2
    <3>3. CASE \E k \in KeepRules, a \in AgeRules : schedule' = [schedule EXCEPT ![s].keep = k, ![s].age = a]
      BY <1>2, <3>3
    <3>. QED  BY <1>6, <3>1, <3>2, <3>3 DEF UpdateSchedule
  <2>1. PICK to : to = schedule'[s]
    OBVIOUS
  <2>2. \A k \in KeepRules \union AgeRules : k \in Nat \union {NoRule}
    BY BackupAssumption
  <2>3. ScheduleTyped(s)
    BY <1>2
  <2>4. ScheduleTyped(s)' /\ to.state = schedule[s].state
    <3>1. CASE \E c \in Choices : to = [schedule[s] EXCEPT !.cadence = c, !.next = compute_next_run(c, clock)]
      BY <2>1, <2>3, <3>1 DEF ScheduleTyped
    <3>2. CASE to = [schedule[s] EXCEPT !.enabled = ~@]
      <4>1. PICK e : e = ~schedule[s].enabled
        OBVIOUS
      <4>2. to = [schedule[s] EXCEPT !.enabled = e]
        BY <3>2, <4>1
      <4>. QED  BY <2>1, <2>3, <4>2 DEF ScheduleTyped
    <3>3. CASE \E k \in KeepRules, a \in AgeRules : to = [schedule[s] EXCEPT !.keep = k, !.age = a]
      <4>1. PICK k \in KeepRules, a \in AgeRules : to = [schedule[s] EXCEPT !.keep = k, !.age = a]
        BY <3>3
      <4>2. k \in Nat \union {NoRule} /\ a \in Nat \union {NoRule}
        BY <2>2
      <4>. QED  BY <2>1, <2>3, <4>1, <4>2 DEF ScheduleTyped
    <3>. QED  BY <2>0, <2>1, <3>1, <3>2, <3>3
  <2>5. \A x \in Schedules : ScheduleTyped(x)'
    <3> TAKE x \in Schedules
    <3>1. CASE x = s
      BY <2>4, <3>1
    <3>2. CASE x # s
      <4>1. schedule'[x] = schedule[x] /\ ScheduleTyped(x)
        BY <1>2, <2>0, <3>2
      <4>. QED  BY <4>1 DEF ScheduleTyped
    <3>. QED  BY <3>1, <3>2
  <2>. QED  BY <1>1, <2>0, <2>1, <2>4, <2>5, SchedulesMayMove
<1>. QED  BY <1>3, <1>4, <1>5, <1>6

LEMMA DeleteScheduleKeeps == ASSUME BackupInv, NEW s \in Schedules, DeleteSchedule(s) PROVE BackupInv'
<1>1. /\ schedule' = [schedule EXCEPT ![s].state = "deleted"] /\ UNCHANGED <<clock, disk>>
      /\ backup' = [r \in Runs |-> IF backup[r].row # "none" /\ backup[r].owner = s
                                   THEN [backup[r] EXCEPT !.owner = NoSchedule] ELSE backup[r]]
  BY DEF DeleteSchedule
<1>2. DOMAIN schedule' = Schedules /\ schedule'[s].state = "deleted"
      /\ (\A x \in Schedules \ {s} : schedule'[x] = schedule[x]) /\ \A x \in Schedules : ScheduleTyped(x)'
  BY <1>1 DEF BackupInv, RowsTyped, ScheduleTyped
<1>3. ASSUME NEW r \in Runs
      PROVE  /\ backup'[r] \in BackupRow /\ backup'[r].stage = backup[r].stage /\ backup'[r].row = backup[r].row
             /\ backup'[r].rank = backup[r].rank /\ backup'[r].finished = backup[r].finished
             /\ backup'[r].doomed = backup[r].doomed /\ backup'[r].kept = backup[r].kept
             /\ backup'[r].made = backup[r].made
             /\ backup'[r].owner = backup[r].owner \/ (backup[r].owner = s /\ backup'[r].owner = NoSchedule)
  <2>1. backup[r] \in BackupRow
    BY DEF BackupInv, RowsTyped
  <2>2. backup'[r] = backup[r] \/ (backup[r].owner = s /\ backup'[r] = [backup[r] EXCEPT !.owner = NoSchedule])
    BY <1>1
  <2>. QED  BY <2>1, <2>2 DEF BackupRow
<1>4. RowsTyped'
  <2>1. backup' \in [Runs -> BackupRow]
    BY <1>1, <1>3
  <2>. QED  BY <1>1, <1>2, <2>1 DEF BackupInv, RowsTyped, Archive
<1>5. InOrder' /\ PickedIsSuperseded' /\ \A x \in Runs : Picked(x)' <=> Picked(x)
  BY <1>3, OrderKeeps
<1>6. ASSUME NEW r \in Runs PROVE RunHolds(r)'
  <2>1. \/ backup'[r].owner = backup'[r].made
        \/ /\ backup'[r].owner = NoSchedule /\ backup'[r].made \in Schedules
           /\ schedule'[backup'[r].made].state = "deleted"
    BY <1>2, <1>3 DEF BackupInv, RunHolds
  <2>2. RunHolds(r)
    BY DEF BackupInv
  <2>. QED  BY <1>1, <1>3, <1>5, <2>1, <2>2 DEF RunHolds
<1>. QED  BY <1>4, <1>5, <1>6 DEF BackupInv

LEMMA TickKeeps == ASSUME BackupInv, Tick PROVE BackupInv'
<1>1. clock' = clock + 1 /\ UNCHANGED <<schedule, backup, disk>> /\ \A r \in Runs : backup[r].stage # "recorded"
  BY DEF Tick
<1>2. RowsTyped'
  BY <1>1 DEF BackupInv, RowsTyped, ScheduleTyped, Archive
<1>3. InOrder' /\ PickedIsSuperseded' /\ \A x \in Runs : Picked(x)' <=> Picked(x)
  BY <1>1, OrderKeeps
<1>4. ASSUME NEW r \in Runs PROVE RunHolds(r)'
  <2>1. RunHolds(r) /\ backup[r].finished \in Nat /\ clock \in Nat
    BY DEF BackupInv, RowsTyped, BackupRow
  <2>. QED  BY <1>1, <1>3, <2>1 DEF RunHolds
<1>. QED  BY <1>2, <1>3, <1>4 DEF BackupInv

\* A cancel stops one run, a restart all of them.
LEMMA StopKeeps ==
    ASSUME BackupInv, UNCHANGED <<clock, schedule, disk>>, backup' = [r \in Runs |-> backup'[r]],
           \A r \in Runs : backup'[r] \in {backup[r], [backup[r] EXCEPT !.stage = "gone"]}
    PROVE  BackupInv'
<1>1. ASSUME NEW r \in Runs
      PROVE  /\ backup'[r] \in BackupRow /\ backup'[r].row = backup[r].row
             /\ backup'[r].rank = backup[r].rank /\ backup'[r].finished = backup[r].finished
             /\ backup'[r].doomed = backup[r].doomed /\ backup'[r].kept = backup[r].kept
             /\ backup'[r].made = backup[r].made /\ backup'[r].owner = backup[r].owner
             /\ backup'[r].stage \in {backup[r].stage, "gone"}
  <2>1. backup[r] \in BackupRow
    BY DEF BackupInv, RowsTyped
  <2>2. backup'[r] = backup[r] \/ backup'[r] = [backup[r] EXCEPT !.stage = "gone"]
    OBVIOUS
  <2>. QED  BY <2>1, <2>2 DEF BackupRow
<1>2. RowsTyped'
  <2>1. backup' \in [Runs -> BackupRow]
    <3>1. \A r \in Runs : backup'[r] \in BackupRow
      BY <1>1
    <3>. QED  BY <3>1
  <2>. QED  BY <2>1 DEF BackupInv, RowsTyped, ScheduleTyped, Archive
<1>3. InOrder' /\ PickedIsSuperseded' /\ \A x \in Runs : Picked(x)' <=> Picked(x)
  BY <1>1, OrderKeeps
<1>4. ASSUME NEW r \in Runs PROVE RunHolds(r)'
  <2>1. RunHolds(r)
    BY DEF BackupInv
  <2>. QED  BY <1>1, <1>3, <2>1 DEF RunHolds, Unrecorded, Unopened
<1>. QED  BY <1>2, <1>3, <1>4 DEF BackupInv

LEMMA NewestIsHighest ==
    ASSUME BackupInv, NEW r \in Runs
    PROVE  Newest \in Nat /\ \A x \in Runs : backup[x].rank <= Newest
<1> DEFINE f == [x \in Runs |-> backup[x].rank]
           ranks == {backup[x].rank : x \in Runs}
<1>1. f \in [Runs -> Nat]
  BY DEF BackupInv, RowsTyped, BackupRow
<1>2. \E m \in Runs : \A n \in Runs : f[n] <= f[m]
  <2> HIDE DEF f
  <2>. QED  BY <1>1, HighestOf, BackupAssumption
<1>3. \E n \in ranks : \A m \in ranks : m <= n
  BY <1>2
<1>4. Newest \in ranks /\ \A m \in ranks : m <= Newest
  BY <1>3 DEF Newest
<1>. QED  BY <1>1, <1>4

LEMMA RecordKeeps == ASSUME BackupInv, NEW r \in Runs, RecordSuccess(r) PROVE BackupInv'
<1> DEFINE st == IF Compressed(r) THEN "recorded" ELSE "done"
           to == [backup[r] EXCEPT !.stage = st, !.row = "success", !.finished = clock, !.rank = Newest + 1]
<1>1. backup[r].stage = "written" /\ UNCHANGED <<clock, schedule, disk>>
      /\ backup[r] \in BackupRow /\ RunHolds(r) /\ disk[r] = Mine(r) /\ clock \in Nat
  BY DEF RecordSuccess, BackupInv, RowsTyped, RunHolds
<1>2. backup' = [backup EXCEPT ![r] = to]
  BY DEF RecordSuccess, BackupInv, RowsTyped
<1>3. Newest \in Nat /\ \A x \in Runs : backup[x].rank <= Newest
  BY NewestIsHighest
<1>4. st \in {"recorded", "done"} /\ (st = "recorded" => backup[r].made # NoSchedule)
  BY DEF Compressed
<1> HIDE DEF st
<1>5. to \in BackupRow /\ to.stage = st /\ to.row = "success" /\ to.finished = clock /\ to.rank = Newest + 1
      /\ to.doomed = backup[r].doomed /\ to.made = backup[r].made /\ to.kept = backup[r].kept
      /\ to.owner = backup[r].owner
  <2>1. Newest + 1 \in Nat
    BY <1>3
  <2>2. PICK top : top = Newest + 1
    OBVIOUS
  <2>3. to = [backup[r] EXCEPT !.stage = st, !.row = "success", !.finished = clock, !.rank = top]
    BY <2>2
  <2>4. st \in Underway \union {"none", "queued", "done", "failed", "gone"}
    BY <1>4 DEF Underway
  <2> HIDE DEF to
  <2>. QED  BY <1>1, <2>1, <2>2, <2>3, <2>4 DEF BackupRow
<1> HIDE DEF to
<1>6. backup'[r] = to /\ \A x \in Runs \ {r} : backup'[x] = backup[x]
  BY <1>2 DEF BackupInv, RowsTyped
<1>7. RowsTyped'
  <2>1. backup' \in [Runs -> BackupRow]
    BY <1>2, <1>5 DEF BackupInv, RowsTyped
  <2>. QED  BY <1>1, <2>1 DEF BackupInv, RowsTyped, ScheduleTyped, Archive
<1>8. backup[r].rank = 0 /\ backup[r].row # "success" /\ ~Picked(r)
  <2>1. backup[r].rank = 0 /\ backup[r].row # "success"
    BY <1>1 DEF RunHolds, Unrecorded
  <2>. QED  BY <2>1 DEF BackupInv, PickedIsSuperseded
<1>9. \A x \in Runs : Picked(x)' <=> Picked(x)
  BY <1>5, <1>6 DEF Picked
<1>10. InOrder'
  <2> SUFFICES ASSUME NEW x \in Runs, NEW y \in Runs, backup'[x].rank >= 1
               PROVE  /\ backup'[x].rank = backup'[y].rank => x = y
                      /\ backup'[x].rank < backup'[y].rank => backup'[x].finished <= backup'[y].finished
    BY DEF InOrder
  <2>0. \A z \in Runs : /\ backup[z].rank \in Nat /\ backup[z].finished \in Nat
                        /\ backup[z].finished <= clock /\ backup[z].rank < Newest + 1
    BY <1>3 DEF BackupInv, RowsTyped, BackupRow, RunHolds
  <2>1. CASE x = r
    BY <1>1, <1>3, <1>5, <1>6, <2>0, <2>1
  <2>2. CASE x # r /\ y = r
    BY <1>1, <1>3, <1>5, <1>6, <2>0, <2>2
  <2>3. CASE x # r /\ y # r
    BY <1>6, <2>3 DEF BackupInv, InOrder
  <2>. QED  BY <2>1, <2>2, <2>3
<1>11. PickedIsSuperseded'
  <2>1. KeepsNone' <=> KeepsNone
    BY <1>5, <1>6 DEF KeepsNone
  <2> SUFFICES ASSUME NEW x \in Runs, Picked(x)
               PROVE  /\ backup'[x].rank >= 1 /\ backup'[x].made # NoSchedule
                      /\ KeepsNone \/ \E y \in Runs : Supersedes(y, x)'
    BY <1>9, <2>1 DEF PickedIsSuperseded
  <2>2. backup'[x] = backup[x]
    BY <1>6, <1>8
  <2>3. \A y \in Runs : Supersedes(y, x) => Supersedes(y, x)'
    BY <1>6, <1>8, <1>9, <2>2 DEF Supersedes
  <2>. QED  BY <2>2, <2>3 DEF BackupInv, PickedIsSuperseded
<1>12. \A x \in Runs : RunHolds(x)'
  <2> TAKE x \in Runs
  <2>1. CASE x = r
    <3>1. Newest + 1 >= 1
      BY <1>3
    <3>. QED  BY <1>1, <1>4, <1>5, <1>6, <1>9, <2>1, <3>1 DEF RunHolds, Unrecorded, Unopened, Mine
  <2>2. CASE x # r
    BY <1>1, <1>6, <1>9, <2>2, RunStays DEF BackupInv
  <2>. QED  BY <2>1, <2>2
<1>. QED  BY <1>7, <1>10, <1>11, <1>12 DEF BackupInv

\* While its schedule lives, a success stays its schedule's own.
LEMMA OwnRunsAreMade ==
    ASSUME BackupInv, NEW s \in Schedules, Live(s)
    PROVE  OwnRuns(s) = {x \in Runs : backup[x].row = "success" /\ backup[x].made = s}
<1>1. \A x \in Runs : backup[x].owner = s <=> backup[x].made = s
  BY BackupAssumption DEF BackupInv, RunHolds, Live
<1>. QED  BY <1>1 DEF OwnRuns, Succeeded

(* The prune of a rule that keeps some leaves the newest success of the     *)
(* schedule: it finished no earlier than the pruning run, which is now, and *)
(* nobody picked it before, as nothing newer would have superseded it.      *)
LEMMA LastGoodStays ==
    ASSUME BackupInv, NEW r \in Runs, backup[r].stage = "recorded", NEW s \in Schedules,
           s = backup[r].made, Live(s), ~KeepsNone, schedule[s].keep # 0
    PROVE  \E y \in OwnRuns(s) :
              /\ ~Picked(y) /\ y \notin TooOld(s, OwnRuns(s)) /\ y \notin Surplus(s, OwnRuns(s))
              /\ \A x \in OwnRuns(s) : backup[x].rank <= backup[y].rank
<1> DEFINE rows == OwnRuns(s)
           f == [x \in rows |-> backup[x].rank]
<1>1. rows = {x \in Runs : backup[x].row = "success" /\ backup[x].made = s}
  BY OwnRunsAreMade
<1> HIDE DEF rows
<1>2. \A x \in Runs : /\ backup[x].rank \in Nat /\ backup[x].finished \in Nat /\ backup[x].finished <= clock
                      /\ backup[x].rank >= 1 <=> backup[x].row \in {"success", "deleted"}
  BY DEF BackupInv, RowsTyped, BackupRow, RunHolds
<1>3. clock \in Nat /\ backup[r].finished = clock /\ backup[r].rank >= 1
      /\ (backup[r].row = "deleted" => Picked(r))
  BY DEF BackupInv, RowsTyped, RunHolds
<1>4. PICK z \in rows : backup[z].finished = clock
  <2>1. CASE backup[r].row = "success"
    BY <1>1, <1>3, <2>1
  <2>2. CASE backup[r].row = "deleted"
    <3>1. PICK z \in Runs : Supersedes(z, r)
      BY <1>3, <2>2 DEF BackupInv, PickedIsSuperseded
    <3>2. z \in rows /\ backup[r].rank < backup[z].rank
      BY <1>1, <1>2, <3>1 DEF Supersedes
    <3>3. backup[r].finished <= backup[z].finished
      BY <1>3, <3>2 DEF BackupInv, InOrder
    <3>. QED  BY <1>2, <1>3, <3>2, <3>3
  <2>. QED  BY <1>2, <1>3, <2>1, <2>2
<1>5. PICK y \in rows : \A x \in rows : backup[x].rank <= backup[y].rank
  <2>1. rows \in SUBSET Runs /\ IsFiniteSet(rows)
    BY <1>1, BackupAssumption, FS_Subset
  <2>2. f \in [rows -> Nat] /\ rows # {}
    BY <1>1, <1>2, <1>4
  <2>3. \E m \in rows : \A n \in rows : f[n] <= f[m]
    <3> HIDE DEF f
    <3>. QED  BY <2>1, <2>2, HighestOf
  <2>. QED  BY <2>3
<1>6. backup[y].finished = clock
  <2>1. y \in Runs /\ z \in Runs /\ backup[z].rank >= 1 /\ backup[z].rank <= backup[y].rank
    BY <1>1, <1>2, <1>4, <1>5
  <2>2. backup[z].finished <= backup[y].finished
    BY <1>2, <2>1 DEF BackupInv, InOrder
  <2>. QED  BY <1>2, <1>3, <1>4, <2>1, <2>2
<1>7. ~Picked(y)
  <2> SUFFICES ASSUME Picked(y) PROVE FALSE
    OBVIOUS
  <2>1. PICK x \in Runs : Supersedes(x, y)
    BY <1>1 DEF BackupInv, PickedIsSuperseded
  <2>2. x \in rows /\ backup[x].rank > backup[y].rank
    BY <1>1, <2>1 DEF Supersedes
  <2>. QED  BY <1>1, <1>2, <1>5, <2>2
<1>8. y \notin TooOld(s, rows)
  <2>1. {schedule[s].keep, schedule[s].age} \subseteq Nat \union {NoRule} /\ Slots \in Nat
    BY CadenceAssumption DEF BackupInv, RowsTyped, ScheduleTyped
  <2>2. CASE schedule[s].age \in Nat
    <3>1. schedule[s].age * Slots \in Nat
      BY <2>1, <2>2
    <3>2. ~(clock + schedule[s].age * Slots < clock)
      BY <1>3, <3>1
    <3>. QED  BY <1>6, <3>2, BackupAssumption DEF TooOld
  <2>3. CASE schedule[s].age = NoRule
    BY <2>3 DEF TooOld
  <2>. QED  BY <2>1, <2>2, <2>3
<1>9. y \notin Surplus(s, rows)
  <2>1. {x \in rows : backup[x].rank > backup[y].rank} = {}
    BY <1>1, <1>2, <1>5
  <2>2. Cardinality({x \in rows : backup[x].rank > backup[y].rank}) = 0
    BY <2>1, FS_EmptySet
  <2>3. schedule[s].keep = NoRule \/ ~(0 >= schedule[s].keep)
    BY DEF BackupInv, RowsTyped, ScheduleTyped
  <2>. QED  BY <2>2, <2>3 DEF Surplus
<1>. QED  BY <1>5, <1>7, <1>8, <1>9 DEF rows

LEMMA SelectKeeps == ASSUME BackupInv, NEW r \in Runs, PruneSelects(r) PROVE BackupInv'
<1> DEFINE s == backup[r].made
           rows == OwnRuns(s)
           D == TooOld(s, rows) \union Surplus(s, rows)
<1>1. backup[r].stage = "recorded" /\ UNCHANGED <<clock, schedule, disk>> /\ backup[r] \in BackupRow
      /\ RunHolds(r)
  BY DEF PruneSelects, BackupInv, RowsTyped
<1>2. CASE backup' = [backup EXCEPT ![r] = [backup[r] EXCEPT !.stage = "done"]]
  BY <1>1, <1>2, RunEndsKeeps
<1>3. CASE Live(s) /\ backup' = [backup EXCEPT ![r] = [backup[r] EXCEPT !.stage = "pruning", !.doomed = D,
                                                                      !.kept = schedule[s].keep]]
  <2>1. backup[r].doomed = {} /\ backup[r].kept = NoRule /\ backup[r].rank >= 1 /\ s \in Schedules
        /\ NoRule # 0
    BY <1>1, BackupAssumption DEF RunHolds, BackupRow
  <2>2. rows = {x \in Runs : backup[x].row = "success" /\ backup[x].made = s}
    BY <1>3, <2>1, OwnRunsAreMade
  <2>3. D \subseteq rows
    BY DEF TooOld, Surplus
  <2>4. PICK E : E = D
    OBVIOUS
  <2>5. schedule[s].keep \in Nat \union {NoRule} /\ E \in SUBSET Runs
    BY <2>1, <2>2, <2>3, <2>4 DEF BackupInv, RowsTyped, ScheduleTyped
  <2>6. PICK to : /\ backup' = [backup EXCEPT ![r] = to]
                  /\ to = [backup[r] EXCEPT !.stage = "pruning", !.doomed = E, !.kept = schedule[s].keep]
    BY <1>3, <2>4
  <2>7. to \in BackupRow /\ to.stage = "pruning" /\ to.doomed = E /\ to.kept = schedule[s].keep
        /\ to.row = backup[r].row /\ to.rank = backup[r].rank /\ to.finished = backup[r].finished
        /\ to.made = backup[r].made /\ to.owner = backup[r].owner
    BY <1>1, <2>5, <2>6 DEF BackupRow, Underway
  <2> HIDE DEF s, rows, D
  <2>8. backup'[r] = to /\ \A x \in Runs \ {r} : backup'[x] = backup[x]
    BY <2>6 DEF BackupInv, RowsTyped
  <2>9. RowsTyped'
    <3>1. backup' \in [Runs -> BackupRow]
      BY <2>6, <2>7 DEF BackupInv, RowsTyped
    <3>. QED  BY <1>1, <3>1 DEF BackupInv, RowsTyped, ScheduleTyped, Archive
  <2>10. \A x \in Runs : Picked(x)' <=> (Picked(x) \/ x \in E)
    BY <2>1, <2>7, <2>8 DEF Picked
  <2>11. InOrder'
    <3>1. \A x \in Runs : backup'[x].rank = backup[x].rank /\ backup'[x].finished = backup[x].finished
      BY <2>7, <2>8
    <3>. QED  BY <3>1 DEF BackupInv, InOrder
  <2>12. KeepsNone => KeepsNone'
    BY <2>1, <2>8 DEF KeepsNone
  <2>13. schedule[s].keep = 0 => KeepsNone'
    BY <2>7, <2>8 DEF KeepsNone
  <2>14. \A x \in Runs : /\ backup'[x].rank = backup[x].rank /\ backup'[x].made = backup[x].made
                         /\ backup'[x].row = backup[x].row /\ backup[x].rank \in Nat
                         /\ (backup[x].row = "success" => backup[x].rank >= 1)
    BY <2>7, <2>8 DEF BackupInv, RowsTyped, BackupRow, RunHolds
  <2>15. PickedIsSuperseded'
    <3> SUFFICES ASSUME NEW x \in Runs, Picked(x) \/ x \in E
                 PROVE  /\ backup[x].rank >= 1 /\ backup[x].made # NoSchedule
                        /\ KeepsNone' \/ \E y \in Runs : Supersedes(y, x)'
      BY <2>10, <2>14 DEF PickedIsSuperseded
    <3>1. backup[x].rank >= 1 /\ backup[x].made # NoSchedule
      <4>1. CASE Picked(x)
        BY <4>1 DEF BackupInv, PickedIsSuperseded
      <4>2. CASE x \in E
        BY <2>1, <2>2, <2>3, <2>4, <2>14, <4>2, BackupAssumption
      <4>. QED  BY <4>1, <4>2
    <3>2. ASSUME ~KeepsNone' PROVE \E y \in Runs : Supersedes(y, x)'
      <4>1. PICK top \in rows : /\ ~Picked(top) /\ top \notin E
                                /\ \A z \in rows : backup[z].rank <= backup[top].rank
        <5>1. ~KeepsNone /\ schedule[s].keep # 0
          BY <2>12, <2>13, <3>2
        <5>2. s = backup[r].made
          BY DEF s
        <5>. QED  BY <1>1, <1>3, <2>1, <2>4, <5>1, <5>2, LastGoodStays DEF rows, D
      <4>2. top \in Runs /\ backup[top].row = "success" /\ backup[top].made = s /\ ~Picked(top)'
        BY <2>2, <2>10, <4>1
      <4>3. CASE x \in E
        <5>1. x \in rows /\ x # top
          BY <2>3, <2>4, <4>1, <4>3
        <5>2. backup[x].rank < backup[top].rank
          BY <2>14, <3>1, <4>1, <4>2, <5>1 DEF BackupInv, InOrder
        <5>. QED  BY <2>2, <2>14, <4>2, <5>1, <5>2 DEF Supersedes
      <4>4. CASE Picked(x)
        <5>1. PICK y \in Runs : Supersedes(y, x)
          BY <2>12, <3>2, <4>4 DEF BackupInv, PickedIsSuperseded
        <5>2. CASE backup[x].made = s
          <6>1. y \in rows /\ backup[y].rank > backup[x].rank
            BY <2>2, <5>1, <5>2 DEF Supersedes
          <6>2. backup[top].rank > backup[x].rank
            BY <2>14, <4>1, <4>2, <6>1
          <6>. QED  BY <2>14, <4>2, <5>2, <6>2 DEF Supersedes
        <5>3. CASE backup[x].made # s
          <6>1. y \notin E
            BY <2>2, <2>3, <2>4, <5>1, <5>3 DEF Supersedes
          <6>. QED  BY <2>10, <2>14, <5>1, <6>1 DEF Supersedes
        <5>. QED  BY <5>2, <5>3
      <4>. QED  BY <4>3, <4>4
    <3>. QED  BY <3>1, <3>2
  <2>16. \A x \in Runs : RunHolds(x)'
    <3> TAKE x \in Runs
    <3>1. CASE x = r
      BY <1>1, <2>7, <2>8, <2>10, <3>1 DEF RunHolds, Unrecorded, Unopened
    <3>2. CASE x # r
      BY <1>1, <2>8, <2>10, <3>2, RunStays DEF BackupInv
    <3>. QED  BY <3>1, <3>2
  <2>. QED  BY <2>9, <2>11, <2>15, <2>16 DEF BackupInv
<1>. QED
  <2>1. \/ backup' = [backup EXCEPT ![r].stage = "done"]
        \/ /\ Live(s)
           /\ backup' = [backup EXCEPT ![r].stage = "pruning", ![r].doomed = D, ![r].kept = schedule[s].keep]
    BY DEF PruneSelects, To
  <2>2. DOMAIN backup = Runs
    BY DEF BackupInv, RowsTyped
  <2> HIDE DEF D, s
  <2>. QED  BY <1>2, <1>3, <2>1, <2>2

LEMMA PruneDeletesKeep == ASSUME BackupInv, NEW r \in Runs, PruneDeletes(r) PROVE BackupInv'
<1>1. PICK x \in backup[r].doomed : disk' = [disk EXCEPT ![x] = Nothing]
  BY DEF PruneDeletes, PathOf
<1>2. UNCHANGED <<clock, schedule, backup>> /\ x \in Runs /\ Picked(x)
  BY <1>1 DEF PruneDeletes, BackupInv, RowsTyped, BackupRow, Picked
<1>3. disk'[x] = Nothing /\ DOMAIN disk' = Runs /\ \A p \in Runs \ {x} : disk'[p] = disk[p]
  BY <1>1, <1>2 DEF BackupInv, RowsTyped
<1>4. RowsTyped'
  <2>1. \A p \in Runs : Archive(disk'[p])
    BY <1>3 DEF BackupInv, RowsTyped, Archive, Nothing
  <2>. QED  BY <1>2, <1>3, <2>1 DEF BackupInv, RowsTyped, ScheduleTyped, Archive
<1>5. InOrder' /\ PickedIsSuperseded' /\ \A y \in Runs : Picked(y)' <=> Picked(y)
  BY <1>2, OrderKeeps
<1>6. ASSUME NEW y \in Runs PROVE RunHolds(y)'
  <2>1. CASE y # x
    BY <1>2, <1>3, <1>5, <2>1, RunStays DEF BackupInv
  <2>2. CASE y = x
    <3>1. backup[x].rank >= 1 /\ RunHolds(x)
      BY <1>2 DEF BackupInv, PickedIsSuperseded
    <3>2. backup[x].stage \notin Unrecorded
      BY <3>1 DEF RunHolds
    <3>. QED  BY <1>2, <1>5, <2>2, <3>1, <3>2 DEF RunHolds, Unrecorded
  <2>. QED  BY <2>1, <2>2
<1>. QED  BY <1>4, <1>5, <1>6 DEF BackupInv

LEMMA PruneCommitsKeep == ASSUME BackupInv, NEW r \in Runs, PruneCommits(r) PROVE BackupInv'
<1>1. /\ backup[r].stage = "pruning" /\ UNCHANGED <<clock, schedule, disk>>
      /\ backup' = [x \in Runs |->
                      [backup[x] EXCEPT !.stage = IF x = r THEN "done" ELSE @,
                                        !.row = IF x \in backup[r].doomed THEN "deleted" ELSE @]]
  BY DEF PruneCommits
<1>2. ASSUME NEW x \in Runs
      PROVE  /\ backup'[x] \in BackupRow
             /\ backup'[x].rank = backup[x].rank /\ backup'[x].finished = backup[x].finished
             /\ backup'[x].doomed = backup[x].doomed /\ backup'[x].kept = backup[x].kept
             /\ backup'[x].made = backup[x].made /\ backup'[x].owner = backup[x].owner
             /\ backup'[x].stage = backup[x].stage \/ (x = r /\ backup'[x].stage = "done")
             /\ backup'[x].row = backup[x].row \/ (Picked(x) /\ backup'[x].row = "deleted")
  <2>1. PICK a, b : /\ backup'[x] = [backup[x] EXCEPT !.stage = a, !.row = b]
                    /\ a = (IF x = r THEN "done" ELSE backup[x].stage)
                    /\ b = (IF x \in backup[r].doomed THEN "deleted" ELSE backup[x].row)
    BY <1>1
  <2>2. backup[x] \in BackupRow
    BY DEF BackupInv, RowsTyped
  <2>3. (a = backup[x].stage \/ (x = r /\ a = "done")) /\ (b = backup[x].row \/ (Picked(x) /\ b = "deleted"))
    BY <2>1 DEF Picked
  <2>. QED  BY <2>1, <2>2, <2>3 DEF BackupRow
<1>3. RowsTyped'
  <2>1. backup' \in [Runs -> BackupRow]
    <3>1. backup' = [x \in Runs |-> backup'[x]]
      BY <1>1
    <3>. QED  BY <1>2, <3>1
  <2>. QED  BY <1>1, <2>1 DEF BackupInv, RowsTyped, ScheduleTyped, Archive
<1>4. InOrder' /\ PickedIsSuperseded' /\ \A x \in Runs : Picked(x)' <=> Picked(x)
  BY <1>2, OrderKeeps
<1>5. ASSUME NEW x \in Runs PROVE RunHolds(x)'
  <2>1. RunHolds(x)
    BY DEF BackupInv
  <2>2. Picked(x) => backup[x].rank >= 1
    BY DEF BackupInv, PickedIsSuperseded
  <2>3. backup[x].rank >= 1 => backup[x].stage \notin Unrecorded /\ backup[x].row \in {"success", "deleted"}
    BY <2>1 DEF RunHolds
  <2>. QED  BY <1>1, <1>2, <1>4, <2>1, <2>2, <2>3 DEF RunHolds, Unrecorded, Unopened
<1>. QED  BY <1>3, <1>4, <1>5 DEF BackupInv

LEMMA BackupsStep == BackupInv /\ [BackupNext]_backupVars => BackupInv'
<1> SUFFICES ASSUME BackupInv, [BackupNext]_backupVars PROVE BackupInv'
  OBVIOUS
<1>1. CASE UNCHANGED backupVars
  BY <1>1, SchedulesMayMove DEF backupVars, BackupInv, RowsTyped, ScheduleTyped
<1>2. CASE PollDue \/ PollCommits \/ \E s \in Schedules : CreateSchedule(s) \/ UpdateSchedule(s)
  BY <1>2, ScheduleEditsKeep
<1>3. CASE EnqueueArchive \/ \E s \in Schedules : RunScheduleNow(s)
  BY <1>3, EnqueueKeeps DEF EnqueueArchive, RunScheduleNow
<1>4. ASSUME NEW s \in Schedules, PollFires(s) PROVE BackupInv'
  <2>1. CASE \E r \in Runs : Enqueue(r, s)
    BY <1>4, <2>1, EnqueueKeeps DEF PollFires
  <2>2. CASE backup' = backup
    BY <1>4, <2>2, SchedulesMayMove DEF PollFires, BackupInv, RowsTyped, ScheduleTyped
  <2>. QED  BY <1>4, <2>1, <2>2 DEF PollFires
<1>5. CASE RestartBackups
  <2>1. UNCHANGED <<clock, schedule, disk>> /\ backup' = [r \in Runs |-> Stopped(r)]
    BY <1>5 DEF RestartBackups
  <2>2. \A r \in Runs : backup'[r] \in {backup[r], [backup[r] EXCEPT !.stage = "gone"]}
    BY <2>1 DEF Stopped
  <2>. QED  BY <2>1, <2>2, StopKeeps
<1>6. ASSUME NEW r \in Runs, CancelRun(r) PROVE BackupInv'
  <2>1. backup' = [backup EXCEPT ![r] = [backup[r] EXCEPT !.stage = "gone"]] /\ UNCHANGED <<clock, schedule, disk>>
    BY <1>6 DEF CancelRun, Stopped
  <2>. QED  BY <2>1, RunEndsKeeps
<1>7. ASSUME NEW r \in Runs, FailRun(r) PROVE BackupInv'
  <2>1. /\ backup' = [backup EXCEPT ![r] = [backup[r] EXCEPT !.stage = "failed", !.row = "failed"]]
        /\ backup[r].stage \in {"resolving", "writing"} /\ UNCHANGED <<clock, schedule, disk>>
    BY <1>7 DEF FailRun, BackupInv, RowsTyped
  <2>. QED  BY <2>1, RunEndsKeeps
<1>. QED
  BY <1>1, <1>2, <1>3, <1>4, <1>5, <1>6, <1>7, DeleteScheduleKeeps, BeginRunKeeps, OpenKeeps,
     FinishArchiveKeeps, RecordKeeps, SelectKeeps, PruneDeletesKeep, PruneCommitsKeep, TickKeeps
  DEF BackupNext

LEMMA ArchivesHold == BackupInv => SuccessHasItsArchive
  BY DEF BackupInv, RunHolds, SuccessHasItsArchive, Succeeded, PathOf, Mine, Picked

\* Only a prune empties a path, and what it picked is superseded.
LEMMA PrunesAreEarned ==
    ASSUME BackupInv, [BackupNext]_backupVars, NEW x \in Runs,
           disk[PathOf(x)] # Nothing, disk'[PathOf(x)] = Nothing
    PROVE  /\ backup[x].made # NoSchedule
           /\ \/ \E r \in Runs : backup[r].kept = 0
              \/ \E y \in Succeeded : /\ backup[y].made = backup[x].made /\ backup[y].rank > backup[x].rank
                                      /\ disk[PathOf(y)].whole
<1>1. disk[x] # Nothing /\ disk'[x] = Nothing
  BY DEF PathOf
<1>2. PICK r \in Runs : OpenArchive(r) \/ FinishArchive(r) \/ PruneDeletes(r)
  BY <1>1 DEF BackupNext, backupVars, CreateSchedule, UpdateSchedule, DeleteSchedule, RunScheduleNow,
     PollFires, BeginRun, FailRun, RecordSuccess, PruneSelects, PruneCommits, CancelRun, EnqueueArchive,
     PollDue, PollCommits, RestartBackups, Tick
<1>3. DOMAIN disk = Runs /\ Archive(disk[r])
  BY DEF BackupInv, RowsTyped
<1>4. Picked(x)
  <2>1. CASE OpenArchive(r)
    <3>1. disk' = [disk EXCEPT ![r] = [by |-> IF Compressed(r) THEN {r} ELSE @.by \union {r}, whole |-> FALSE]]
      BY <2>1 DEF OpenArchive, PathOf
    <3>2. \E u : r \in u /\ disk' = [disk EXCEPT ![r] = [by |-> u, whole |-> FALSE]]
      BY <3>1
    <3>. QED  BY <1>1, <1>3, <3>2 DEF Nothing
  <2>2. CASE FinishArchive(r)
    BY <1>1, <1>3, <2>2 DEF FinishArchive, PathOf, Nothing, Archive
  <2>3. CASE PruneDeletes(r)
    BY <1>1, <1>3, <2>3 DEF PruneDeletes, PathOf, Picked
  <2>. QED  BY <1>2, <2>1, <2>2, <2>3
<1>5. backup[x].made # NoSchedule /\ (KeepsNone \/ \E y \in Runs : Supersedes(y, x))
  BY <1>4 DEF BackupInv, PickedIsSuperseded
<1>6. ASSUME NEW y \in Runs, Supersedes(y, x)
      PROVE  y \in Succeeded /\ backup[y].made = backup[x].made /\ backup[y].rank > backup[x].rank
             /\ disk[PathOf(y)].whole
  <2>1. backup[y].row = "success" /\ ~Picked(y) /\ RunHolds(y)
    BY <1>6 DEF Supersedes, BackupInv
  <2>2. disk[y] = Mine(y)
    BY <2>1 DEF RunHolds
  <2>. QED  BY <1>6, <2>1, <2>2 DEF Supersedes, Succeeded, PathOf, Mine
<1>. QED  BY <1>5, <1>6 DEF KeepsNone

-----------------------------------------------------------------------------
(* Retention.  What a run is about to delete, and what policies removed,    *)
(* was for the rule it fell under too old, or had as many versions that     *)
(* were ever pushed above it as the rule keeps (Justified): no later push,  *)
(* removal, day or edit changes that.  That enough of those above were      *)
(* themselves never ranked out follows: the foremost that was ranked out    *)
(* had enough above it, and none of them was.                               *)

Rows == [id : Policies, rule : Rules]
Justified(c, r) == AgedOut(c, r) \/ (r.keep # Unset /\ Cardinality(Higher(c)) >= r.keep)

ComponentTyped(c) ==
    /\ nexus[c] = [there |-> nexus[c].there, date |-> nexus[c].date, by |-> nexus[c].by,
                   under |-> nexus[c].under]
    /\ nexus[c].date \in Nat \union {Undated}
    /\ nexus[c].there => nexus[c].by = Nobody
    /\ nexus[c].by \in Policies => nexus[c].under \in Rules
PolicyTyped(p) ==
    /\ policy[p] = [live |-> policy[p].live, enabled |-> policy[p].enabled, rule |-> policy[p].rule,
                    had |-> policy[p].had, interval |-> policy[p].interval, next |-> policy[p].next]
    /\ policy[p].rule \in policy[p].had /\ policy[p].had \subseteq Rules
SweepTyped(w) ==
    /\ w = [stage |-> w.stage, scope |-> w.scope, dry |-> w.dry, todo |-> w.todo, now |-> w.now,
            targets |-> w.targets]
    /\ w.scope \in Policies \union {Everyone}
    /\ w.todo \subseteq Rows /\ w.targets \subseteq Components
    /\ w.stage \in {"listing", "deleting"} => w.now \in Rows
    /\ w.stage # "deleting" => w.targets = {}
PollTyped ==
    /\ duePoll = [rows |-> duePoll.rows, fired |-> duePoll.fired, busy |-> duePoll.busy, at |-> duePoll.at]
    /\ duePoll.rows \subseteq Policies

RetentionTypes ==
    /\ day \in Nat
    /\ DOMAIN nexus = Components /\ \A c \in Components : ComponentTyped(c)
    /\ DOMAIN policy = Policies /\ \A p \in Policies : PolicyTyped(p)
    /\ DOMAIN sweep = Sweeps /\ \A j \in Sweeps : SweepTyped(sweep[j])
    /\ PollTyped

\* What some run has left to delete under a rule, and what was deleted under it.
Condemned(c, r) ==
    \/ nexus[c].by \in Policies /\ nexus[c].under = r
    \/ \E j \in Sweeps : sweep[j].stage = "deleting" /\ sweep[j].now.rule = r /\ c \in sweep[j].targets

RetentionInv ==
    /\ RetentionTypes
    /\ \A c \in Components, r \in Rules :
         Condemned(c, r) => Pushed(c) /\ RepoOf[c] = r.repo /\ Justified(c, r)

LEMMA RuleLimits ==
    ASSUME NEW r \in Rules
    PROVE  r.keep \in Nat \union {Unset} /\ r.age \in Nat \union {Unset}
BY RetentionAssumption DEF Rules

LEMMA NewSweepTyped ==
    ASSUME NEW stage, stage \notin {"listing", "deleting"}, NEW w, w = [NewSweep EXCEPT !.stage = stage]
    PROVE  SweepTyped(w) /\ w.targets = {} /\ w.todo = {} /\ w.stage = stage
<1>1. PICK dry : dry = FALSE
  OBVIOUS
<1>2. w = [stage |-> stage, scope |-> Everyone, dry |-> dry, todo |-> {}, now |-> Everyone, targets |-> {}]
  BY <1>1 DEF NewSweep
<1>3. w.stage = stage /\ w.scope = Everyone /\ w.dry = dry /\ w.todo = {} /\ w.now = Everyone /\ w.targets = {}
  BY <1>2
<1>4. w = [stage |-> w.stage, scope |-> w.scope, dry |-> w.dry, todo |-> w.todo, now |-> w.now,
           targets |-> w.targets]
  BY <1>2, <1>3
<1>. QED  BY <1>3, <1>4 DEF SweepTyped

LEMMA RetentionStarts == RetentionInit => RetentionInv
<1> SUFFICES ASSUME RetentionInit PROVE RetentionInv
  OBVIOUS
<1>1. /\ day = 0
      /\ nexus = [c \in Components |-> [there |-> FALSE, date |-> Undated, by |-> Nobody, under |-> Unset]]
      /\ sweep = [j \in Sweeps |-> NewSweep] /\ duePoll = NoPoll
  BY DEF RetentionInit
<1>2. \A c \in Components : ComponentTyped(c) /\ nexus[c].by = Nobody
  BY <1>1, RetentionAssumption DEF ComponentTyped
<1>3. DOMAIN policy = Policies /\ \A p \in Policies : PolicyTyped(p)
  <2>1. PICK g \in [Policies -> Rules] :
          policy = [p \in Policies |-> [live |-> TRUE, enabled |-> TRUE, rule |-> g[p], had |-> {g[p]},
                                        interval |-> Unset, next |-> Unset]]
    BY DEF RetentionInit
  <2>. QED  BY <2>1 DEF PolicyTyped
<1>4. \A j \in Sweeps : SweepTyped(sweep[j]) /\ sweep[j].stage = "none"
  BY <1>1 DEF SweepTyped, NewSweep
<1>5. RetentionTypes
  BY <1>1, <1>2, <1>3, <1>4 DEF RetentionTypes, PollTyped, NoPoll
<1>6. \A c \in Components, r \in Rules : ~Condemned(c, r)
  BY <1>2, <1>4, RetentionAssumption DEF Condemned
<1>. QED  BY <1>5, <1>6 DEF RetentionInv

\* Who is ahead of one who is ahead is ahead.
LEMMA AheadIsAnOrder ==
    ASSUME RetentionTypes, NEW c \in Components, NEW d \in Components
    PROVE  /\ ~Ahead(c, c)
           /\ \A e \in Components : Ahead(e, d) /\ Ahead(d, c) => Ahead(e, c)
<1>1. \A x \in Components : nexus[x].date \in Nat \union {Undated} /\ x \in Nat
  BY RetentionAssumption DEF RetentionTypes, ComponentTyped
<1>2. Undated \notin Nat
  BY RetentionAssumption
<1>3. ~Ahead(c, c)
  BY <1>1, <1>2 DEF Ahead, Level
<1>4. ASSUME NEW e \in Components, Ahead(e, d), Ahead(d, c) PROVE Ahead(e, c)
  BY <1>1, <1>2, <1>4 DEF Ahead, Level
<1>. QED  BY <1>3, <1>4

\* Of any versions one is the foremost.
LEMMA Foremost ==
    ASSUME RetentionTypes, NEW S \in SUBSET Components, S # {}
    PROVE  \E m \in S : \A e \in S : ~Ahead(e, m)
<1> DEFINE Below(d) == {e \in S : Ahead(d, e)}
           f == [d \in S |-> Cardinality(Below(d))]
<1>1. IsFiniteSet(S)
  BY RetentionAssumption, FS_Subset
<1>2. ASSUME NEW d \in S PROVE IsFiniteSet(Below(d)) /\ Cardinality(Below(d)) \in Nat
  <2>1. Below(d) \in SUBSET S
    OBVIOUS
  <2> HIDE DEF Below
  <2>. QED  BY <1>1, <2>1, FS_Subset, FS_CardinalityType
<1>3. f \in [S -> Nat]
  <2> HIDE DEF Below
  <2>. QED  BY <1>2
<1>4. PICK m \in S : \A d \in S : f[d] <= f[m]
  <2> HIDE DEF f
  <2>. QED  BY <1>1, <1>3, HighestOf
<1>5. ASSUME NEW e \in S, Ahead(e, m) PROVE FALSE
  <2>1. Below(m) \in SUBSET Below(e)
    BY <1>5, AheadIsAnOrder
  <2>2. m \in Below(e) /\ m \notin Below(m)
    BY <1>5, AheadIsAnOrder
  <2>3. f[e] <= f[m] /\ f[e] = Cardinality(Below(e)) /\ f[m] = Cardinality(Below(m))
    BY <1>4
  <2> HIDE DEF Below, f
  <2>4. Cardinality(Below(m)) <= Cardinality(Below(e))
        /\ (Cardinality(Below(e)) = Cardinality(Below(m)) => Below(e) = Below(m))
    BY <1>2, <2>1, FS_Subset
  <2>. QED  BY <1>2, <2>2, <2>3, <2>4
<1>. QED  BY <1>5

(* What happens to others - a push, a removal, a day that passes - leaves   *)
(* what was justified justified.                                            *)
LEMMA JustifiedStays ==
    ASSUME RetentionTypes, RetentionTypes', NEW r \in Rules, NEW c \in Components, Pushed(c), Justified(c, r),
           day' >= day,
           \A d \in Components : Pushed(d) => Pushed(d)' /\ nexus'[d].date = nexus[d].date
    PROVE  Justified(c, r)'
<1>1. CASE AgedOut(c, r)
  <2>1. AgedOut(c, r)'
    BY <1>1, RuleLimits, RetentionAssumption DEF AgedOut, ExceedsAge, RetentionTypes, ComponentTyped
  <2>. QED  BY <2>1 DEF Justified
<1>2. CASE r.keep # Unset /\ Cardinality(Higher(c)) >= r.keep
  <2>1. Higher(c) \in SUBSET Higher(c)' /\ Higher(c)' \in SUBSET Components
    BY DEF Higher, Ahead, Level
  <2>2. IsFiniteSet(Higher(c)')
    BY <2>1, RetentionAssumption, FS_Subset
  <2>3. Cardinality(Higher(c)) <= Cardinality(Higher(c)')
        /\ Cardinality(Higher(c)) \in Nat /\ Cardinality(Higher(c)') \in Nat
    BY <2>1, <2>2, FS_Subset, FS_CardinalityType
  <2>4. r.keep \in Nat
    BY <1>2, RuleLimits
  <2>5. Cardinality(Higher(c)') >= r.keep
    BY <1>2, <2>3, <2>4
  <2>. QED  BY <1>2, <2>5 DEF Justified
<1>. QED  BY <1>1, <1>2 DEF Justified

\* A step that condemns nothing but what is justified.
LEMMA RetentionKeeps ==
    ASSUME RetentionInv, RetentionTypes', day' >= day,
           \A d \in Components : Pushed(d) => Pushed(d)' /\ nexus'[d].date = nexus[d].date,
           \A c \in Components, r \in Rules :
             Condemned(c, r)' => Condemned(c, r) \/ (Pushed(c) /\ RepoOf[c] = r.repo /\ Justified(c, r))
    PROVE  RetentionInv'
<1> SUFFICES ASSUME NEW c \in Components, NEW r \in Rules, Condemned(c, r)'
             PROVE  Pushed(c)' /\ RepoOf[c] = r.repo /\ Justified(c, r)'
  BY DEF RetentionInv
<1>1. Pushed(c) /\ RepoOf[c] = r.repo /\ Justified(c, r)
  BY DEF RetentionInv
<1>2. Justified(c, r)'
  BY <1>1, JustifiedStays DEF RetentionInv
<1>. QED  BY <1>1, <1>2

\* One run moves, and nothing in Nexus or of the policies.
LEMMA SweepMoves ==
    ASSUME RetentionInv, UNCHANGED <<day, nexus, policy>>, PollTyped',
           NEW j \in Sweeps, NEW to, sweep' = [sweep EXCEPT ![j] = to], SweepTyped(to),
           to.targets = {} \/ (to.targets \subseteq sweep[j].targets /\ to.now = sweep[j].now)
    PROVE  RetentionInv'
<1>1. sweep'[j] = to /\ DOMAIN sweep' = Sweeps /\ \A i \in Sweeps \ {j} : sweep'[i] = sweep[i]
  BY DEF RetentionInv, RetentionTypes
<1>2. RetentionTypes'
  <2>1. \A i \in Sweeps : SweepTyped(sweep'[i])
    BY <1>1 DEF RetentionInv, RetentionTypes
  <2>2. \A c \in Components : ComponentTyped(c)'
    BY DEF RetentionInv, RetentionTypes, ComponentTyped
  <2>3. \A p \in Policies : PolicyTyped(p)'
    BY DEF RetentionInv, RetentionTypes, PolicyTyped
  <2>. QED  BY <1>1, <2>1, <2>2, <2>3 DEF RetentionInv, RetentionTypes, SweepTyped
<1>3. \A c \in Components, r \in Rules : Condemned(c, r)' => Condemned(c, r)
  <2>1. sweep[j].targets # {} => sweep[j].stage = "deleting"
    BY DEF RetentionInv, RetentionTypes, SweepTyped
  <2>. QED  BY <1>1, <2>1 DEF Condemned
<1>. QED  BY <1>2, <1>3, RetentionKeeps DEF Pushed, RetentionInv, RetentionTypes

\* What is begun, gone on with or ended.
LEMMA SweepControlKeeps ==
    ASSUME RetentionInv, NEW j \in Sweeps,
           BeginSweep(j) \/ NextPolicy(j) \/ FinishPolicy(j) \/ AbortSweep(j)
    PROVE  RetentionInv'
<1>1. SweepTyped(sweep[j]) /\ UNCHANGED <<day, nexus, policy, duePoll>>
  BY DEF BeginSweep, NextPolicy, FinishPolicy, AbortSweep, RetentionInv, RetentionTypes
<1>2. PollTyped'
  BY <1>1 DEF RetentionInv, RetentionTypes, PollTyped
<1>3. ASSUME NEW stage \in {"done", "failed"}, Ends(j, stage) PROVE RetentionInv'
  <2>1. PICK to : to = [NewSweep EXCEPT !.stage = stage]
    OBVIOUS
  <2>2. SweepTyped(to) /\ to.targets = {}
    BY <2>1, NewSweepTyped
  <2>. QED  BY <1>1, <1>2, <1>3, <2>1, <2>2, SweepMoves DEF Ends
<1>4. ASSUME NEW todo \in SUBSET Rows, Begin(j, todo), sweep[j].stage = "queued" PROVE RetentionInv'
  <2>1. PICK to : /\ to = [sweep[j] EXCEPT !.stage = "next", !.todo = todo]
                  /\ sweep' = [sweep EXCEPT ![j] = to]
    BY <1>4 DEF Begin, RetentionInv, RetentionTypes
  <2>2. SweepTyped(to) /\ to.targets = {}
    BY <1>1, <1>4, <2>1 DEF SweepTyped
  <2>. QED  BY <1>1, <1>2, <2>1, <2>2, SweepMoves
<1>5. ASSUME NEW row \in sweep[j].todo, sweep[j].stage = "next",
             sweep' = [sweep EXCEPT ![j].stage = "listing", ![j].todo = @ \ {row}, ![j].now = row]
      PROVE  RetentionInv'
  <2>1. PICK to : /\ to = [sweep[j] EXCEPT !.stage = "listing", !.todo = @ \ {row}, !.now = row]
                  /\ sweep' = [sweep EXCEPT ![j] = to]
    BY <1>5 DEF RetentionInv, RetentionTypes
  <2>2. SweepTyped(to) /\ to.targets = {}
    <3>1. row \in Rows /\ sweep[j].todo \ {row} \subseteq Rows
      BY <1>1, <1>5 DEF SweepTyped
    <3>. QED  BY <1>1, <1>5, <2>1, <3>1 DEF SweepTyped
  <2>. QED  BY <1>1, <1>2, <2>1, <2>2, SweepMoves
<1>6. ASSUME Go(j, "next"), sweep[j].targets = {} PROVE RetentionInv'
  <2>1. PICK to : to = [sweep[j] EXCEPT !.stage = "next"] /\ sweep' = [sweep EXCEPT ![j] = to]
    BY <1>6 DEF Go, RetentionInv, RetentionTypes
  <2>2. SweepTyped(to) /\ to.targets = {}
    BY <1>1, <1>6, <2>1 DEF SweepTyped
  <2>. QED  BY <1>1, <1>2, <2>1, <2>2, SweepMoves
<1>7. CASE BeginSweep(j)
  <2>1. ASSUME NEW S \in SUBSET Policies PROVE {Row(q) : q \in S} \in SUBSET Rows
    BY DEF Row, Rows, RetentionInv, RetentionTypes, PolicyTyped
  <2>2. ASSUME NEW p \in Policies PROVE {Row(p)} \in SUBSET Rows
    BY DEF Row, Rows, RetentionInv, RetentionTypes, PolicyTyped
  <2>3. {p \in Policies : Runnable(p) /\ policy[p].interval = Unset} \in SUBSET Policies
        /\ (sweep[j].scope # Everyone => sweep[j].scope \in Policies)
    BY <1>1 DEF SweepTyped
  <2>. QED  BY <1>3, <1>4, <1>7, <2>1, <2>2, <2>3 DEF BeginSweep
<1>8. CASE NextPolicy(j)
  BY <1>3, <1>5, <1>8 DEF NextPolicy
<1>9. CASE FinishPolicy(j)
  BY <1>3, <1>6, <1>9 DEF FinishPolicy
<1>10. CASE AbortSweep(j)
  BY <1>3, <1>10 DEF AbortSweep
<1>. QED  BY <1>7, <1>8, <1>9, <1>10

LEMMA QueueKeeps ==
    ASSUME RetentionInv, NEW j \in Sweeps, NEW scope \in Policies \union {Everyone}, NEW dry,
           Unused(j), Queue(j, scope, dry), UNCHANGED <<day, nexus, policy>>,
           PollTyped'
    PROVE  RetentionInv'
<1>1. SweepTyped(sweep[j]) /\ sweep[j].stage = "none"
  BY DEF Unused, RetentionInv, RetentionTypes
<1>2. PICK to : /\ to = [sweep[j] EXCEPT !.stage = "queued", !.scope = scope, !.dry = dry]
                /\ sweep' = [sweep EXCEPT ![j] = to]
  BY DEF Queue, RetentionInv, RetentionTypes
<1>3. SweepTyped(to) /\ to.targets = {}
  BY <1>1, <1>2 DEF SweepTyped
<1>. QED  BY <1>2, <1>3, SweepMoves

\* No edit of a policy reaches what a run has read.
LEMMA PoliciesMove ==
    ASSUME RetentionInv, UNCHANGED <<day, nexus, sweep>>,
           DOMAIN policy' = Policies, \A p \in Policies : PolicyTyped(p)', PollTyped'
    PROVE  RetentionInv'
<1>1. RetentionTypes'
  <2>1. \A c \in Components : ComponentTyped(c)'
    BY DEF RetentionInv, RetentionTypes, ComponentTyped
  <2>. QED  BY <2>1 DEF RetentionInv, RetentionTypes
<1>2. \A c \in Components, r \in Rules : Condemned(c, r)' => Condemned(c, r)
  BY DEF Condemned
<1>. QED  BY <1>1, <1>2, RetentionKeeps DEF Pushed, RetentionInv, RetentionTypes

\* What a step may do to a policy's row: its switch or cadence, or a new rule, remembered.
LEMMA HowPoliciesMove ==
    ASSUME RetentionInv, NEW q \in Policies,
           PollDuePolicies \/ PoliciesAdvance \/ \E p \in Policies : UpdatePolicy(p) \/ DeletePolicy(p)
    PROVE  \/ policy'[q] = policy[q]
           \/ \E e : policy'[q] = [policy[q] EXCEPT !.live = e]
           \/ \E n : policy'[q] = [policy[q] EXCEPT !.next = n]
           \/ \E l, e, i, n : \E r \in Rules :
                policy'[q] = [live |-> l, enabled |-> e, rule |-> r, had |-> policy[q].had \union {r},
                              interval |-> i, next |-> n]
<1>0. DOMAIN policy = Policies
  BY DEF RetentionInv, RetentionTypes
<1>1. CASE PollDuePolicies
  BY <1>1 DEF PollDuePolicies
<1>2. CASE PoliciesAdvance
  BY <1>2 DEF PoliciesAdvance
<1>3. ASSUME NEW p \in Policies, DeletePolicy(p)
      PROVE  policy'[q] = policy[q] \/ \E e : policy'[q] = [policy[q] EXCEPT !.live = e]
  BY <1>0, <1>3 DEF DeletePolicy
<1>4. ASSUME NEW p \in Policies, UpdatePolicy(p)
      PROVE  \/ policy'[q] = policy[q]
             \/ \E l, e, i, n : \E r \in Rules :
                  policy'[q] = [live |-> l, enabled |-> e, rule |-> r, had |-> policy[q].had \union {r},
                                interval |-> i, next |-> n]
  <2>1. PICK e \in BOOLEAN, r \in Rules :
          \E c : policy' = [policy EXCEPT ![p] = [live |-> TRUE, enabled |-> e, rule |-> r,
                                                  had |-> @.had \union {r}, interval |-> c.at, next |-> c.next]]
    BY <1>4 DEF UpdatePolicy
  <2>2. CASE q = p
    <3>1. \E c : policy'[q] = [live |-> TRUE, enabled |-> e, rule |-> r, had |-> policy[q].had \union {r},
                               interval |-> c.at, next |-> c.next]
      BY <1>0, <2>1, <2>2
    <3>. QED  BY <3>1
  <2>3. CASE q # p
    BY <1>0, <2>1, <2>3
  <2>. QED  BY <2>2, <2>3
<1>. QED  BY <1>1, <1>2, <1>3, <1>4

LEMMA PolicyEditsKeep ==
    ASSUME RetentionInv,
           PollDuePolicies \/ PoliciesAdvance \/ \E p \in Policies : UpdatePolicy(p) \/ DeletePolicy(p)
    PROVE  /\ RetentionInv'
           /\ \A q \in Policies : policy[q].had \subseteq policy'[q].had
<1>1. UNCHANGED <<day, nexus, sweep>> /\ PollTyped'
  <2>1. CASE PollDuePolicies
    BY <2>1 DEF PollDuePolicies, PollTyped
  <2>2. CASE PoliciesAdvance
    BY <2>2 DEF PoliciesAdvance, NoPoll, PollTyped
  <2>3. CASE \E p \in Policies : UpdatePolicy(p) \/ DeletePolicy(p)
    BY <2>3 DEF UpdatePolicy, DeletePolicy, RetentionInv, RetentionTypes, PollTyped
  <2>. QED  BY <2>1, <2>2, <2>3
<1>2. DOMAIN policy' = Policies
  BY DEF PollDuePolicies, PoliciesAdvance, UpdatePolicy, DeletePolicy, RetentionInv, RetentionTypes
<1>3. ASSUME NEW q \in Policies PROVE PolicyTyped(q)' /\ policy[q].had \subseteq policy'[q].had
  <2>0. PolicyTyped(q)
    BY DEF RetentionInv, RetentionTypes
  <2>1. CASE policy'[q] = policy[q]
    BY <2>0, <2>1 DEF PolicyTyped
  <2>2. CASE \E e : policy'[q] = [policy[q] EXCEPT !.live = e]
    BY <2>0, <2>2 DEF PolicyTyped
  <2>3. CASE \E n : policy'[q] = [policy[q] EXCEPT !.next = n]
    BY <2>0, <2>3 DEF PolicyTyped
  <2>4. CASE \E l, e, i, n : \E r \in Rules :
               policy'[q] = [live |-> l, enabled |-> e, rule |-> r, had |-> policy[q].had \union {r},
                             interval |-> i, next |-> n]
    <3>1. PICK l, e, i, n : \E r \in Rules :
            policy'[q] = [live |-> l, enabled |-> e, rule |-> r, had |-> policy[q].had \union {r},
                          interval |-> i, next |-> n]
      BY <2>4
    <3>. QED  BY <2>0, <3>1 DEF PolicyTyped
  <2>. QED  BY <2>1, <2>2, <2>3, <2>4, HowPoliciesMove
<1>. QED  BY <1>1, <1>2, <1>3, PoliciesMove

LEMMA OutsideKeepsRetention ==
    ASSUME RetentionInv,
           NextDay \/ \E c \in Components : Push(c) \/ DeleteComponents(c)
    PROVE  RetentionInv'
<1>1. UNCHANGED <<policy, sweep, duePoll>> /\ day' >= day /\ day' \in Nat
  <2>1. UNCHANGED <<policy, sweep, duePoll>> /\ (day' = day \/ day' = day + 1)
    BY DEF NextDay, Push, DeleteComponents
  <2>. QED  BY <2>1 DEF RetentionInv, RetentionTypes
<1>2. DOMAIN nexus = Components /\ \A c \in Components : ComponentTyped(c)
  BY DEF RetentionInv, RetentionTypes
<1>3. DOMAIN nexus' = Components
  BY <1>2 DEF NextDay, Push, DeleteComponents, Remove
<1>4. ASSUME NEW d \in Components
      PROVE  /\ ComponentTyped(d)' /\ (Pushed(d) => Pushed(d)' /\ nexus'[d].date = nexus[d].date)
             /\ nexus'[d].by \in Policies => nexus'[d] = nexus[d]
  <2>0. ComponentTyped(d)
    BY <1>2
  <2>1. CASE nexus'[d] = nexus[d]
    BY <2>0, <2>1 DEF ComponentTyped, Pushed
  <2>2. CASE Push(d)
    <3>1. PICK t \in Nat \union {Undated} :
            nexus'[d] = [there |-> TRUE, date |-> t, by |-> Nobody, under |-> Unset]
      BY <1>2, <2>2 DEF Push, RetentionInv, RetentionTypes
    <3>2. ~Pushed(d) /\ Nobody \notin Policies
      BY <2>2, RetentionAssumption DEF Push, Pushed
    <3>. QED  BY <3>1, <3>2 DEF ComponentTyped
  <2>3. CASE DeleteComponents(d)
    <3>1. nexus'[d] = [there |-> FALSE, date |-> nexus[d].date, by |-> User, under |-> Unset]
      BY <1>2, <2>3 DEF DeleteComponents, Remove
    <3>2. User # Nobody /\ User \notin Policies
      BY RetentionAssumption
    <3>. QED  BY <2>0, <3>1, <3>2 DEF ComponentTyped, Pushed
  <2>. QED
    BY <1>2, <2>1, <2>2, <2>3 DEF NextDay, Push, DeleteComponents, Remove
<1>5. RetentionTypes'
  BY <1>1, <1>3, <1>4 DEF RetentionInv, RetentionTypes, PolicyTyped, PollTyped
<1>6. \A c \in Components, r \in Rules : Condemned(c, r)' => Condemned(c, r)
  BY <1>1, <1>4 DEF Condemned
<1>. QED  BY <1>1, <1>4, <1>5, <1>6, RetentionKeeps

(* Selection is by the row's rule: those that rank high enough to be kept   *)
(* were all listed, so all of them were pushed.                             *)
LEMMA SelectionIsJustified ==
    ASSUME RetentionInv, NEW r \in Rules, NEW listed,
           listed = {c \in Components : nexus[c].there /\ RepoOf[c] = r.repo},
           NEW c \in Selected(r, listed)
    PROVE  c \in Components /\ Pushed(c) /\ RepoOf[c] = r.repo /\ Justified(c, r)
<1>1. c \in listed /\ c \in Components /\ RepoOf[c] = r.repo /\ Pushed(c)
  BY DEF Selected, Pushed
<1>2. CASE AgedOut(c, r)
  BY <1>1, <1>2 DEF Justified
<1>3. CASE r.keep # Unset /\ c \in BeyondKept(listed, r.keep)
  <2> DEFINE above == {d \in listed : SameGroup(d, c) /\ Ahead(d, c)}
  <2>1. Cardinality(above) >= r.keep
    BY <1>3 DEF BeyondKept
  <2>2. above \in SUBSET Higher(c) /\ Higher(c) \in SUBSET Components
    BY <1>1 DEF Higher, SameGroup, Pushed
  <2> HIDE DEF above
  <2>3. IsFiniteSet(Higher(c))
    BY <2>2, RetentionAssumption, FS_Subset
  <2>4. Cardinality(above) <= Cardinality(Higher(c)) /\ Cardinality(above) \in Nat
        /\ Cardinality(Higher(c)) \in Nat
    BY <2>2, <2>3, FS_Subset, FS_CardinalityType
  <2>5. r.keep \in Nat
    BY <1>3, RuleLimits
  <2>6. Cardinality(Higher(c)) >= r.keep
    <3>1. \A a, b, n \in Nat : a >= n /\ a <= b => b >= n
      OBVIOUS
    <3>. QED  BY <2>1, <2>4, <2>5, <3>1
  <2>. QED  BY <1>1, <1>3, <2>6 DEF Justified
<1>. QED  BY <1>1, <1>2, <1>3 DEF Selected

LEMMA SelectForDeletionKeeps ==
    ASSUME RetentionInv, NEW j \in Sweeps, SelectForDeletion(j)
    PROVE  RetentionInv'
<1>1. SweepTyped(sweep[j]) /\ sweep[j].stage = "listing" /\ sweep[j].targets = {}
      /\ UNCHANGED <<day, nexus, policy, duePoll>>
  BY DEF SelectForDeletion, RetentionInv, RetentionTypes, SweepTyped
<1>2. PollTyped'
  BY <1>1 DEF RetentionInv, RetentionTypes, PollTyped
<1>3. PICK r \in Rules : r = sweep[j].now.rule
  BY <1>1 DEF SweepTyped, Rows
<1> DEFINE listed == {c \in Components : nexus[c].there /\ RepoOf[c] = r.repo}
           S == IF sweep[j].dry THEN {} ELSE Selected(r, listed)
<1>4. CASE Go(j, "next")
  <2>1. PICK to : to = [sweep[j] EXCEPT !.stage = "next"] /\ sweep' = [sweep EXCEPT ![j] = to]
    BY <1>4 DEF Go, RetentionInv, RetentionTypes
  <2>2. SweepTyped(to) /\ to.targets = {}
    BY <1>1, <2>1 DEF SweepTyped
  <2>. QED  BY <1>1, <1>2, <2>1, <2>2, SweepMoves
<1>5. CASE Ends(j, "failed")
  <2>1. PICK to : to = [NewSweep EXCEPT !.stage = "failed"]
    OBVIOUS
  <2>2. SweepTyped(to) /\ to.targets = {}
    BY <2>1, NewSweepTyped
  <2>. QED  BY <1>1, <1>2, <1>5, <2>1, <2>2, SweepMoves DEF Ends
<1>6. CASE sweep' = [sweep EXCEPT ![j].stage = "deleting", ![j].targets = S]
  <2>1. \A c \in S : c \in Components /\ Pushed(c) /\ RepoOf[c] = r.repo /\ Justified(c, r)
    BY SelectionIsJustified
  <2>2. PICK T : T = S
    OBVIOUS
  <2> HIDE DEF S
  <2>3. PICK to : /\ to = [sweep[j] EXCEPT !.stage = "deleting", !.targets = T]
                  /\ sweep' = [sweep EXCEPT ![j] = to]
    BY <1>6, <2>2 DEF RetentionInv, RetentionTypes
  <2>4. to.stage = "deleting" /\ to.targets = T /\ to.now = sweep[j].now /\ SweepTyped(to)
    <3>1. T \subseteq Components
      BY <2>1, <2>2
    <3>. QED  BY <1>1, <2>3, <3>1 DEF SweepTyped
  <2>5. sweep'[j] = to /\ DOMAIN sweep' = Sweeps /\ \A i \in Sweeps \ {j} : sweep'[i] = sweep[i]
    BY <2>3 DEF RetentionInv, RetentionTypes
  <2>6. RetentionTypes'
    <3>1. \A i \in Sweeps : SweepTyped(sweep'[i])
      BY <2>4, <2>5 DEF RetentionInv, RetentionTypes
    <3>2. \A c \in Components : ComponentTyped(c)'
      BY <1>1 DEF RetentionInv, RetentionTypes, ComponentTyped
    <3>3. \A p \in Policies : PolicyTyped(p)'
      BY <1>1 DEF RetentionInv, RetentionTypes, PolicyTyped
    <3>. QED  BY <1>1, <1>2, <2>5, <3>1, <3>2, <3>3 DEF RetentionInv, RetentionTypes, SweepTyped
  <2>7. ASSUME NEW c \in Components, NEW q \in Rules, Condemned(c, q)'
        PROVE  Condemned(c, q) \/ (Pushed(c) /\ RepoOf[c] = q.repo /\ Justified(c, q))
    <3>1. Condemned(c, q) \/ (c \in T /\ q = r)
      BY <1>1, <1>3, <2>4, <2>5, <2>7 DEF Condemned
    <3>. QED  BY <2>1, <2>2, <3>1
  <2>8. \A d \in Components : Pushed(d) => Pushed(d)' /\ nexus'[d].date = nexus[d].date
    BY <1>1 DEF Pushed
  <2>. QED  BY <1>1, <2>6, <2>7, <2>8, RetentionKeeps DEF RetentionInv, RetentionTypes
<1>. QED  BY <1>3, <1>4, <1>5, <1>6 DEF SelectForDeletion

LEMMA DeleteTargetKeeps ==
    ASSUME RetentionInv, NEW j \in Sweeps, DeleteTarget(j)
    PROVE  RetentionInv'
<1>1. SweepTyped(sweep[j]) /\ sweep[j].stage = "deleting" /\ sweep[j].now \in Rows
      /\ UNCHANGED <<day, policy, duePoll>>
  BY DEF DeleteTarget, RetentionInv, RetentionTypes, SweepTyped
<1>2. PICK x \in sweep[j].targets :
         /\ \/ nexus[x].there /\ Remove(x, sweep[j].now.id, sweep[j].now.rule)
            \/ UNCHANGED nexus
         /\ sweep' = [sweep EXCEPT ![j].targets = @ \ {x}]
  BY DEF DeleteTarget
<1>3. PICK p \in Policies, r \in Rules : p = sweep[j].now.id /\ r = sweep[j].now.rule
  BY <1>1 DEF Rows
<1>4. x \in Components /\ Condemned(x, r)
  BY <1>1, <1>2, <1>3 DEF SweepTyped, Condemned
<1>5. PICK to : to = [sweep[j] EXCEPT !.targets = @ \ {x}] /\ sweep' = [sweep EXCEPT ![j] = to]
  BY <1>2 DEF RetentionInv, RetentionTypes
<1>6. SweepTyped(to) /\ to.stage = "deleting" /\ to.now = sweep[j].now /\ to.targets \subseteq sweep[j].targets
  BY <1>1, <1>5 DEF SweepTyped
<1>7. sweep'[j] = to /\ DOMAIN sweep' = Sweeps /\ \A i \in Sweeps \ {j} : sweep'[i] = sweep[i]
  BY <1>5 DEF RetentionInv, RetentionTypes
<1>8. CASE UNCHANGED nexus
  BY <1>1, <1>5, <1>6, <1>8, SweepMoves DEF RetentionInv, RetentionTypes, PollTyped
<1>9. CASE nexus[x].there /\ Remove(x, p, r)
  <2>1. /\ nexus'[x] = [there |-> FALSE, date |-> nexus[x].date, by |-> p, under |-> r]
        /\ DOMAIN nexus' = Components /\ \A d \in Components \ {x} : nexus'[d] = nexus[d]
        /\ ComponentTyped(x)
    BY <1>4, <1>9 DEF Remove, RetentionInv, RetentionTypes
  <2>2. /\ nexus'[x].by = p /\ nexus'[x].under = r /\ nexus'[x].date = nexus[x].date
        /\ ComponentTyped(x)' /\ Pushed(x)'
    BY <2>1, RetentionAssumption DEF ComponentTyped, Pushed
  <2>3. RetentionTypes'
    <3>1. \A i \in Sweeps : SweepTyped(sweep'[i])
      BY <1>6, <1>7 DEF RetentionInv, RetentionTypes
    <3>2. ASSUME NEW c \in Components PROVE ComponentTyped(c)'
      <4>1. c # x => nexus'[c] = nexus[c] /\ ComponentTyped(c)
        BY <2>1 DEF RetentionInv, RetentionTypes
      <4>. QED  BY <2>2, <4>1 DEF ComponentTyped
    <3>3. \A q \in Policies : PolicyTyped(q)'
      BY <1>1 DEF RetentionInv, RetentionTypes, PolicyTyped
    <3>. QED  BY <1>1, <1>7, <2>1, <3>1, <3>2, <3>3 DEF RetentionInv, RetentionTypes, SweepTyped, PollTyped
  <2>4. \A d \in Components : Pushed(d) => Pushed(d)' /\ nexus'[d].date = nexus[d].date
    BY <2>1, <2>2 DEF Pushed
  <2>5. ASSUME NEW c \in Components, NEW q \in Rules, Condemned(c, q)' PROVE Condemned(c, q)
    <3>1. CASE nexus'[c].by \in Policies /\ nexus'[c].under = q
      BY <1>4, <2>1, <2>2, <3>1 DEF Condemned
    <3>2. CASE \E i \in Sweeps : sweep'[i].stage = "deleting" /\ sweep'[i].now.rule = q /\ c \in sweep'[i].targets
      <4>1. PICK i \in Sweeps : sweep'[i].stage = "deleting" /\ sweep'[i].now.rule = q /\ c \in sweep'[i].targets
        BY <3>2
      <4>2. sweep[i].stage = "deleting" /\ sweep[i].now.rule = q /\ c \in sweep[i].targets
        BY <1>1, <1>6, <1>7, <4>1
      <4>. QED  BY <4>2 DEF Condemned
    <3>. QED  BY <2>5, <3>1, <3>2 DEF Condemned
  <2>. QED  BY <1>1, <2>3, <2>4, <2>5, RetentionKeeps DEF RetentionInv, RetentionTypes
<1>. QED  BY <1>2, <1>3, <1>8, <1>9

LEMMA RetentionStep == RetentionInv /\ [RetentionNext]_retentionVars => RetentionInv'
<1> SUFFICES ASSUME RetentionInv, [RetentionNext]_retentionVars PROVE RetentionInv'
  OBVIOUS
<1>1. CASE UNCHANGED retentionVars
  BY <1>1, PoliciesMove DEF retentionVars, RetentionInv, RetentionTypes, PolicyTyped, PollTyped
<1>2. CASE EnqueueSweep
  BY <1>2, QueueKeeps DEF EnqueueSweep, RetentionInv, RetentionTypes, PollTyped
<1>3. ASSUME NEW p \in Policies, RunPolicyNow(p) \/ PolicyFires(p) PROVE RetentionInv'
  <2>1. /\ UNCHANGED <<day, nexus, policy>> /\ PollTyped'
        /\ \E j \in Sweeps, d \in BOOLEAN : Unused(j) /\ Queue(j, p, d)
    <3>1. CASE RunPolicyNow(p)
      BY <3>1 DEF RunPolicyNow, RetentionInv, RetentionTypes, PollTyped
    <3>2. CASE PolicyFires(p)
      <4>1. PollTyped'
        BY <3>2 DEF PolicyFires, RetentionInv, RetentionTypes, PollTyped
      <4>. QED  BY <3>2, <4>1 DEF PolicyFires
    <3>. QED  BY <1>3, <3>1, <3>2
  <2>. QED  BY <2>1, QueueKeeps
<1>. QED
  BY <1>1, <1>2, <1>3, PolicyEditsKeep, OutsideKeepsRetention, SweepControlKeeps,
     SelectForDeletionKeeps, DeleteTargetKeeps
  DEF RetentionNext

(* The rules that runs have read, and under which components went, are ones *)
(* their policies have had.                                                 *)
HadRule(row) == row.rule \in policy[row.id].had
RowsInHand(w) == w.todo \union (IF w.stage \in {"listing", "deleting"} THEN {w.now} ELSE {})
RulesWereHad ==
    /\ \A j \in Sweeps : \A row \in RowsInHand(sweep[j]) : HadRule(row)
    /\ \A c \in Components : nexus[c].by \in Policies => nexus[c].under \in policy[nexus[c].by].had

LEMMA RulesHadStart == RetentionInit => RulesWereHad
  BY RetentionAssumption DEF RetentionInit, RulesWereHad, RowsInHand, NewSweep

\* The rules a policy has had stay had.
LEMMA HadGrows ==
    ASSUME RetentionInv, [RetentionNext]_retentionVars
    PROVE  \A p \in Policies : policy[p].had \subseteq policy'[p].had
<1>1. CASE PollDuePolicies \/ PoliciesAdvance \/ \E p \in Policies : UpdatePolicy(p) \/ DeletePolicy(p)
  BY <1>1, PolicyEditsKeep
<1>2. CASE ~(PollDuePolicies \/ PoliciesAdvance \/ \E p \in Policies : UpdatePolicy(p) \/ DeletePolicy(p))
  <2>1. UNCHANGED policy
    BY <1>2 DEF RetentionNext, retentionVars, Push, DeleteComponents, RunPolicyNow, PolicyFires, BeginSweep,
                NextPolicy, SelectForDeletion, DeleteTarget, FinishPolicy, AbortSweep, EnqueueSweep, NextDay
  <2>. QED  BY <2>1
<1>. QED  BY <1>1, <1>2

\* One run's row becomes to, and what it has in hand is no more than it had, or as policies stand.
LEMMA InHandBounded ==
    ASSUME RetentionInv, NEW j \in Sweeps, NEW to, sweep' = [sweep EXCEPT ![j] = to],
           RowsInHand(to) \subseteq RowsInHand(sweep[j]) \union {Row(p) : p \in Policies}
    PROVE  \A i \in Sweeps : RowsInHand(sweep'[i]) \subseteq RowsInHand(sweep[i]) \union {Row(p) : p \in Policies}
<1>1. sweep'[j] = to /\ \A i \in Sweeps \ {j} : sweep'[i] = sweep[i]
  BY DEF RetentionInv, RetentionTypes
<1>. QED  BY <1>1

LEMMA RowsInHandRead ==
    ASSUME RetentionInv, [RetentionNext]_retentionVars, NEW i \in Sweeps
    PROVE  RowsInHand(sweep'[i]) \subseteq RowsInHand(sweep[i]) \union {Row(p) : p \in Policies}
<1> DEFINE Bounded == \A k \in Sweeps : RowsInHand(sweep'[k]) \subseteq RowsInHand(sweep[k]) \union {Row(p) : p \in Policies}
<1> SUFFICES Bounded
  OBVIOUS
<1>0. ASSUME UNCHANGED sweep PROVE Bounded
  BY <1>0
<1>1. ASSUME NEW j \in Sweeps, NEW stage \in {"done", "failed"}, Ends(j, stage) PROVE Bounded
  <2>1. PICK to : to = [NewSweep EXCEPT !.stage = stage]
    OBVIOUS
  <2>2. to.todo = {} /\ to.stage = stage
    BY <2>1, NewSweepTyped
  <2>3. sweep' = [sweep EXCEPT ![j] = to] /\ RowsInHand(to) = {}
    BY <1>1, <2>1, <2>2 DEF Ends, RowsInHand
  <2>. QED  BY <2>3, InHandBounded
<1>2. ASSUME NEW j \in Sweeps, NEW scope, NEW dry, Queue(j, scope, dry) PROVE Bounded
  <2>0. SweepTyped(sweep[j])
    BY DEF RetentionInv, RetentionTypes
  <2>1. PICK to : /\ to = [sweep[j] EXCEPT !.stage = "queued", !.scope = scope, !.dry = dry]
                  /\ sweep' = [sweep EXCEPT ![j] = to]
    BY <1>2 DEF Queue, RetentionInv, RetentionTypes
  <2>2. to.todo = sweep[j].todo /\ to.stage = "queued"
    BY <2>0, <2>1 DEF SweepTyped
  <2>3. RowsInHand(to) \subseteq RowsInHand(sweep[j])
    BY <2>2 DEF RowsInHand
  <2>. QED  BY <2>1, <2>3, InHandBounded
<1>3. ASSUME NEW j \in Sweeps, NEW S \in SUBSET Policies, Begin(j, {Row(p) : p \in S}) PROVE Bounded
  <2>0. SweepTyped(sweep[j])
    BY DEF RetentionInv, RetentionTypes
  <2>1. PICK to, todo : /\ todo = {Row(p) : p \in S} /\ to = [sweep[j] EXCEPT !.stage = "next", !.todo = todo]
                        /\ sweep' = [sweep EXCEPT ![j] = to]
    BY <1>3 DEF Begin, RetentionInv, RetentionTypes
  <2>2. to.todo = todo /\ to.stage = "next"
    BY <2>0, <2>1 DEF SweepTyped
  <2>3. RowsInHand(to) \subseteq {Row(p) : p \in Policies}
    BY <2>1, <2>2 DEF RowsInHand
  <2>. QED  BY <2>1, <2>3, InHandBounded
<1>4. ASSUME NEW j \in Sweeps, NEW row \in sweep[j].todo,
             sweep' = [sweep EXCEPT ![j].stage = "listing", ![j].todo = @ \ {row}, ![j].now = row]
      PROVE  Bounded
  <2>0. SweepTyped(sweep[j])
    BY DEF RetentionInv, RetentionTypes
  <2>1. PICK to : /\ to = [sweep[j] EXCEPT !.stage = "listing", !.todo = @ \ {row}, !.now = row]
                  /\ sweep' = [sweep EXCEPT ![j] = to]
    BY <1>4 DEF RetentionInv, RetentionTypes
  <2>2. to.todo = sweep[j].todo \ {row} /\ to.now = row /\ to.stage = "listing"
    BY <2>0, <2>1 DEF SweepTyped
  <2>3. RowsInHand(to) \subseteq RowsInHand(sweep[j])
    BY <1>4, <2>2 DEF RowsInHand
  <2>. QED  BY <2>1, <2>3, InHandBounded
<1>5. ASSUME NEW j \in Sweeps, NEW stage, NEW targets, stage \in {"listing", "deleting"} => sweep[j].stage \in {"listing", "deleting"},
             \/ Go(j, stage)
             \/ sweep' = [sweep EXCEPT ![j].stage = stage, ![j].targets = targets]
             \/ sweep' = [sweep EXCEPT ![j].targets = targets]
      PROVE  Bounded
  <2>0. SweepTyped(sweep[j])
    BY DEF RetentionInv, RetentionTypes
  <2>1. PICK to : /\ \/ to = [sweep[j] EXCEPT !.stage = stage]
                     \/ to = [sweep[j] EXCEPT !.stage = stage, !.targets = targets]
                     \/ to = [sweep[j] EXCEPT !.targets = targets]
                  /\ sweep' = [sweep EXCEPT ![j] = to]
    BY <1>5 DEF Go, RetentionInv, RetentionTypes
  <2>2. to.todo = sweep[j].todo /\ to.now = sweep[j].now /\ to.stage \in {stage, sweep[j].stage}
    BY <2>0, <2>1 DEF SweepTyped
  <2>3. RowsInHand(to) \subseteq RowsInHand(sweep[j])
    BY <1>5, <2>2 DEF RowsInHand
  <2>. QED  BY <2>1, <2>3, InHandBounded
<1> HIDE DEF Bounded
<1>6. CASE UNCHANGED retentionVars \/ PollDuePolicies \/ PoliciesAdvance \/ NextDay
  BY <1>0, <1>6 DEF retentionVars, PollDuePolicies, PoliciesAdvance, NextDay
<1>7. CASE \/ \E c \in Components : Push(c) \/ DeleteComponents(c)
           \/ \E p \in Policies : UpdatePolicy(p) \/ DeletePolicy(p)
  BY <1>0, <1>7 DEF Push, DeleteComponents, UpdatePolicy, DeletePolicy
<1>8. CASE EnqueueSweep \/ \E p \in Policies : RunPolicyNow(p) \/ PolicyFires(p)
  BY <1>2, <1>8 DEF EnqueueSweep, RunPolicyNow, PolicyFires
<1>9. ASSUME NEW j \in Sweeps, BeginSweep(j) PROVE Bounded
  <2>1. SweepTyped(sweep[j]) /\ {p \in Policies : Runnable(p) /\ policy[p].interval = Unset} \in SUBSET Policies
    BY DEF RetentionInv, RetentionTypes
  <2>2. CASE Begin(j, {Row(p) : p \in {p \in Policies : Runnable(p) /\ policy[p].interval = Unset}})
    BY <1>3, <2>1, <2>2
  <2>3. CASE sweep[j].scope # Everyone /\ Begin(j, {Row(sweep[j].scope)})
    <3>1. {sweep[j].scope} \in SUBSET Policies /\ {Row(p) : p \in {sweep[j].scope}} = {Row(sweep[j].scope)}
      BY <2>1, <2>3 DEF SweepTyped
    <3>. QED  BY <1>3, <2>3, <3>1
  <2>. QED  BY <1>1, <1>9, <2>2, <2>3 DEF BeginSweep
<1>10. ASSUME NEW j \in Sweeps, NextPolicy(j) PROVE Bounded
  BY <1>1, <1>4, <1>10 DEF NextPolicy
<1>11. ASSUME NEW j \in Sweeps, SelectForDeletion(j) PROVE Bounded
  BY <1>1, <1>5, <1>11 DEF SelectForDeletion
<1>12. ASSUME NEW j \in Sweeps, DeleteTarget(j) PROVE Bounded
  BY <1>5, <1>12 DEF DeleteTarget
<1>13. ASSUME NEW j \in Sweeps, FinishPolicy(j) \/ AbortSweep(j) PROVE Bounded
  BY <1>1, <1>5, <1>13 DEF FinishPolicy, AbortSweep
<1>. QED  BY <1>6, <1>7, <1>8, <1>9, <1>10, <1>11, <1>12, <1>13 DEF RetentionNext

LEMMA RulesHadStep == RetentionInv /\ RulesWereHad /\ [RetentionNext]_retentionVars => RulesWereHad'
<1> SUFFICES ASSUME RetentionInv, RulesWereHad, [RetentionNext]_retentionVars PROVE RulesWereHad'
  OBVIOUS
<1>1. \A p \in Policies : policy[p].had \subseteq policy'[p].had /\ HadRule(Row(p)) /\ Row(p).id = p
  BY HadGrows DEF HadRule, Row, RetentionInv, RetentionTypes, PolicyTyped
<1>2. ASSUME NEW j \in Sweeps, NEW row \in RowsInHand(sweep'[j]) PROVE HadRule(row)'
  <2>1. CASE row \in RowsInHand(sweep[j])
    <3>1. HadRule(row) /\ row \in Rows
      BY <2>1 DEF RulesWereHad, RowsInHand, RetentionInv, RetentionTypes, SweepTyped
    <3>. QED  BY <1>1, <3>1 DEF HadRule, Rows
  <2>2. CASE \E p \in Policies : row = Row(p)
    BY <1>1, <2>2 DEF HadRule
  <2>. QED  BY <2>1, <2>2, RowsInHandRead
<1>3. ASSUME NEW c \in Components, nexus'[c].by \in Policies PROVE nexus'[c].under \in policy'[nexus'[c].by].had
  <2>1. CASE nexus'[c] = nexus[c]
    BY <1>1, <1>3, <2>1 DEF RulesWereHad
  <2>2. CASE nexus'[c] # nexus[c]
    <3>1. CASE \E d \in Components : Push(d) \/ DeleteComponents(d)
      <4>1. nexus'[c].by \in {Nobody, User}
        BY <2>2, <3>1 DEF Push, DeleteComponents, Remove, RetentionInv, RetentionTypes
      <4>. QED  BY <1>3, <4>1, RetentionAssumption
    <3>2. ASSUME NEW j \in Sweeps, DeleteTarget(j) PROVE nexus'[c].under \in policy'[nexus'[c].by].had
      <4>1. sweep[j].stage = "deleting" /\ nexus'[c].by = sweep[j].now.id /\ nexus'[c].under = sweep[j].now.rule
        BY <2>2, <3>2 DEF DeleteTarget, Remove, RetentionInv, RetentionTypes
      <4>2. HadRule(sweep[j].now) /\ sweep[j].now.id \in Policies
        BY <1>3, <4>1 DEF RulesWereHad, RowsInHand
      <4>. QED  BY <1>1, <4>1, <4>2 DEF HadRule
    <3>3. ~UNCHANGED nexus
      BY <2>2
    <3>. QED
      BY <3>1, <3>2, <3>3 DEF RetentionNext, retentionVars, UpdatePolicy, DeletePolicy, RunPolicyNow,
         PolicyFires, BeginSweep, NextPolicy, SelectForDeletion, FinishPolicy, AbortSweep, EnqueueSweep,
         PollDuePolicies, PoliciesAdvance, NextDay
  <2>. QED  BY <2>1, <2>2
<1>. QED  BY <1>2, <1>3 DEF RulesWereHad

LEMMA RetentionHolds == RetentionInv /\ RulesWereHad => EveryRemovalIsEarned
<1> SUFFICES ASSUME RetentionInv, RulesWereHad, NEW c \in Components, nexus[c].by \in Policies,
                    NEW r, r = nexus[c].under
             PROVE  /\ r \in policy[nexus[c].by].had /\ r.repo = RepoOf[c]
                    /\ \/ AgedOut(c, r)
                       \/ /\ r.keep # Unset
                          /\ Cardinality({d \in Higher(c) : ~RankedOut(d, r.keep)}) >= r.keep
  BY DEF EveryRemovalIsEarned
<1>1. ASSUME NEW d \in Components, nexus[d].by \in Policies
      PROVE  /\ nexus[d].under \in Rules /\ nexus[d].under.repo = RepoOf[d] /\ Justified(d, nexus[d].under)
  <2>1. nexus[d].under \in Rules /\ Condemned(d, nexus[d].under)
    BY <1>1 DEF RetentionInv, RetentionTypes, ComponentTyped, Condemned
  <2>. QED  BY <2>1 DEF RetentionInv
<1>2. r \in policy[nexus[c].by].had /\ r.repo = RepoOf[c] /\ r \in Rules /\ Justified(c, r)
  BY <1>1 DEF RulesWereHad
<1>3. CASE r.keep # Unset /\ Cardinality(Higher(c)) >= r.keep
  <2> DEFINE kept == {d \in Higher(c) : ~RankedOut(d, r.keep)}
             out == {d \in Higher(c) : RankedOut(d, r.keep)}
  <2>1. r.keep \in Nat
    BY <1>2, <1>3, RuleLimits
  <2>2. CASE out = {}
    <3>1. kept = Higher(c)
      BY <2>2
    <3>. QED  BY <1>2, <1>3, <3>1
  <2>3. CASE out # {}
    <3>1. out \in SUBSET Components /\ kept \in SUBSET Components
      BY DEF Higher
    <3>2. PICK m \in out : \A e \in out : ~Ahead(e, m)
      <4> HIDE DEF out
      <4>. QED  BY <2>3, <3>1, Foremost DEF RetentionInv
    <3>3. m \in Components /\ m \in Higher(c) /\ RankedOut(m, r.keep)
      BY <3>1
    <3>4. PICK s \in Rules : s = nexus[m].under /\ s.keep \in Nat /\ s.keep >= r.keep
                             /\ Cardinality(Higher(m)) >= s.keep
      BY <1>1, <3>3, RuleLimits DEF RankedOut, Justified
    <3>5. Higher(m) \in SUBSET kept
      <4> SUFFICES ASSUME NEW e \in Higher(m) PROVE e \in Higher(c) /\ ~RankedOut(e, r.keep)
        OBVIOUS
      <4>1. e \in Components /\ RepoOf[e] = RepoOf[m] /\ ImageOf[e] = ImageOf[m] /\ Pushed(e) /\ Ahead(e, m)
        BY DEF Higher
      <4>2. RepoOf[m] = RepoOf[c] /\ ImageOf[m] = ImageOf[c] /\ Ahead(m, c)
        BY <3>3 DEF Higher
      <4>3. Ahead(e, c)
        BY <3>3, <4>1, <4>2, AheadIsAnOrder DEF RetentionInv
      <4>4. e \in Higher(c)
        BY <4>1, <4>2, <4>3 DEF Higher
      <4>. QED  BY <3>2, <4>1, <4>4
    <3> HIDE DEF kept, out
    <3>6. IsFiniteSet(kept)
      BY <3>1, RetentionAssumption, FS_Subset
    <3>7. Cardinality(Higher(m)) <= Cardinality(kept) /\ Cardinality(Higher(m)) \in Nat /\ Cardinality(kept) \in Nat
      BY <3>5, <3>6, FS_Subset, FS_CardinalityType
    <3>8. Cardinality(kept) >= r.keep
      <4>1. \A a, b, k, n \in Nat : a >= k /\ k >= n /\ a <= b => b >= n
        OBVIOUS
      <4>. QED  BY <2>1, <3>4, <3>7, <4>1
    <3>. QED  BY <1>2, <1>3, <3>8 DEF kept
  <2>. QED  BY <2>2, <2>3
<1>. QED  BY <1>2, <1>3 DEF Justified

-----------------------------------------------------------------------------
(* The calendar.  compute_next_run answers a day and a slot: the earliest   *)
(* day whose slot is still to come is today's or tomorrow's, and what it    *)
(* answers is the first day from there on that the cadence means.           *)

\* A set of numbers has a least one.
LEMMA LeastNat == ASSUME NEW T \in SUBSET Nat, T # {} PROVE \E x \in T : \A y \in T : x <= y
<1> DEFINE R == {p \in Nat \X Nat : p[1] < p[2]}
<1>1. R = OpToRel(<, Nat)
  BY Zenon DEF OpToRel
<1>2. IsWellFoundedOn(R, Nat)
  BY <1>1, NatLessThanWellFounded, Zenon
<1> HIDE DEF R
<1>3. PICK x \in T : \A y \in T : ~(<<y, x>> \in R)
  BY <1>2, WFMin
<1>4. x \in Nat /\ \A y \in T : y \in Nat /\ ~(y < x)
  BY <1>3 DEF R
<1>5. \A y \in T : x <= y
  BY <1>4
<1>. QED  BY <1>5

\* The first days of the months up to n, were f one.
Firsts(f, n) == f = [m \in 0..n |-> IF m <= 1 THEN 0 ELSE f[m - 1] + MonthLengths[m - 1]]

LEMMA FirstsThere == \A n \in Nat : \E f : Firsts(f, n)
<1> DEFINE T == {n \in Nat : ~ \E f : Firsts(f, n)}
<1> SUFFICES ASSUME T # {} PROVE FALSE
  OBVIOUS
<1>1. PICK x \in T : \A y \in T : x <= y
  BY LeastNat
<1>2. x \in Nat /\ ~ \E f : Firsts(f, x)
  OBVIOUS
<1>3. x # 0
  <2>1. Firsts([m \in 0..0 |-> 0], 0)
    BY DEF Firsts
  <2>. QED  BY <1>2, <2>1
<1>4. x - 1 \in Nat /\ x - 1 \notin T
  BY <1>1, <1>2, <1>3
<1>5. PICK f : Firsts(f, x - 1)
  BY <1>4
<1>6. \A m \in 0..x - 1 : f[m] = IF m <= 1 THEN 0 ELSE f[m - 1] + MonthLengths[m - 1]
  BY <1>5 DEF Firsts
<1> DEFINE last == IF x <= 1 THEN 0 ELSE f[x - 1] + MonthLengths[x - 1]
           g == [m \in 0..x |-> IF m = x THEN last ELSE f[m]]
<1>7. ASSUME NEW m \in 0..x PROVE g[m] = IF m <= 1 THEN 0 ELSE g[m - 1] + MonthLengths[m - 1]
  <2>1. m > 1 => m - 1 \in 0..x /\ m - 1 # x
    BY <1>2
  <2>2. m > 1 => g[m - 1] = f[m - 1]
    BY <2>1
  <2>3. CASE m = x
    BY <2>2, <2>3
  <2>4. CASE m # x
    <3>1. m \in 0..x - 1 /\ g[m] = f[m]
      BY <1>2, <2>4
    <3>. QED  BY <1>6, <2>2, <3>1
  <2>. QED  BY <2>3, <2>4
<1>8. Firsts(g, x)
  <2>1. g = [m \in 0..x |-> g[m]]
    OBVIOUS
  <2> HIDE DEF g
  <2>. QED  BY <1>7, <2>1 DEF Firsts
<1>. QED  BY <1>2, <1>8

LEMMA FirstsOne ==
    ASSUME NEW n \in Nat, NEW k \in Nat, NEW f, NEW g, Firsts(f, n), Firsts(g, k), NEW i \in 0..n, i \in 0..k
    PROVE  f[i] = g[i]
<1> DEFINE T == {m \in Nat : m <= n /\ m <= k /\ f[m] # g[m]}
<1> SUFFICES ASSUME T # {} PROVE FALSE
  OBVIOUS
<1>1. PICK x \in T : \A y \in T : x <= y
  BY LeastNat
<1>2. /\ f[x] = IF x <= 1 THEN 0 ELSE f[x - 1] + MonthLengths[x - 1]
      /\ g[x] = IF x <= 1 THEN 0 ELSE g[x - 1] + MonthLengths[x - 1]
  BY DEF Firsts
<1>3. x > 1 => x - 1 \in Nat /\ x - 1 \notin T
  BY <1>1
<1>. QED  BY <1>2, <1>3

LEMMA FirstOfIs == \A m \in Nat : FirstOf[m] = IF m <= 1 THEN 0 ELSE FirstOf[m - 1] + MonthLengths[m - 1]
<1> DEFINE upto(n) == CHOOSE f : Firsts(f, n)
           F == [n \in Nat |-> upto(n)[n]]
<1>1. \A n \in Nat : Firsts(upto(n), n)
  BY FirstsThere
<1> HIDE DEF upto
<1>2. ASSUME NEW m \in Nat PROVE F[m] = IF m <= 1 THEN 0 ELSE F[m - 1] + MonthLengths[m - 1]
  <2>1. upto(m)[m] = IF m <= 1 THEN 0 ELSE upto(m)[m - 1] + MonthLengths[m - 1]
    BY <1>1 DEF Firsts
  <2>2. m > 1 => m - 1 \in Nat /\ m - 1 \in 0..m /\ m - 1 \in 0..m - 1
    OBVIOUS
  <2>3. m > 1 => upto(m)[m - 1] = upto(m - 1)[m - 1]
    BY <1>1, <2>2, FirstsOne
  <2>. QED  BY <2>1, <2>2, <2>3
<1>3. F = [m \in Nat |-> F[m]]
  OBVIOUS
<1> HIDE DEF F
<1>4. F = [m \in Nat |-> IF m <= 1 THEN 0 ELSE F[m - 1] + MonthLengths[m - 1]]
  BY <1>2, <1>3
<1>5. FirstOf = [m \in Nat |-> IF m <= 1 THEN 0 ELSE FirstOf[m - 1] + MonthLengths[m - 1]]
  BY <1>4, Zenon DEF FirstOf
<1>. QED  BY <1>5

Last == Len(MonthLengths)

LEMMA MonthFacts ==
    /\ Last \in Nat /\ Months = 1..Last
    /\ \A m \in Months : MonthLengths[m] \in 28..31
    /\ FirstOf[0] = 0 /\ FirstOf[1] = 0
    /\ \A m \in Months : FirstOf[m + 1] = FirstOf[m] + MonthLengths[m]
<1>1. Last \in Nat /\ Months = 1..Last /\ \A m \in Months : MonthLengths[m] \in 28..31
  BY CadenceAssumption DEF Last, Months
<1>2. ASSUME NEW m \in Months PROVE FirstOf[m + 1] = FirstOf[m] + MonthLengths[m]
  <2>1. m \in Nat /\ m >= 1 /\ m + 1 \in Nat /\ ~(m + 1 <= 1) /\ (m + 1) - 1 = m
    BY <1>1
  <2>2. FirstOf[m + 1] = FirstOf[(m + 1) - 1] + MonthLengths[(m + 1) - 1]
    BY <2>1, FirstOfIs
  <2>. QED  BY <2>1, <2>2
<1>. QED  BY <1>1, <1>2, FirstOfIs

LEMMA FirstNat == \A m \in 0..Last + 1 : FirstOf[m] \in Nat
<1> DEFINE T == {m \in Nat : m <= Last + 1 /\ FirstOf[m] \notin Nat}
<1> SUFFICES ASSUME T # {} PROVE FALSE
  BY MonthFacts
<1>1. PICK x \in T : \A y \in T : x <= y
  BY LeastNat
<1>2. x > 1
  BY MonthFacts
<1>3. x - 1 \in Months /\ x - 1 \in Nat /\ x - 1 \notin T /\ (x - 1) + 1 = x
  BY <1>1, <1>2, MonthFacts
<1>4. FirstOf[x - 1] \in Nat /\ FirstOf[x] = FirstOf[x - 1] + MonthLengths[x - 1] /\ MonthLengths[x - 1] \in 28..31
  BY <1>3, MonthFacts
<1>. QED  BY <1>4

\* The months follow each other.
LEMMA MonthsOrdered ==
    ASSUME NEW i \in Months, NEW j \in 1..Last + 1, i < j
    PROVE  FirstOf[i] + MonthLengths[i] <= FirstOf[j]
<1> DEFINE T == {m \in Nat : i < m /\ m <= Last + 1 /\ ~(FirstOf[i] + MonthLengths[i] <= FirstOf[m])}
<1> SUFFICES ASSUME T # {} PROVE FALSE
  BY MonthFacts
<1>1. PICK x \in T : \A y \in T : x <= y
  BY LeastNat
<1>2. i \in Nat /\ i >= 1 /\ x - 1 \in Months /\ x - 1 \in Nat /\ x - 1 \notin T /\ (x - 1) + 1 = x
  BY <1>1, MonthFacts
<1>3. FirstOf[x] = FirstOf[x - 1] + MonthLengths[x - 1] /\ MonthLengths[x - 1] \in 28..31
  BY <1>2, MonthFacts
<1>4. FirstOf[x - 1] \in Nat /\ FirstOf[x] \in Nat /\ FirstOf[i] \in Nat /\ MonthLengths[i] \in 28..31
  BY <1>2, MonthFacts, FirstNat
<1>5. x - 1 = i \/ FirstOf[i] + MonthLengths[i] <= FirstOf[x - 1]
  <2>1. x - 1 <= Last + 1 /\ (x - 1 # i => i < x - 1)
    BY <1>2, MonthFacts
  <2>. QED  BY <1>2, <2>1
<1>. QED  BY <1>1, <1>3, <1>4, <1>5

\* A day before the calendar's end is in a month.
LEMMA MonthThere ==
    ASSUME NEW d \in Nat, d < FirstOf[Last + 1]
    PROVE  \E m \in Months : FirstOf[m] <= d /\ d < FirstOf[m] + MonthLengths[m]
<1> DEFINE T == {m \in Nat : m <= Last + 1 /\ d < FirstOf[m]}
<1>1. Last + 1 \in T
  BY MonthFacts
<1>2. PICK x \in T : \A y \in T : x <= y
  BY <1>1, LeastNat
<1>3. x > 1
  BY MonthFacts
<1>4. x - 1 \in Months /\ x - 1 \in Nat /\ x - 1 \notin T /\ (x - 1) + 1 = x
  BY <1>2, <1>3, MonthFacts
<1>5. FirstOf[x] = FirstOf[x - 1] + MonthLengths[x - 1] /\ FirstOf[x - 1] \in Nat
  BY <1>4, MonthFacts, FirstNat
<1>6. ~(d < FirstOf[x - 1]) /\ d < FirstOf[x]
  <2>1. x - 1 <= Last + 1
    BY <1>4, MonthFacts
  <2>. QED  BY <1>2, <1>4, <2>1
<1>. QED  BY <1>4, <1>5, <1>6

\* Days and slots.
LEMMA Clock ==
    ASSUME NEW d \in Nat, NEW s \in 0..Slots - 1
    PROVE  At(d, s) \in Nat /\ DayOf(At(d, s)) = d /\ At(d, s) % Slots = s
<1> DEFINE t == d * Slots + s
           q == t \div Slots
           r == t % Slots
<1>1. Slots \in Nat /\ Slots > 0 /\ s \in Nat /\ s < Slots
  BY CadenceAssumption
<1>2. d * Slots \in Nat
  BY <1>1
<1>3. t \in Nat
  BY <1>1, <1>2
<1>4. q \in Nat /\ r \in Nat /\ r < Slots /\ t = q * Slots + r
  BY <1>1, <1>3
<1> HIDE DEF q, r
<1>5. q = d
  <2>1. CASE q > d
    <3>1. q >= d + 1 /\ q * Slots >= (d + 1) * Slots
      BY <1>1, <1>4, <2>1
    <3>2. (d + 1) * Slots = d * Slots + Slots
      BY <1>1
    <3>. QED  BY <1>1, <1>2, <1>4, <3>1, <3>2
  <2>2. CASE q < d
    <3>1. d >= q + 1 /\ d * Slots >= (q + 1) * Slots
      BY <1>1, <1>4, <2>2
    <3>2. (q + 1) * Slots = q * Slots + Slots
      BY <1>1, <1>4
    <3>. QED  BY <1>1, <1>2, <1>4, <3>1, <3>2
  <2>. QED  BY <1>4, <2>1, <2>2
<1>6. r = s
  BY <1>1, <1>2, <1>4, <1>5
<1>. QED  BY <1>3, <1>5, <1>6 DEF At, DayOf, q, r

\* And back.
LEMMA Moment ==
    ASSUME NEW t \in Nat
    PROVE  t = At(DayOf(t), t % Slots) /\ DayOf(t) \in Nat /\ t % Slots \in 0..Slots - 1
<1>1. Slots \in Nat /\ Slots > 0
  BY CadenceAssumption
<1>. QED  BY <1>1 DEF At, DayOf

LEMMA Earlier ==
    ASSUME NEW d \in Nat, NEW k \in Nat, NEW s \in 0..Slots - 1
    PROVE  At(d, s) < At(k, s) <=> d < k
<1>1. Slots \in Nat /\ Slots > 0 /\ s \in Nat /\ d * Slots \in Nat /\ k * Slots \in Nat
  BY CadenceAssumption
<1>2. CASE d < k
  <2>1. (d + 1) * Slots <= k * Slots
    BY <1>1, <1>2
  <2>2. (d + 1) * Slots = d * Slots + Slots
    BY <1>1
  <2>. QED  BY <1>1, <1>2, <2>1, <2>2 DEF At
<1>3. CASE k <= d
  <2>1. k * Slots <= d * Slots
    BY <1>1, <1>3
  <2>. QED  BY <1>1, <1>3, <2>1 DEF At
<1>. QED  BY <1>2, <1>3

\* The first day whose slot is still to come.
Earliest(after, slot) == IF At(DayOf(after), slot) > after THEN DayOf(after) ELSE DayOf(after) + 1

LEMMA StillToCome ==
    ASSUME NEW after \in Nat, NEW slot \in 0..Slots - 1, NEW d \in Nat
    PROVE  /\ Earliest(after, slot) \in DayOf(after)..DayOf(after) + 1 /\ Earliest(after, slot) \in Nat
           /\ At(d, slot) > after <=> d >= Earliest(after, slot)
<1> DEFINE on == DayOf(after)
           s == after % Slots
<1>0. Slots \in Nat /\ Slots > 0
  BY CadenceAssumption
<1>1. on \in Nat /\ s \in 0..Slots - 1 /\ after = At(on, s) /\ Slots \in Nat /\ Slots > 0
  BY <1>0, Moment, Zenon
<1>2. At(d, slot) \in Nat /\ At(on, slot) \in Nat /\ At(on + 1, slot) \in Nat
  BY <1>1, Clock
<1>3. At(on + 1, slot) > after
  <2>1. on * Slots \in Nat /\ (on + 1) * Slots = on * Slots + Slots
    BY <1>1
  <2>. QED  BY <1>1, <2>1 DEF At
<1> HIDE DEF on, s
<1>4. At(on, slot) < At(d, slot) <=> on < d
  BY <1>1, Earlier
<1>5. At(d, slot) < At(on, slot) <=> d < on
  BY <1>1, Earlier
<1>6. At(d, slot) < At(on + 1, slot) <=> d < on + 1
  BY <1>1, Earlier
<1>7. d < on => At(d, slot) <= after
  <2>1. At(d, slot) < At(on, 0) \/ d >= on
    <3>1. d < on => d + 1 <= on
      BY <1>1
    <3>2. d * Slots \in Nat /\ on * Slots \in Nat /\ (d + 1) * Slots = d * Slots + Slots
      BY <1>1
    <3>3. d + 1 <= on => (d + 1) * Slots <= on * Slots
      BY <1>1
    <3>. QED  BY <1>1, <3>1, <3>2, <3>3 DEF At
  <2>3. At(d, slot) \in Nat /\ At(on, 0) \in Nat /\ after \in Nat
    BY <1>1, <1>2, Clock
  <2>2. At(on, 0) <= after
    <3>1. on * Slots \in Nat
      BY <1>1
    <3>. QED  BY <1>1, <3>1 DEF At
  <2>. QED  BY <1>1, <2>1, <2>2, <2>3
<1>8. CASE d = on
  BY <1>1, <1>8 DEF Earliest, on
<1>9. CASE d > on
  <2>1. At(d, slot) >= At(on + 1, slot)
    BY <1>1, <1>2, <1>6, <1>9
  <2>2. At(d, slot) > after
    BY <1>2, <1>3, <2>1
  <2>. QED  BY <1>1, <1>9, <2>2 DEF Earliest, on
<1>10. CASE d < on
  BY <1>1, <1>2, <1>7, <1>10 DEF Earliest, on
<1>. QED  BY <1>1, <1>8, <1>9, <1>10

LEMMA AskedBefore ==
    ASSUME NEW after \in Moments
    PROVE  /\ after \in Nat /\ DayOf(after) \in Nat /\ DayOf(after) < FirstOf[Last]
           /\ Last \in Months /\ FirstOf[Last] \in Nat
           /\ LastDay = FirstOf[Last] + MonthLengths[Last] - 1 /\ MonthLengths[Last] \in 28..31
<1>0. Slots \in Nat /\ Slots > 0 /\ Last \in Nat /\ FirstOf[Last] \in Nat
  BY CadenceAssumption, MonthFacts, FirstNat
<1>1. FirstOf[Last] * Slots \in Nat
  BY <1>0
<1>2. after \in Nat /\ after < FirstOf[Last] * Slots
  BY <1>0, <1>1 DEF Moments, At, Last
<1>3. DayOf(after) \in Nat /\ after % Slots \in 0..Slots - 1 /\ after = DayOf(after) * Slots + (after % Slots)
  BY <1>2, Moment DEF At
<1>4. DayOf(after) < FirstOf[Last]
  <2> SUFFICES ASSUME FirstOf[Last] <= DayOf(after) PROVE FALSE
    BY <1>0, <1>3
  <2>1. FirstOf[Last] * Slots <= DayOf(after) * Slots /\ DayOf(after) * Slots \in Nat
    BY <1>0, <1>3
  <2>2. \A x \in Nat, y \in Nat, z \in Nat : after = x + y /\ z <= x => z <= after
    BY <1>2
  <2>3. after % Slots \in Nat
    BY <1>0, <1>3
  <2>. QED  BY <1>1, <1>2, <1>3, <2>1, <2>2, <2>3
<1>5. Last \in Months
  <2>1. Last # 0
    BY <1>3, <1>4, MonthFacts
  <2>. QED  BY <1>0, <2>1, MonthFacts
<1>6. FirstOf[Last + 1] = FirstOf[Last] + MonthLengths[Last] /\ MonthLengths[Last] \in 28..31
  BY <1>5, MonthFacts
<1>. QED  BY <1>0, <1>2, <1>3, <1>4, <1>5, <1>6 DEF LastDay, Last

\* The first day, from the earliest on, that a cadence means.
FirstDue(c, after, d) ==
    /\ d \in Nat /\ d >= Earliest(after, c.slot) /\ d <= LastDay /\ DueOn(c, d)
    /\ \A k \in Nat : Earliest(after, c.slot) <= k /\ k < d => ~DueOn(c, k)

LEMMA DailyIsFirst ==
    ASSUME NEW after \in Moments, NEW c \in Cadences, c.frequency = "daily"
    PROVE  \E d \in Nat : compute_next_run(c, after) = At(d, c.slot) /\ FirstDue(c, after, d)
<1> DEFINE on == DayOf(after)
           d == Earliest(after, c.slot)
<1>0. c.slot \in 0..Slots - 1 /\ Slots \in Nat
  BY CadenceAssumption DEF Cadences
<1>1. after \in Nat /\ on \in Nat /\ on < LastDay /\ LastDay \in Int
  BY AskedBefore
<1>2. d \in Nat /\ d \in on..on + 1
  BY <1>0, <1>1, StillToCome
<1>3. compute_next_run(c, after) = NextDaily(after, c.slot)
  BY DEF compute_next_run
<1>4. At(on, c.slot) \in Nat /\ At(on + 1, c.slot) = At(on, c.slot) + Slots
  <2>1. on * Slots \in Nat /\ (on + 1) * Slots = on * Slots + Slots
    BY <1>0, <1>1
  <2>. QED  BY <1>0, <2>1 DEF At
<1>5. NextDaily(after, c.slot) = At(d, c.slot)
  BY <1>1, <1>4 DEF NextDaily, Passed, Earliest
<1>6. FirstDue(c, after, d)
  BY <1>1, <1>2 DEF FirstDue, DueOn
<1>. QED  BY <1>2, <1>3, <1>5, <1>6

LEMMA Sevens == ASSUME NEW n \in Int PROVE n % 7 \in 0..6 /\ n \div 7 \in Int /\ n = 7 * (n \div 7) + (n % 7)
  OBVIOUS

LEMMA WeeklyIsFirst ==
    ASSUME NEW after \in Moments, NEW c \in Cadences, c.frequency = "weekly"
    PROVE  \E d \in Nat : compute_next_run(c, after) = At(d, c.slot) /\ FirstDue(c, after, d)
<1> DEFINE on == DayOf(after)
           e == Earliest(after, c.slot)
           ahead == (c.weekday - Weekday(on)) % 7
           d == IF At(on + ahead, c.slot) <= after THEN on + ahead + 7 ELSE on + ahead
<1>0. c.slot \in 0..Slots - 1 /\ c.weekday \in 0..6 /\ Slots \in Nat /\ FirstWeekday \in 0..6
  BY CadenceAssumption DEF Cadences
<1>1. after \in Nat /\ on \in Nat /\ on + 28 <= LastDay + 1 /\ LastDay \in Int
  <2>1. /\ after \in Nat /\ on \in Nat /\ on < FirstOf[Last] /\ FirstOf[Last] \in Nat
        /\ LastDay = FirstOf[Last] + MonthLengths[Last] - 1 /\ MonthLengths[Last] \in 28..31
    BY AskedBefore
  <2>. QED  BY <2>1
<1> HIDE DEF on
<1>2. ahead \in 0..6 /\ (FirstWeekday + on + ahead) % 7 = c.weekday
  <2> DEFINE x == (FirstWeekday + on) % 7
             q == (FirstWeekday + on) \div 7
             w == c.weekday
  <2>0. FirstWeekday + on \in Int
    BY <1>0, <1>1
  <2>1. x \in 0..6 /\ q \in Int /\ FirstWeekday + on = 7 * q + x
    BY <2>0, Sevens
  <2> HIDE DEF x, q
  <2>2. ahead = (w - x) % 7
    BY DEF Weekday, x
  <2>3. ahead = IF w >= x THEN w - x ELSE w - x + 7
    BY <1>0, <2>1, <2>2
  <2>4. FirstWeekday + on + ahead = IF w >= x THEN 7 * q + w ELSE 7 * (q + 1) + w
    BY <1>0, <1>1, <2>1, <2>3
  <2>. QED  BY <1>0, <2>1, <2>3, <2>4
<1>3. e \in Nat /\ e \in on..on + 1
  BY <1>0, <1>1, StillToCome DEF on
<1> HIDE DEF ahead
<1>4. At(on + ahead, c.slot) > after <=> on + ahead >= e
  <2>1. on + ahead \in Nat
    BY <1>1, <1>2
  <2>. QED  BY <1>0, <1>1, <2>1, StillToCome
<1>5. At(on + ahead, c.slot) \in Nat /\ At(on + ahead + 7, c.slot) = At(on + ahead, c.slot) + 7 * Slots
  <2>1. (on + ahead) * Slots \in Nat /\ (on + ahead + 7) * Slots = (on + ahead) * Slots + 7 * Slots
    BY <1>0, <1>1, <1>2
  <2>. QED  BY <1>0, <2>1 DEF At
<1>6. compute_next_run(c, after) = At(d, c.slot)
  <2>1. compute_next_run(c, after) = NextWeekly(after, c.slot, c.weekday)
    BY DEF compute_next_run
  <2>. QED  BY <1>5, <2>1 DEF NextWeekly, Passed, ahead, on
<1>7. d \in Nat /\ d >= e /\ d <= LastDay /\ d <= e + 6
  BY <1>1, <1>2, <1>3, <1>4, <1>5
<1>8. d = on + ahead \/ d = on + ahead + 7
  OBVIOUS
<1> HIDE DEF d, e
<1>9. DueOn(c, d)
  <2>1. (FirstWeekday + d) % 7 = c.weekday
    BY <1>0, <1>1, <1>2, <1>8
  <2>. QED  BY <2>1 DEF DueOn, Weekday
<1>10. ASSUME NEW k \in Nat, e <= k, k < d PROVE ~DueOn(c, k)
  <2>1. (FirstWeekday + k) % 7 # (FirstWeekday + d) % 7
    BY <1>0, <1>3, <1>7, <1>10
  <2>2. (FirstWeekday + d) % 7 = c.weekday
    BY <1>0, <1>1, <1>2, <1>8
  <2>. QED  BY <2>1, <2>2 DEF DueOn, Weekday
<1>. QED  BY <1>6, <1>7, <1>9, <1>10 DEF FirstDue, e

\* The day of a month that a monthly cadence means, and that Build makes.
DueDay(m, monthday) == FirstOf[m] + (IF monthday < MonthLengths[m] THEN monthday ELSE MonthLengths[m]) - 1

LEMMA DueDays ==
    ASSUME NEW m \in Months, NEW md \in 1..31
    PROVE  /\ DueDay(m, md) \in Nat /\ FirstOf[m] \in Nat /\ MonthLengths[m] \in 28..31
           /\ FirstOf[m] <= DueDay(m, md) /\ DueDay(m, md) < FirstOf[m] + MonthLengths[m]
<1>1. FirstOf[m] \in Nat /\ MonthLengths[m] \in 28..31
  BY MonthFacts, FirstNat
<1>. QED  BY <1>1 DEF DueDay

LEMMA DueOnMonth ==
    ASSUME NEW c \in Cadences, c.frequency = "monthly", NEW k \in Nat
    PROVE  DueOn(c, k) <=> \E m \in Months : k = DueDay(m, c.monthday)
<1>0. c.monthday \in 1..31
  BY DEF Cadences
<1>1. DueOn(c, k) <=> \E m \in Months : /\ FirstOf[m] <= k /\ k < FirstOf[m] + MonthLengths[m]
                                        /\ \/ k - FirstOf[m] + 1 = c.monthday
                                           \/ c.monthday > MonthLengths[m] /\ k = FirstOf[m + 1] - 1
  BY DEF DueOn
<1>2. ASSUME NEW m \in Months
      PROVE  /\ FirstOf[m] <= k /\ k < FirstOf[m] + MonthLengths[m]
             /\ \/ k - FirstOf[m] + 1 = c.monthday
                \/ c.monthday > MonthLengths[m] /\ k = FirstOf[m + 1] - 1
             <=> k = DueDay(m, c.monthday)
  <2>1. FirstOf[m + 1] = FirstOf[m] + MonthLengths[m] /\ FirstOf[m] \in Nat /\ MonthLengths[m] \in 28..31
    BY MonthFacts, FirstNat
  <2>. QED  BY <1>0, <2>1 DEF DueDay
<1>. QED  BY <1>1, <1>2

\* Days of later months are later.
LEMMA LaterMonths ==
    ASSUME NEW i \in Months, NEW j \in Months, i < j, NEW d \in Nat, d < FirstOf[i] + MonthLengths[i]
    PROVE  d < FirstOf[j]
<1>1. FirstOf[i] + MonthLengths[i] <= FirstOf[j]
  BY MonthsOrdered, MonthFacts
<1>2. FirstOf[i] \in Nat /\ FirstOf[j] \in Nat /\ MonthLengths[i] \in 28..31
  BY MonthFacts, FirstNat
<1>. QED  BY <1>1, <1>2

LEMMA MonthlyIsFirst ==
    ASSUME NEW after \in Moments, NEW c \in Cadences, c.frequency = "monthly"
    PROVE  \E d \in Nat : compute_next_run(c, after) = At(d, c.slot) /\ FirstDue(c, after, d)
<1> DEFINE on == DayOf(after)
           e == Earliest(after, c.slot)
           md == c.monthday
           In(m) == FirstOf[m] <= on /\ on < FirstOf[m] + MonthLengths[m]
           m == MonthOf(after)
<1>0. c.slot \in 0..Slots - 1 /\ md \in 1..31
  BY DEF Cadences
<1>1. /\ after \in Nat /\ on \in Nat /\ on < FirstOf[Last] /\ Last \in Months /\ FirstOf[Last] \in Nat
      /\ LastDay = FirstOf[Last] + MonthLengths[Last] - 1 /\ MonthLengths[Last] \in 28..31
  BY AskedBefore
<1>2. m \in Months /\ In(m)
  <2>1. on < FirstOf[Last + 1]
    BY <1>1, MonthFacts
  <2>2. \E x \in Months : In(x)
    BY <1>1, <2>1, MonthThere
  <2>. QED  BY <2>2 DEF MonthOf
<1>3. e \in Nat /\ e \in on..on + 1
  BY <1>0, <1>1, StillToCome
<1> HIDE DEF m, on, e
<1>4. m < Last /\ m + 1 \in Months
  <2>1. m \in Nat /\ Last \in Nat
    BY <1>2, MonthFacts
  <2>2. ~(Last < m)
    BY <1>1, <1>2, LaterMonths, MonthFacts, FirstNat
  <2>3. m # Last
    BY <1>1, <1>2
  <2>. QED  BY <2>1, <2>2, <2>3, <1>2, MonthFacts
<1> DEFINE here == DueDay(m, md)
           next == DueDay(m + 1, md)
           d == IF here >= e THEN here ELSE next
<1>5. /\ here \in Nat /\ next \in Nat /\ FirstOf[m] \in Nat /\ MonthLengths[m] \in 28..31
      /\ FirstOf[m] <= here /\ here < FirstOf[m] + MonthLengths[m]
      /\ FirstOf[m + 1] <= next /\ next < FirstOf[m + 1] + MonthLengths[m + 1]
      /\ FirstOf[m + 1] = FirstOf[m] + MonthLengths[m] /\ MonthLengths[m + 1] \in 28..31
  BY <1>0, <1>2, <1>4, DueDays, MonthFacts
<1>6. Build(m, c.slot, md) = At(here, c.slot) /\ Build(m + 1, c.slot, md) = At(next, c.slot)
  BY DEF Build, DueDay
<1> HIDE DEF here, next
<1>7. At(here, c.slot) > after <=> here >= e
  BY <1>0, <1>1, <1>5, StillToCome DEF e
<1>8. compute_next_run(c, after) = At(d, c.slot)
  <2>1. compute_next_run(c, after) = NextMonthly(after, c.slot, md)
    BY DEF compute_next_run
  <2>2. At(here, c.slot) \in Nat
    BY <1>0, <1>5, Clock
  <2>. QED  BY <1>1, <1>6, <1>7, <2>1, <2>2 DEF NextMonthly, Passed, m
<1>9. d \in Nat /\ d >= e
  BY <1>2, <1>3, <1>5, <1>1
<1>10. d <= LastDay
  <2>1. next <= LastDay
    <3>1. m + 1 = Last \/ m + 1 < Last
      BY <1>2, <1>4, MonthFacts
    <3>2. CASE m + 1 = Last
      BY <1>1, <1>5, <3>2
    <3>3. CASE m + 1 < Last
      BY <1>1, <1>4, <1>5, <3>3, LaterMonths
    <3>. QED  BY <3>1, <3>2, <3>3
  <2>. QED  BY <1>1, <1>5, <2>1
<1>11. DueOn(c, d)
  BY <1>2, <1>4, <1>5, DueOnMonth DEF here, next
<1>12. ASSUME NEW k \in Nat, e <= k, k < d, DueOn(c, k) PROVE FALSE
  <2>1. PICK i \in Months : k = DueDay(i, md)
    BY <1>12, DueOnMonth
  <2>2. FirstOf[i] \in Nat /\ FirstOf[i] <= k /\ k < FirstOf[i] + MonthLengths[i] /\ i \in Nat
    <3>1. i \in Nat
      BY MonthFacts
    <3>2. FirstOf[i] \in Nat /\ FirstOf[i] <= DueDay(i, md) /\ DueDay(i, md) < FirstOf[i] + MonthLengths[i]
      BY <1>0, DueDays
    <3>. QED  BY <2>1, <3>1, <3>2
  <2>3. m \in Nat
    BY <1>2, MonthFacts
  <2>4. CASE i < m
    <3>1. k < FirstOf[m]
      BY <1>2, <2>2, <2>4, LaterMonths
    <3>. QED  BY <1>1, <1>2, <1>3, <1>5, <1>12, <3>1
  <2>5. CASE i = m
    BY <1>12, <1>3, <1>5, <2>1, <2>5 DEF here
  <2>6. CASE i = m + 1
    BY <1>12, <1>3, <1>5, <2>1, <2>6 DEF next
  <2>7. CASE m + 1 < i
    <3>1. next < FirstOf[i]
      BY <1>4, <1>5, <2>7, LaterMonths
    <3>. QED  BY <1>12, <1>5, <2>2, <3>1
  <2>. QED  BY <2>2, <2>3, <2>4, <2>5, <2>6, <2>7
<1>. QED  BY <1>8, <1>9, <1>10, <1>11, <1>12 DEF FirstDue, e

LEMMA CronIsFirst ==
    ASSUME NEW after \in Moments, NEW c \in Cadences, c.frequency = "cron"
    PROVE  \E d \in Nat : compute_next_run(c, after) = At(d, c.slot) /\ FirstDue(c, after, d)
<1> DEFINE e == Earliest(after, c.slot)
           T == {x \in CronDays : e <= x}
           Comes(t) == t > after /\ \A x \in CronDays : At(x, c.slot) > after => t <= At(x, c.slot)
           Times == {At(x, c.slot) : x \in CronDays}
<1>0. c.slot \in 0..Slots - 1
  BY DEF Cadences
<1>1. /\ after \in Nat /\ DayOf(after) \in Nat /\ DayOf(after) < FirstOf[Last] /\ FirstOf[Last] \in Nat
      /\ LastDay \in Int
  BY AskedBefore
<1>2. e \in Nat /\ e \in DayOf(after)..DayOf(after) + 1
  BY <1>0, <1>1, StillToCome
<1>3. \A x \in CronDays : x \in Nat /\ (At(x, c.slot) > after <=> e <= x)
  BY <1>0, <1>1, StillToCome, CronAssumption
<1> HIDE DEF e
<1>4. PICK there \in CronDays : FirstOf[Last] <= there /\ there <= LastDay
  BY CronAssumption DEF Last
<1>5. there \in T
  BY <1>1, <1>2, <1>3, <1>4
<1>6. PICK d \in T : \A y \in T : d <= y
  <2>1. T \in SUBSET Nat
    BY <1>3
  <2>. QED  BY <1>5, <2>1, LeastNat
<1>7. d \in Nat /\ d \in CronDays /\ e <= d
  BY <1>3, <1>6
<1>8. ASSUME NEW x \in CronDays, e <= x PROVE At(d, c.slot) <= At(x, c.slot)
  <2>1. x \in Nat /\ d <= x
    BY <1>3, <1>6, <1>8
  <2>2. At(x, c.slot) < At(d, c.slot) <=> x < d
    BY <1>0, <1>7, <2>1, Earlier
  <2>3. At(x, c.slot) \in Nat /\ At(d, c.slot) \in Nat
    BY <1>0, <1>7, <2>1, Clock
  <2>. QED  BY <1>7, <2>1, <2>2, <2>3
<1>9. At(d, c.slot) \in Times /\ Comes(At(d, c.slot))
  BY <1>3, <1>7, <1>8
<1>10. compute_next_run(c, after) = CHOOSE t \in Times : Comes(t)
  BY DEF compute_next_run, NextCron
<1>11. ASSUME NEW t \in Times, Comes(t) PROVE t = At(d, c.slot)
  <2>1. PICK x \in CronDays : t = At(x, c.slot)
    OBVIOUS
  <2>2. x \in Nat /\ t \in Nat /\ At(d, c.slot) \in Nat
    BY <1>0, <1>3, <1>7, <2>1, Clock
  <2>3. t <= At(d, c.slot) /\ At(d, c.slot) <= t
    BY <1>3, <1>7, <1>8, <1>11, <2>1
  <2>. QED  BY <2>2, <2>3
<1>12. compute_next_run(c, after) = At(d, c.slot)
  <2> HIDE DEF Comes, Times
  <2>. QED  BY <1>9, <1>10, <1>11
<1>13. d <= LastDay
  BY <1>1, <1>3, <1>4, <1>5, <1>6, <1>7
<1>14. FirstDue(c, after, d)
  BY <1>6, <1>7, <1>13 DEF FirstDue, DueOn, e
<1>. QED  BY <1>7, <1>12, <1>14

\* What compute_next_run answers, for whatever cadence.
LEMMA NextRun ==
    ASSUME NEW after \in Moments, NEW c \in Cadences
    PROVE  /\ compute_next_run(c, after) \in 0..At(LastDay, Slots - 1) /\ compute_next_run(c, after) > after
           /\ compute_next_run(c, after) % Slots = c.slot /\ DueOn(c, DayOf(compute_next_run(c, after)))
           /\ \A t \in after + 1 .. compute_next_run(c, after) - 1 : ~(t % Slots = c.slot /\ DueOn(c, DayOf(t)))
<1>0. c.slot \in 0..Slots - 1 /\ Slots \in Nat /\ Slots > 0 /\ after \in Nat /\ LastDay \in Int
  BY CadenceAssumption, AskedBefore DEF Cadences
<1>1. PICK d \in Nat : compute_next_run(c, after) = At(d, c.slot) /\ FirstDue(c, after, d)
  <2>1. c.frequency \in {"daily", "weekly", "monthly", "cron"}
    BY DEF Cadences
  <2>. QED  BY <2>1, DailyIsFirst, WeeklyIsFirst, MonthlyIsFirst, CronIsFirst
<1>2. At(d, c.slot) \in Nat /\ DayOf(At(d, c.slot)) = d /\ At(d, c.slot) % Slots = c.slot
  BY <1>0, Clock
<1>3. At(d, c.slot) > after
  BY <1>0, <1>1, StillToCome DEF FirstDue
<1>4. At(d, c.slot) <= At(LastDay, Slots - 1)
  <2>1. d <= LastDay /\ LastDay \in Nat
    BY <1>0, <1>1 DEF FirstDue
  <2>2. d * Slots <= LastDay * Slots /\ d * Slots \in Nat /\ LastDay * Slots \in Nat
    BY <1>0, <2>1
  <2>. QED  BY <1>0, <2>2 DEF At
<1>5. ASSUME NEW t \in after + 1 .. At(d, c.slot) - 1, t % Slots = c.slot, DueOn(c, DayOf(t)) PROVE FALSE
  <2>1. t \in Nat /\ after < t /\ t < At(d, c.slot)
    BY <1>0, <1>2, <1>5
  <2>2. t = At(DayOf(t), c.slot) /\ DayOf(t) \in Nat
    BY <1>5, <2>1, Moment
  <2>3. DayOf(t) < d
    BY <1>0, <2>1, <2>2, Earlier
  <2>4. DayOf(t) >= Earliest(after, c.slot)
    BY <1>0, <2>1, <2>2, StillToCome
  <2>. QED  BY <1>1, <1>5, <2>2, <2>3, <2>4, StillToCome, <1>0 DEF FirstDue
<1>6. At(LastDay, Slots - 1) \in Int
  BY <1>0 DEF At
<1>. QED  BY <1>0, <1>1, <1>2, <1>3, <1>4, <1>5, <1>6 DEF FirstDue

CadenceInv == asked \in [cadence : Cadences, after : Moments] /\ CadenceTyped /\ FirstMomentAfter

LEMMA CadenceStarts == CadenceInit => CadenceInv
<1> SUFFICES ASSUME CadenceInit PROVE CadenceInv
  OBVIOUS
<1>1. asked.after \in Moments /\ answer = -1
  BY DEF CadenceInit
<1>2. /\ LastDay = FirstOf[Last] + MonthLengths[Last] - 1 /\ MonthLengths[Last] \in 28..31
      /\ FirstOf[Last] \in Nat /\ Slots \in Nat /\ Slots > 0
  BY <1>1, AskedBefore, CadenceAssumption
<1>3. LastDay \in Nat /\ At(LastDay, Slots - 1) \in Nat
  <2>1. LastDay \in Nat
    BY <1>2
  <2>2. LastDay * Slots \in Nat
    BY <1>2, <2>1
  <2>. QED  BY <1>2, <2>1, <2>2 DEF At
<1>. QED  BY <1>1, <1>3 DEF CadenceInit, CadenceInv, CadenceTyped, FirstMomentAfter

LEMMA CadenceStep == CadenceInv /\ [Preview]_cadenceVars => CadenceInv'
<1> SUFFICES ASSUME CadenceInv, [Preview]_cadenceVars PROVE CadenceInv'
  OBVIOUS
<1>1. CASE Preview
  <2>1. asked.after \in Moments /\ asked.cadence \in Cadences /\ asked' = asked
        /\ answer' = compute_next_run(asked.cadence, asked.after)
    BY <1>1 DEF CadenceInv, Preview
  <2>2. At(LastDay, Slots - 1) \in Int
    BY <2>1, AskedBefore, CadenceAssumption DEF At
  <2>3. CadenceTyped'
    BY <2>1, <2>2, NextRun DEF CadenceTyped
  <2>4. FirstMomentAfter'
    BY <2>1, NextRun DEF FirstMomentAfter
  <2>. QED  BY <2>1, <2>3, <2>4 DEF CadenceInv
<1>2. CASE UNCHANGED cadenceVars
  BY <1>2 DEF cadenceVars, CadenceInv, CadenceTyped, FirstMomentAfter
<1>. QED  BY <1>1, <1>2

-----------------------------------------------------------------------------
(* Due moments.  What fired lies behind the clock, and behind the poll that *)
(* is under way; a live schedule's next moment, and those after it, fired   *)
(* no more often than polls were lost, but for the one that poll has just   *)
(* fired and not yet committed.                                             *)

ScheduleRows == [state : {"new", "live", "deleted"}, enabled : BOOLEAN, cadence : Choices, next : Nat,
                 keep : Nat \union {NoRule}, age : Nat \union {NoRule}]
Polls == [busy : BOOLEAN, at : 0..MaxTime, seen : {<<>>} \union [Schedules -> ScheduleRows],
          rows : SUBSET Schedules, fired : SUBSET Schedules]
Tallies == [fired : [Schedules -> [0..MaxTime -> Nat]], lost : Nat, edits : Nat, restarts : Nat]

TimesTyped ==
    /\ clock \in 0..MaxTime /\ schedule \in [Schedules -> ScheduleRows]
    /\ poll \in Polls /\ history \in Tallies

PollReads ==
    IF poll.busy
    THEN /\ poll.at <= clock /\ poll.seen \in [Schedules -> ScheduleRows]
         /\ \A s \in poll.rows \union poll.fired : poll.seen[s].next <= poll.at
    ELSE poll.rows = {} /\ poll.fired = {}

FiredBehind == \A s \in Schedules, t \in 0..MaxTime :
    history.fired[s][t] # 0 => t <= clock /\ (poll.busy => t <= poll.at)

JustFired(s, t) == s \in poll.fired /\ t = poll.seen[s].next

NextIsFresh == \A s \in Schedules, t \in 0..MaxTime :
    Live(s) /\ schedule[s].next <= t => history.fired[s][t] <= history.lost \/ JustFired(s, t)

ToFireIsFresh == \A s \in poll.rows : history.fired[s][poll.seen[s].next] <= history.lost

FireInv == TimesTyped /\ PollReads /\ FiredBehind /\ NextIsFresh /\ ToFireIsFresh /\ FiresOncePerCommit

LEMMA NextTyped ==
    ASSUME NEW c \in Choices, NEW t \in 0..MaxTime
    PROVE  compute_next_run(c, t) \in Nat /\ compute_next_run(c, t) > t
<1>1. c \in Cadences /\ t \in Moments
  <2>1. MaxTime \in Moments /\ FirstOf[Last] \in Nat /\ Slots \in Nat
    BY ChoicesAssumption, AskedBefore, CadenceAssumption
  <2>2. At(FirstOf[Last], 0) \in Int
    BY <2>1 DEF At
  <2>. QED  BY ChoicesAssumption, <2>1, <2>2 DEF Moments, Last
<1>2. LastDay \in Int /\ Slots \in Int
  BY <1>1, AskedBefore, CadenceAssumption
<1>3. At(LastDay, Slots - 1) \in Int
  BY <1>2 DEF At
<1>. QED  BY <1>1, <1>3, NextRun

LEMMA FireStarts == BackupInit => FireInv
<1> SUFFICES ASSUME BackupInit PROVE FireInv
  OBVIOUS
<1>1. NewSchedule \in ScheduleRows
  BY ChoicesAssumption DEF NewSchedule, ScheduleRows
<1>2. MaxTime \in Nat
  BY BackupAssumption
<1>3. TimesTyped
  BY <1>1, <1>2 DEF BackupInit, TimesTyped, Polls, Tallies, Idle
<1>4. /\ poll = Idle /\ poll.busy = FALSE /\ poll.rows = {} /\ poll.fired = {}
      /\ history.lost = 0 /\ \A s \in Schedules, t \in 0..MaxTime : history.fired[s][t] = 0
  BY DEF BackupInit, Idle
<1>. QED  BY <1>3, <1>4 DEF FireInv, PollReads, FiredBehind, NextIsFresh, ToFireIsFresh, FiresOncePerCommit

\* Steps that neither poll, nor move a schedule or the clock.
LEMMA FireRests ==
    ASSUME FireInv, UNCHANGED <<clock, schedule, poll>>, UNCHANGED history \/ Edited
    PROVE  FireInv'
<1>1. history' \in Tallies /\ history'.fired = history.fired /\ history'.lost = history.lost
  BY DEF FireInv, TimesTyped, Tallies, Edited
<1>2. TimesTyped'
  BY <1>1 DEF FireInv, TimesTyped
<1>3. PollReads'
  BY DEF FireInv, PollReads
<1>4. FiredBehind'
  BY <1>1 DEF FireInv, FiredBehind
<1>5. NextIsFresh'
  BY <1>1 DEF FireInv, NextIsFresh, JustFired, Live
<1>6. ToFireIsFresh' /\ FiresOncePerCommit'
  BY <1>1 DEF FireInv, ToFireIsFresh, FiresOncePerCommit
<1>. QED  BY <1>2, <1>3, <1>4, <1>5, <1>6 DEF FireInv

\* An operator's change to one schedule moves it, if at all, beyond the clock.
LEMMA FireEdits ==
    ASSUME FireInv, NEW s \in Schedules, NEW to \in ScheduleRows, schedule' = [schedule EXCEPT ![s] = to],
           to.state = "live" => (Live(s) /\ to.next = schedule[s].next) \/ to.next > clock,
           UNCHANGED <<clock, poll>>, UNCHANGED history \/ Edited
    PROVE  FireInv'
<1>1. history' \in Tallies /\ history'.fired = history.fired /\ history'.lost = history.lost
  BY DEF FireInv, TimesTyped, Tallies, Edited
<1>0. history.fired \in [Schedules -> [0..MaxTime -> Nat]] /\ history.lost \in Nat
  BY DEF FireInv, TimesTyped, Tallies
<1>2. TimesTyped'
  BY <1>1 DEF FireInv, TimesTyped
<1>3. PollReads' /\ ToFireIsFresh' /\ FiresOncePerCommit' /\ FiredBehind'
  BY <1>1 DEF FireInv, PollReads, ToFireIsFresh, FiresOncePerCommit, FiredBehind
<1>4. ASSUME NEW x \in Schedules, NEW t \in 0..MaxTime, schedule'[x].state = "live", schedule'[x].next <= t
      PROVE  history.fired[x][t] <= history.lost \/ JustFired(x, t)
  <2>1. CASE x # s \/ (Live(s) /\ to.next = schedule[s].next)
    BY <1>4, <2>1 DEF FireInv, TimesTyped, NextIsFresh, Live
  <2>2. CASE x = s /\ to.next > clock
    <3>1. t > clock /\ clock \in Nat /\ t \in Nat
      BY <1>4, <2>2 DEF FireInv, TimesTyped, ScheduleRows
    <3>2. history.fired[x][t] = 0
      BY <3>1 DEF FireInv, FiredBehind
    <3>. QED  BY <1>0, <3>2
  <2>. QED  BY <1>4, <2>1, <2>2 DEF FireInv, TimesTyped
<1>5. NextIsFresh'
  BY <1>1, <1>4 DEF NextIsFresh, Live, JustFired
<1>. QED  BY <1>2, <1>3, <1>5 DEF FireInv

LEMMA FireSchedules ==
    ASSUME FireInv, NEW s \in Schedules, CreateSchedule(s) \/ UpdateSchedule(s) \/ DeleteSchedule(s)
    PROVE  FireInv'
<1>0. clock \in 0..MaxTime /\ schedule \in [Schedules -> ScheduleRows] /\ schedule[s] \in ScheduleRows
  BY DEF FireInv, TimesTyped
<1>1. \A k \in KeepRules \union AgeRules : k \in Nat \union {NoRule}
  BY BackupAssumption
<1>2. UNCHANGED <<clock, poll>> /\ (UNCHANGED history \/ Edited)
  BY DEF CreateSchedule, UpdateSchedule, DeleteSchedule
<1>3. \E to \in ScheduleRows :
         /\ schedule' = [schedule EXCEPT ![s] = to]
         /\ to.state = "live" => (Live(s) /\ to.next = schedule[s].next) \/ to.next > clock
  <2>1. CASE CreateSchedule(s)
    <3>1. PICK c \in Choices, k \in KeepRules, a \in AgeRules :
            schedule' = [schedule EXCEPT ![s] = [state |-> "live", enabled |-> TRUE, cadence |-> c,
                                                next |-> compute_next_run(c, clock), keep |-> k, age |-> a]]
      BY <2>1 DEF CreateSchedule
    <3> DEFINE to == [state |-> "live", enabled |-> TRUE, cadence |-> c,
                      next |-> compute_next_run(c, clock), keep |-> k, age |-> a]
    <3>2. compute_next_run(c, clock) \in Nat /\ compute_next_run(c, clock) > clock
      BY <1>0, NextTyped
    <3>3. k \in Nat \union {NoRule} /\ a \in Nat \union {NoRule}
      BY <1>1
    <3>4. to \in ScheduleRows /\ to.next > clock
      BY <3>2, <3>3 DEF ScheduleRows
    <3>5. schedule' = [schedule EXCEPT ![s] = to]
      BY <3>1
    <3> HIDE DEF to
    <3>. QED  BY <3>4, <3>5
  <2>2. ASSUME NEW c \in Choices, schedule' = [schedule EXCEPT ![s].cadence = c, ![s].next = compute_next_run(c, clock)]
        PROVE  \E to \in ScheduleRows : schedule' = [schedule EXCEPT ![s] = to] /\ to.next > clock
    <3> DEFINE to == [schedule[s] EXCEPT !.cadence = c, !.next = compute_next_run(c, clock)]
    <3>1. schedule' = [schedule EXCEPT ![s] = to]
      BY <1>0, <2>2
    <3>2. to \in ScheduleRows /\ to.next > clock
      BY <1>0, NextTyped DEF ScheduleRows
    <3>. QED  BY <3>1, <3>2
  <2>3. CASE schedule' = [schedule EXCEPT ![s].enabled = ~@]
    <3>1. PICK e \in BOOLEAN : e = ~schedule[s].enabled
      BY Zenon
    <3>2. schedule' = [schedule EXCEPT ![s] = [schedule[s] EXCEPT !.enabled = e]]
      BY <2>3, <3>1
    <3>3. [schedule[s] EXCEPT !.enabled = e] \in ScheduleRows /\ [schedule[s] EXCEPT !.enabled = e].next = schedule[s].next
          /\ [schedule[s] EXCEPT !.enabled = e].state = schedule[s].state
      BY <1>0 DEF ScheduleRows
    <3>. QED  BY <3>2, <3>3 DEF Live
  <2>4. ASSUME NEW k \in KeepRules, NEW a \in AgeRules,
               schedule' = [schedule EXCEPT ![s].keep = k, ![s].age = a]
        PROVE  \E to \in ScheduleRows : /\ schedule' = [schedule EXCEPT ![s] = to] /\ to.next = schedule[s].next
                                        /\ to.state = schedule[s].state
    <3> DEFINE to == [schedule[s] EXCEPT !.keep = k, !.age = a]
    <3>1. schedule' = [schedule EXCEPT ![s] = to]
      BY <2>4
    <3>2. to \in ScheduleRows /\ to.next = schedule[s].next /\ to.state = schedule[s].state
      BY <1>0, <1>1 DEF ScheduleRows
    <3>. QED  BY <3>1, <3>2
  <2>5. CASE UpdateSchedule(s)
    <3>1. Live(s)
      BY <2>5 DEF UpdateSchedule
    <3>2. \/ \E c \in Choices : schedule' = [schedule EXCEPT ![s].cadence = c, ![s].next = compute_next_run(c, clock)]
          \/ schedule' = [schedule EXCEPT ![s].enabled = ~@]
          \/ \E k \in KeepRules, a \in AgeRules : schedule' = [schedule EXCEPT ![s].keep = k, ![s].age = a]
      BY <2>5 DEF UpdateSchedule
    <3>. QED  BY <2>2, <2>3, <2>4, <3>1, <3>2 DEF Live
  <2>6. CASE DeleteSchedule(s)
    <3> DEFINE to == [schedule[s] EXCEPT !.state = "deleted"]
    <3>1. schedule' = [schedule EXCEPT ![s] = to]
      BY <2>6 DEF DeleteSchedule
    <3>2. to \in ScheduleRows /\ to.state = "deleted"
      BY <1>0 DEF ScheduleRows
    <3>. QED  BY <3>1, <3>2
  <2>. QED  BY <2>1, <2>5, <2>6
<1>. QED  BY <1>2, <1>3, FireEdits

LEMMA FirePolls == ASSUME FireInv, PollDue PROVE FireInv'
<1>0. clock \in 0..MaxTime /\ schedule \in [Schedules -> ScheduleRows] /\ MaxTime \in Nat
  BY BackupAssumption DEF FireInv, TimesTyped
<1>1. /\ poll' = [busy |-> TRUE, at |-> clock, seen |-> schedule, rows |-> {s \in Schedules : IsDue(s)}, fired |-> {}]
      /\ UNCHANGED <<clock, schedule, history>> /\ poll.fired = {}
  BY DEF PollDue, FireInv, PollReads
<1>2. TimesTyped'
  BY <1>0, <1>1 DEF FireInv, TimesTyped, Polls
<1>3. PollReads'
  BY <1>0, <1>1 DEF PollReads, IsDue
<1>4. FiredBehind'
  BY <1>1 DEF FireInv, FiredBehind
<1>5. NextIsFresh'
  BY <1>1 DEF FireInv, NextIsFresh, JustFired, Live
<1>6. ToFireIsFresh'
  <2> SUFFICES ASSUME NEW s \in Schedules, IsDue(s) PROVE history.fired[s][schedule[s].next] <= history.lost
    BY <1>1 DEF ToFireIsFresh
  <2>1. Live(s) /\ schedule[s].next \in 0..MaxTime /\ schedule[s].next <= schedule[s].next
    BY <1>0 DEF IsDue, ScheduleRows
  <2>. QED  BY <1>1, <2>1 DEF FireInv, NextIsFresh, JustFired
<1>7. FiresOncePerCommit'
  BY <1>1 DEF FireInv, FiresOncePerCommit
<1>. QED  BY <1>2, <1>3, <1>4, <1>5, <1>6, <1>7 DEF FireInv

\* An edit counted touches nothing else of the history.
LEMMA EditCounted ==
    ASSUME NEW F, NEW h \in [fired : F, lost : Nat, edits : Nat, restarts : Nat],
           NEW g, g = [h EXCEPT !.edits = @ + 1]
    PROVE  /\ g \in [fired : F, lost : Nat, edits : Nat, restarts : Nat]
           /\ g.fired = h.fired /\ g.lost = h.lost
OBVIOUS

LEMMA FireFires == ASSUME FireInv, NEW s \in Schedules, PollFires(s) PROVE FireInv'
<1> DEFINE when == poll.seen[s].next
<1>0. /\ clock \in 0..MaxTime /\ schedule \in [Schedules -> ScheduleRows] /\ MaxTime \in Nat
      /\ poll \in Polls /\ history \in Tallies /\ s \in poll.rows /\ UNCHANGED <<clock, schedule>>
      /\ history.fired \in [Schedules -> [0..MaxTime -> Nat]] /\ history.lost \in Nat
  BY BackupAssumption DEF FireInv, TimesTyped, PollFires, Tallies
<1>1. poll.busy /\ poll.at <= clock /\ poll.seen \in [Schedules -> ScheduleRows] /\ when <= poll.at
      /\ \A x \in poll.rows \union poll.fired : poll.seen[x].next <= poll.at
  BY <1>0 DEF FireInv, PollReads
<1>2. poll.at \in 0..MaxTime /\ when \in 0..MaxTime
  BY <1>0, <1>1 DEF Polls, ScheduleRows
<1>3. CASE /\ poll' = [poll EXCEPT !.rows = @ \ {s}] /\ Edited
  <2>1. /\ poll' \in Polls /\ poll'.rows = poll.rows \ {s} /\ poll'.fired = poll.fired /\ poll'.seen = poll.seen
        /\ poll'.at = poll.at /\ poll'.busy = poll.busy
    BY <1>0, <1>3 DEF Polls
  <2>2. history' \in Tallies /\ history'.fired = history.fired /\ history'.lost = history.lost
    <3>1. history' = [history EXCEPT !.edits = @ + 1]
      BY <1>3 DEF Edited
    <3>2. history \in [fired : [Schedules -> [0..MaxTime -> Nat]], lost : Nat, edits : Nat, restarts : Nat]
      BY <1>0 DEF Tallies
    <3>. QED  BY <3>1, <3>2, EditCounted, Zenon DEF Tallies
  <2>3. TimesTyped'
    BY <1>0, <2>1, <2>2 DEF TimesTyped
  <2>4. PollReads'
    BY <1>0, <1>1, <2>1 DEF PollReads
  <2>5. FiredBehind' /\ FiresOncePerCommit' /\ ToFireIsFresh'
    BY <1>0, <2>1, <2>2 DEF FireInv, FiredBehind, FiresOncePerCommit, ToFireIsFresh
  <2>6. NextIsFresh'
    BY <1>0, <2>1, <2>2 DEF FireInv, NextIsFresh, JustFired, Live
  <2>. QED  BY <2>3, <2>4, <2>5, <2>6 DEF FireInv
<1>4. CASE /\ poll' = [poll EXCEPT !.rows = @ \ {s}, !.fired = @ \union {s}]
           /\ history' = [history EXCEPT !.fired[s][when] = @ + 1]
  <2>1. /\ poll' \in Polls /\ poll'.rows = poll.rows \ {s} /\ poll'.fired = poll.fired \union {s}
        /\ poll'.seen = poll.seen /\ poll'.at = poll.at /\ poll'.busy = poll.busy
    BY <1>0, <1>4 DEF Polls
  <2>2. /\ history' \in Tallies /\ history'.lost = history.lost
        /\ \A x \in Schedules, t \in 0..MaxTime :
             history'.fired[x][t] = IF x = s /\ t = when THEN history.fired[s][when] + 1 ELSE history.fired[x][t]
    <3> DEFINE f == [history.fired EXCEPT ![s] = [history.fired[s] EXCEPT ![when] = history.fired[s][when] + 1]]
    <3>1. history' = [history EXCEPT !.fired = f]
      BY <1>4
    <3>2. history.fired[s] \in [0..MaxTime -> Nat] /\ history.fired[s][when] + 1 \in Nat
      <4>1. history.fired[s] \in [0..MaxTime -> Nat]
        BY <1>0
      <4>2. history.fired[s][when] \in Nat
        BY <4>1, <1>2
      <4>. QED  BY <4>1, <4>2
    <3>3. f \in [Schedules -> [0..MaxTime -> Nat]]
      BY <1>0, <1>2, <3>2
    <3>4. \A x \in Schedules, t \in 0..MaxTime :
             f[x][t] = IF x = s /\ t = when THEN history.fired[s][when] + 1 ELSE history.fired[x][t]
      BY <1>0, <1>2, <3>2
    <3> HIDE DEF f
    <3>5. history' \in Tallies /\ history'.lost = history.lost /\ history'.fired = f
      BY <1>0, <3>1, <3>3 DEF Tallies
    <3>. QED  BY <3>4, <3>5
  <2>3. TimesTyped'
    BY <1>0, <2>1, <2>2 DEF TimesTyped
  <2>4. PollReads'
    BY <1>0, <1>1, <2>1 DEF PollReads
  <2>5. FiredBehind'
    <3> SUFFICES ASSUME NEW x \in Schedules, NEW t \in 0..MaxTime, history'.fired[x][t] # 0
                 PROVE  t <= clock /\ t <= poll.at
      BY <1>0, <2>1 DEF FiredBehind
    <3>1. CASE x = s /\ t = when
      BY <1>0, <1>1, <1>2, <3>1
    <3>2. CASE ~(x = s /\ t = when)
      BY <1>0, <1>1, <2>2, <3>2 DEF FireInv, FiredBehind
    <3>. QED  BY <3>1, <3>2
  <2>6. ToFireIsFresh'
    <3> SUFFICES ASSUME NEW x \in poll.rows \ {s} PROVE history'.fired[x][poll.seen[x].next] <= history.lost
      BY <2>1, <2>2 DEF ToFireIsFresh
    <3>1. x \in Schedules /\ poll.seen[x].next \in 0..MaxTime
      BY <1>0, <1>1, <1>2 DEF Polls, ScheduleRows
    <3>. QED  BY <2>2, <3>1 DEF FireInv, ToFireIsFresh
  <2>7. history.fired[s][when] <= history.lost /\ history.fired[s][when] \in Nat
    BY <1>0, <1>2 DEF FireInv, ToFireIsFresh
  <2>8. FiresOncePerCommit'
    BY <1>0, <2>2, <2>7 DEF FireInv, FiresOncePerCommit
  <2>9. NextIsFresh'
    <3> SUFFICES ASSUME NEW x \in Schedules, NEW t \in 0..MaxTime, Live(x), schedule[x].next <= t
                 PROVE  history'.fired[x][t] <= history.lost \/ JustFired(x, t)'
      BY <1>0, <2>2 DEF NextIsFresh, Live
    <3>1. CASE x = s /\ t = when
      BY <2>1, <3>1 DEF JustFired
    <3>2. CASE ~(x = s /\ t = when)
      BY <2>1, <2>2, <3>2 DEF FireInv, NextIsFresh, JustFired
    <3>. QED  BY <3>1, <3>2
  <2>. QED  BY <2>3, <2>4, <2>5, <2>6, <2>8, <2>9 DEF FireInv
<1>. QED  BY <1>3, <1>4 DEF PollFires

\* A poll that ends, whether it is lost or moves what it fired.
LEMMA FireCommits == ASSUME FireInv, PollCommits \/ RestartBackups PROVE FireInv'
<1>0. /\ clock \in 0..MaxTime /\ schedule \in [Schedules -> ScheduleRows] /\ MaxTime \in Nat
      /\ poll \in Polls /\ history \in Tallies /\ poll' = Idle /\ UNCHANGED clock
      /\ history.fired \in [Schedules -> [0..MaxTime -> Nat]] /\ history.lost \in Nat
  BY BackupAssumption DEF FireInv, TimesTyped, PollCommits, RestartBackups, Tallies
<1>1. poll' \in Polls /\ ~poll'.busy /\ poll'.rows = {} /\ poll'.fired = {} /\ PollReads' /\ ToFireIsFresh'
  BY <1>0 DEF Idle, Polls, PollReads, ToFireIsFresh
<1>2. CASE /\ UNCHANGED schedule /\ history' \in Tallies /\ history'.fired = history.fired
           /\ history'.lost \in {history.lost, history.lost + 1}
           /\ poll.fired # {} => history'.lost = history.lost + 1
  <2>1. TimesTyped' /\ FiredBehind'
    BY <1>0, <1>1, <1>2 DEF FireInv, TimesTyped, FiredBehind
  <2>2. FiresOncePerCommit'
    BY <1>0, <1>2 DEF FireInv, FiresOncePerCommit
  <2>3. NextIsFresh'
    <3> SUFFICES ASSUME NEW x \in Schedules, NEW t \in 0..MaxTime, Live(x), schedule[x].next <= t
                 PROVE  history.fired[x][t] <= history'.lost
      BY <1>2 DEF NextIsFresh, Live
    <3>1. CASE history.fired[x][t] <= history.lost
      BY <1>0, <1>2, <3>1
    <3>2. CASE JustFired(x, t)
      <4>1. poll.fired # {}
        BY <3>2 DEF JustFired
      <4>. QED  BY <1>0, <1>2, <4>1 DEF FireInv, FiresOncePerCommit
    <3>. QED  BY <3>1, <3>2 DEF FireInv, NextIsFresh
  <2>. QED  BY <1>1, <2>1, <2>2, <2>3 DEF FireInv
<1>3. CASE /\ poll.busy /\ UNCHANGED history
           /\ schedule' = [s \in Schedules |->
                 IF s \in poll.fired /\ Live(s) THEN [schedule[s] EXCEPT !.next = Advanced(s)] ELSE schedule[s]]
  <2>0. poll.seen \in [Schedules -> ScheduleRows] /\ poll.at \in 0..MaxTime
    BY <1>0, <1>3 DEF FireInv, PollReads, Polls
  <2>1. \A s \in Schedules : Advanced(s) \in Nat /\ Advanced(s) > poll.at
    BY <2>0, NextTyped DEF Advanced, ScheduleRows
  <2>2. schedule' \in [Schedules -> ScheduleRows]
    <3>1. \A s \in Schedules : [schedule[s] EXCEPT !.next = Advanced(s)] \in ScheduleRows
      BY <1>0, <2>1 DEF ScheduleRows
    <3>. QED  BY <1>0, <1>3, <3>1
  <2>3. TimesTyped' /\ FiredBehind' /\ FiresOncePerCommit'
    BY <1>0, <1>1, <1>3, <2>2 DEF FireInv, TimesTyped, FiredBehind, FiresOncePerCommit
  <2>4. NextIsFresh'
    <3> SUFFICES ASSUME NEW x \in Schedules, NEW t \in 0..MaxTime, schedule'[x].state = "live", schedule'[x].next <= t
                 PROVE  history.fired[x][t] <= history.lost
      BY <1>3 DEF NextIsFresh, Live
    <3>1. CASE x \in poll.fired /\ Live(x)
      <4>1. schedule'[x].next = Advanced(x)
        BY <1>0, <1>3, <3>1 DEF ScheduleRows
      <4>2. ~(t <= poll.at)
        BY <1>0, <2>0, <2>1, <4>1
      <4>3. history.fired[x][t] = 0
        BY <1>3, <4>2 DEF FireInv, FiredBehind
      <4>. QED  BY <1>0, <4>3
    <3>2. CASE ~(x \in poll.fired /\ Live(x))
      <4>1. schedule'[x] = schedule[x] /\ Live(x) /\ x \notin poll.fired
        BY <1>3, <3>2 DEF Live
      <4>. QED  BY <4>1 DEF FireInv, NextIsFresh, JustFired
    <3>. QED  BY <3>1, <3>2
  <2>. QED  BY <1>1, <2>3, <2>4 DEF FireInv
<1>4. CASE PollCommits
  <2>1. CASE \E s \in poll.fired : ~Live(s) /\ history' = [history EXCEPT !.lost = @ + 1] /\ UNCHANGED schedule
    BY <1>0, <1>2, <2>1 DEF Tallies
  <2>. QED  BY <1>3, <1>4, <2>1 DEF PollCommits
<1>5. CASE RestartBackups
  <2> DEFINE more == IF poll.fired # {} THEN 1 ELSE 0
  <2>1. history' = [history EXCEPT !.restarts = @ + 1, !.lost = @ + more] /\ UNCHANGED schedule
    BY <1>5 DEF RestartBackups
  <2>2. more \in {0, 1} /\ (poll.fired # {} => more = 1)
    OBVIOUS
  <2> HIDE DEF more
  <2>3. history' \in Tallies /\ history'.fired = history.fired /\ history'.lost = history.lost + more
    <3>1. more \in Nat
      BY <2>2
    <3>2. history.restarts + 1 \in Nat /\ history.lost + more \in Nat /\ history.edits \in Nat
      BY <1>0, <3>1 DEF Tallies
    <3>3. history' = [fired |-> history.fired, lost |-> history.lost + more, edits |-> history.edits,
                      restarts |-> history.restarts + 1]
      BY <1>0, <2>1 DEF Tallies
    <3>. QED  BY <1>0, <3>2, <3>3 DEF Tallies
  <2>. QED  BY <1>0, <1>2, <2>1, <2>2, <2>3
<1>. QED  BY <1>4, <1>5

LEMMA FireTicks == ASSUME FireInv, Tick PROVE FireInv'
<1>0. /\ clock \in 0..MaxTime /\ schedule \in [Schedules -> ScheduleRows] /\ MaxTime \in Nat
      /\ poll \in Polls /\ clock' = clock + 1 /\ clock < MaxTime /\ UNCHANGED <<schedule, poll, history>>
  BY BackupAssumption DEF FireInv, TimesTyped, Tick
<1>1. TimesTyped'
  BY <1>0 DEF FireInv, TimesTyped
<1>2. PollReads'
  BY <1>0 DEF FireInv, PollReads, Polls
<1>3. FiredBehind'
  BY <1>0 DEF FireInv, FiredBehind
<1>4. NextIsFresh' /\ ToFireIsFresh' /\ FiresOncePerCommit'
  BY <1>0 DEF FireInv, NextIsFresh, JustFired, Live, ToFireIsFresh, FiresOncePerCommit
<1>. QED  BY <1>1, <1>2, <1>3, <1>4 DEF FireInv

LEMMA FireStep == FireInv /\ [BackupNext]_backupVars => FireInv'
<1> SUFFICES ASSUME FireInv, [BackupNext]_backupVars PROVE FireInv'
  OBVIOUS
<1>1. CASE UNCHANGED backupVars
  BY <1>1, FireRests DEF backupVars
<1>2. ASSUME NEW s \in Schedules, RunScheduleNow(s) PROVE FireInv'
  BY <1>2, FireRests DEF RunScheduleNow
<1>3. CASE EnqueueArchive
  BY <1>3, FireRests DEF EnqueueArchive
<1>4. ASSUME NEW r \in Runs, BeginRun(r) \/ OpenArchive(r) \/ FinishArchive(r) \/ FailRun(r)
                             \/ RecordSuccess(r) \/ PruneSelects(r) \/ PruneDeletes(r) \/ PruneCommits(r) \/ CancelRun(r)
      PROVE  FireInv'
  <2>1. UNCHANGED <<clock, schedule, poll>> /\ (UNCHANGED history \/ Edited)
    BY <1>4 DEF BeginRun, OpenArchive, FinishArchive, FailRun, RecordSuccess, PruneSelects, PruneDeletes, PruneCommits, CancelRun
  <2>. QED  BY <2>1, FireRests
<1>. QED  BY <1>1, <1>2, <1>3, <1>4, FireSchedules, FirePolls, FireFires, FireCommits, FireTicks DEF BackupNext

\* Whose bytes a path holds.
BytesKnown == \A p \in Runs : disk[p].by \subseteq Runs

LEMMA BytesStep == BackupInv /\ BytesKnown /\ [BackupNext]_backupVars => BytesKnown'
<1> SUFFICES ASSUME BackupInv, BytesKnown, [BackupNext]_backupVars PROVE BytesKnown'
  OBVIOUS
<1>0. DOMAIN disk = Runs /\ \A p \in Runs : Archive(disk[p])
  BY DEF BackupInv, RowsTyped
<1>1. UNCHANGED disk => BytesKnown'
  BY DEF BytesKnown
<1>2. ASSUME NEW r \in Runs, OpenArchive(r) PROVE BytesKnown'
  <2>1. disk' = [disk EXCEPT ![r] = [by |-> IF Compressed(r) THEN {r} ELSE @.by \union {r}, whole |-> FALSE]]
    BY <1>2 DEF OpenArchive, PathOf
  <2>2. disk'[r].by \subseteq disk[r].by \union {r} /\ \A p \in Runs \ {r} : disk'[p] = disk[p]
    BY <1>0, <2>1
  <2>. QED  BY <2>2 DEF BytesKnown
<1>3. ASSUME NEW r \in Runs, FinishArchive(r) PROVE BytesKnown'
  <2>1. disk' = [disk EXCEPT ![r] = [disk[r] EXCEPT !.whole = TRUE]]
    BY <1>3 DEF FinishArchive, PathOf
  <2>2. [disk[r] EXCEPT !.whole = TRUE].by = disk[r].by
    BY <1>0 DEF Archive
  <2>. QED  BY <1>0, <2>1, <2>2 DEF BytesKnown
<1>4. ASSUME NEW r \in Runs, PruneDeletes(r) PROVE BytesKnown'
  <2>1. PICK x : disk' = [disk EXCEPT ![x] = Nothing]
    BY <1>4 DEF PruneDeletes, PathOf
  <2>. QED  BY <1>0, <2>1 DEF BytesKnown, Nothing
<1>5. CASE UNCHANGED backupVars \/ EnqueueArchive \/ PollDue \/ PollCommits \/ RestartBackups \/ Tick
  BY <1>1, <1>5 DEF backupVars, EnqueueArchive, PollDue, PollCommits, RestartBackups, Tick
<1>6. ASSUME NEW s \in Schedules, \/ CreateSchedule(s) \/ UpdateSchedule(s) \/ DeleteSchedule(s)
                                  \/ RunScheduleNow(s) \/ PollFires(s)
      PROVE  BytesKnown'
  BY <1>1, <1>6 DEF CreateSchedule, UpdateSchedule, DeleteSchedule, RunScheduleNow, PollFires
<1>7. ASSUME NEW r \in Runs, BeginRun(r) \/ FailRun(r) \/ RecordSuccess(r) \/ PruneSelects(r) \/ PruneCommits(r) \/ CancelRun(r)
      PROVE  BytesKnown'
  BY <1>1, <1>7 DEF BeginRun, FailRun, RecordSuccess, PruneSelects, PruneCommits, CancelRun, To
<1>. QED  BY <1>2, <1>3, <1>4, <1>5, <1>6, <1>7 DEF BackupNext

LEMMA BackupsAreTyped == BackupInv /\ FireInv /\ BytesKnown => BackupsTyped
<1> SUFFICES ASSUME BackupInv, FireInv, BytesKnown PROVE BackupsTyped
  OBVIOUS
<1>1. \A r \in Runs : backup[r] \in BackupRow
  BY DEF BackupInv, RowsTyped
<1>. QED  BY <1>1 DEF FireInv, TimesTyped, ScheduleRows, Polls, BackupRow, BytesKnown, BackupsTyped

-----------------------------------------------------------------------------
(* The types TLC checks, part by part.                                      *)

Stored == [url : Urls, sealed : [secret : Secrets, key : Keys]]
RowsAreStored == \A k \in Kinds : stored[k] = Absent \/ stored[k] \in Stored
ConnTypes == RowsAreStored /\ ConnTyped

LEMMA ConnTypesStart == ConnInit => ConnTypes
  BY DEF ConnInit, ConnTypes, RowsAreStored, ConnTyped, Kinds, Quiet

LEMMA ConnTypesStep == ConnInv /\ ConnTypes /\ [ConnNext]_connVars => ConnTypes'
<1> SUFFICES ASSUME ConnInv, ConnTypes, [ConnNext]_connVars PROVE ConnTypes'
  OBVIOUS
<1>0. /\ env \in Environment /\ env.key \in Keys /\ DOMAIN stored = Kinds
      /\ request \in [Clients -> Pending] /\ RowsAreStored
      /\ live \in Conn \union {Unconfigured}
  BY DEF ConnInv, SettingsTyped, Environment, ConnTypes, ConnTyped
<1>1. ASSUME RowsAreStored', live' \in Conn \union {Unconfigured}, request' \in [Clients -> Pending] PROVE ConnTypes'
  <2>1. \A k \in Kinds : stored'[k] = Absent \/ stored'[k].url \in Urls
    BY <1>1 DEF RowsAreStored, Stored
  <2>2. \A r \in Clients : request'[r].doing \in {"nothing", "saving", "creating"}
    BY <1>1 DEF Pending
  <2>. QED  BY <1>1, <2>1, <2>2 DEF ConnTypes, ConnTyped
<1>2. request' \in [Clients -> Pending]
  BY ConnStep DEF ConnInv, SettingsTyped
<1>3. ASSUME NEW c \in Conn, NEW k \in Kinds, stored' = [stored EXCEPT ![k] = StoredAs(c)] PROVE RowsAreStored'
  <2>1. StoredAs(c) \in Stored
    BY <1>0 DEF StoredAs, Sealed, Stored, Conn
  <2>. QED  BY <1>0, <1>3, <2>1 DEF RowsAreStored
<1>4. UNCHANGED stored => RowsAreStored'
  BY <1>0 DEF RowsAreStored
<1>5. ASSUME NEW c \in Conn, SaveSonarConnection(c) \/ SaveGithubAppConfig(c) \/ SaveTelegramConnection(c)
      PROVE  ConnTypes'
  <2>1. UNCHANGED live /\ RowsAreStored'
    BY <1>5, <1>3 DEF SaveSonarConnection, SaveGithubAppConfig, SaveTelegramConnection, Save, Kinds
  <2>. QED  BY <1>0, <1>1, <1>2, <2>1
<1>6. ASSUME NEW r \in Clients, NEW c \in Conn, SaveNexusConnection(r, c) PROVE ConnTypes'
  <2>1. UNCHANGED live /\ RowsAreStored'
    BY <1>6, <1>3 DEF SaveNexusConnection, Kinds
  <2>. QED  BY <1>0, <1>1, <1>2, <2>1
<1>7. ASSUME NEW r \in Clients, Reconfigure(r) PROVE ConnTypes'
  <2>1. live' \in Conn \union {Unconfigured}
    BY <1>0, <1>7 DEF Reconfigure, Pending
  <2>. QED  BY <1>1, <1>2, <1>4, <1>7, <2>1 DEF Reconfigure
<1>8. CASE Start
  <2>1. PICK key \in Keys, c \in {env.conn["nexus"], Unconfigured} :
          live' = LoadNexusConnection([env EXCEPT !.key = key, !.conn["nexus"] = c])
    BY <1>8 DEF Start
  <2> DEFINE e == [env EXCEPT !.key = key, !.conn["nexus"] = c]
  <2>2. e.conn["nexus"] \in Conn \union {Unconfigured}
    BY <1>0 DEF Environment, Kinds
  <2> HIDE DEF e
  <2>3. IsConfigured(Effective("nexus", e)) => Effective("nexus", e) \in Conn \union {Unconfigured}
    <3>1. CASE stored["nexus"] = Absent
      BY <2>2, <3>1 DEF Effective
    <3>2. CASE stored["nexus"] \in Stored /\ stored["nexus"] # Absent
      <4>1. stored["nexus"] # Absent /\ stored["nexus"].url \in Urls /\ stored["nexus"].sealed.secret \in Secrets
        BY <3>2 DEF Stored
      <4>2. Effective("nexus", e) = [url |-> stored["nexus"].url, secret |-> Unsealed(stored["nexus"].sealed, e.key)]
        BY <4>1 DEF Effective
      <4>. QED  BY <4>1, <4>2 DEF Unsealed, IsConfigured, Conn
    <3>. QED  BY <1>0, <3>1, <3>2 DEF RowsAreStored, Kinds
  <2>4. live' \in Conn \union {Unconfigured}
    BY <2>1, <2>2, <2>3 DEF LoadNexusConnection, e
  <2>. QED  BY <1>1, <1>2, <1>4, <1>8, <2>4 DEF Start
<1>9. ASSUME NEW r \in Clients, ReadWebhookSecret(r) \/ CreateWebhookSecret(r) PROVE ConnTypes'
  BY <1>0, <1>1, <1>2, <1>4, <1>9 DEF ReadWebhookSecret, CreateWebhookSecret
<1>10. CASE RotateWebhookSecret \/ UNCHANGED connVars
  BY <1>0, <1>1, <1>2, <1>4, <1>10 DEF RotateWebhookSecret, connVars
<1>. QED  BY <1>5, <1>6, <1>7, <1>8, <1>9, <1>10 DEF ConnNext

RoundStages == {"idle", "repos", "blobstores", "snapshot", "evaluating"}
Fits(e) == e.stage \in RoundStages /\ e.todo \union e.fired \subseteq AlertRules
RoundsFit == \A m \in Rounds : Fits(round[m])
SamplesFit == \A x \in Resources : sample[x].at \in 0..MaxNow

LEMMA AlertTypesStart == AlertsInit => AlertsTyped
  BY AlertsAssumption DEF AlertsInit, AlertsTyped, NewRound, None

LEMMA RoundFits ==
    ASSUME AlertInv, RoundsFit, NEW m \in Rounds, NEW e, Fits(e), round' = [round EXCEPT ![m] = e]
    PROVE  RoundsFit'
  BY DEF AlertInv, RoundsTyped, RoundsFit

LEMMA StageFits ==
    ASSUME AlertInv, RoundsFit, NEW m \in Rounds, NEW stage \in RoundStages, Step(m, stage)
    PROVE  RoundsFit'
<1>1. round' = [round EXCEPT ![m] = [round[m] EXCEPT !.stage = stage]]
  BY DEF Step
<1>2. Fits([round[m] EXCEPT !.stage = stage])
  BY DEF AlertInv, RoundsTyped, Shaped, RoundsFit, Fits
<1>. QED  BY <1>1, <1>2, RoundFits

LEMMA AlertTypesStep == AlertInv /\ AlertsTyped /\ [AlertsNext]_alertVars => AlertsTyped'
<1> SUFFICES ASSUME AlertInv, AlertsTyped, [AlertsNext]_alertVars PROVE AlertsTyped'
  OBVIOUS
<1>0. /\ now \in 1..MaxNow /\ MaxNow \in Nat /\ RoundsFit /\ SamplesFit
      /\ \A m \in Rounds : Shaped(m)
  BY AlertsAssumption DEF AlertInv, RoundsTyped, AlertsTyped, RoundStages, RoundsFit, SamplesFit, Fits
<1>1. ASSUME now' \in 1..MaxNow, SamplesFit', RoundsFit' PROVE AlertsTyped'
  BY <1>1 DEF AlertsTyped, SamplesFit, RoundsFit, Fits, RoundStages
<1>2. UNCHANGED sample => SamplesFit'
  BY <1>0 DEF SamplesFit
<1>3. UNCHANGED round => RoundsFit'
  BY <1>0 DEF RoundsFit
<1>4. Fits(NewRound) /\ Fits([NewRound EXCEPT !.stage = "repos", !.began = now])
  BY DEF NewRound, RoundStages, Fits
<1>5. ASSUME NEW R \in {Repos, Blobstores}, NEW x \in Resources PROVE Sampled(R, sample)[x].at \in 0..MaxNow
  BY <1>0, <1>5 DEF Sampled, SamplesFit
<1>6. CASE \/ UNCHANGED alertVars \/ \E x \in Resources : UsageChanges(x)
           \/ \E a \in AlertRules : UpdateAlert(a) \/ DeleteAlert(a)
  <2>1. UNCHANGED <<now, sample, round>>
    BY <1>6 DEF alertVars, UsageChanges, UpdateAlert, DeleteAlert
  <2>. QED  BY <1>0, <1>1, <1>2, <1>3, <2>1
<1>12. CASE TimePasses
  BY <1>0, <1>1, <1>2, <1>3, <1>12 DEF TimePasses
<1>7. ASSUME NEW m \in Rounds, BeginRound(m) \/ CollectFails(m) \/ EndRound(m) \/ CancelRound(m) PROVE AlertsTyped'
  <2>1. /\ \/ round' = [round EXCEPT ![m] = NewRound]
           \/ round' = [round EXCEPT ![m] = [NewRound EXCEPT !.stage = "repos", !.began = now]]
        /\ UNCHANGED <<now, sample>>
    BY <1>7 DEF BeginRound, CollectFails, EndRound, CancelRound
  <2>2. RoundsFit'
    BY <1>0, <1>4, <2>1, RoundFits
  <2>. QED  BY <1>0, <1>1, <1>2, <2>1, <2>2
<1>8. ASSUME NEW m \in Rounds, CollectOnce(m) PROVE AlertsTyped'
  <2>1. \A x \in Resources : Trimmed(Sampled(Repos, sample))[x].at \in 0..MaxNow
    BY <1>0, <1>5 DEF Trimmed, None
  <2>2. /\ sample' = Trimmed(Sampled(Repos, sample)) \/ UNCHANGED sample
        /\ Step(m, "blobstores") /\ UNCHANGED now
    BY <1>8 DEF CollectOnce
  <2>3. SamplesFit'
    BY <1>2, <2>1, <2>2 DEF SamplesFit
  <2>4. RoundsFit'
    BY <1>0, <2>2, StageFits DEF RoundStages
  <2>. QED  BY <1>0, <1>1, <2>2, <2>3, <2>4
<1>9. ASSUME NEW m \in Rounds, CollectBlobstoreMetrics(m) PROVE AlertsTyped'
  <2>1. /\ sample' = Sampled(Blobstores, sample) \/ UNCHANGED sample
        /\ Step(m, "snapshot") /\ UNCHANGED now
    BY <1>9 DEF CollectBlobstoreMetrics
  <2>2. SamplesFit'
    BY <1>2, <1>5, <2>1 DEF SamplesFit
  <2>3. RoundsFit'
    BY <1>0, <2>1, StageFits DEF RoundStages
  <2>. QED  BY <1>0, <1>1, <2>1, <2>2, <2>3
<1>10. ASSUME NEW m \in Rounds, ReadSnapshot(m) PROVE AlertsTyped'
  <2> DEFINE due == {a \in AlertRules : rule[a].live /\ rule[a].enabled}
             e == [round[m] EXCEPT !.stage = "evaluating", !.seen = Snapshot(sample), !.todo = due]
  <2>1. round' = [round EXCEPT ![m] = e] /\ UNCHANGED <<now, sample>>
    BY <1>10 DEF ReadSnapshot
  <2>2. due \subseteq AlertRules
    OBVIOUS
  <2> HIDE DEF due
  <2>3. e.stage = "evaluating" /\ e.todo = due /\ e.fired = round[m].fired
    BY <1>0 DEF Shaped
  <2>4. Fits(e)
    BY <1>0, <2>2, <2>3 DEF Fits, RoundStages, RoundsFit
  <2> HIDE DEF e
  <2>5. RoundsFit'
    BY <1>0, <2>1, <2>4, RoundFits
  <2>. QED  BY <1>0, <1>1, <1>2, <2>1, <2>5
<1>11. ASSUME NEW m \in Rounds, EvaluateRule(m) PROVE AlertsTyped'
  <2>1. PICK a \in round[m].todo :
            \/ round' = [round EXCEPT ![m] = [round[m] EXCEPT !.todo = round[m].todo \ {a}]]
            \/ round' = [round EXCEPT ![m] = [round[m] EXCEPT !.todo = round[m].todo \ {a},
                                                              !.fired = round[m].fired \union {a}]]
    BY <1>11 DEF EvaluateRule
  <2>2. a \in AlertRules
    BY <1>0 DEF RoundsFit, Fits
  <2>3. Fits([round[m] EXCEPT !.todo = round[m].todo \ {a}])
    BY <1>0, <2>2 DEF Shaped, Fits, RoundsFit
  <2>4. Fits([round[m] EXCEPT !.todo = round[m].todo \ {a}, !.fired = round[m].fired \union {a}])
    BY <1>0, <2>2 DEF Shaped, Fits, RoundsFit
  <2>5. RoundsFit'
    BY <1>0, <2>1, <2>3, <2>4, RoundFits
  <2>6. UNCHANGED <<now, sample>>
    BY <1>11 DEF EvaluateRule
  <2>. QED  BY <1>0, <1>1, <1>2, <2>5, <2>6
<1>. QED  BY <1>6, <1>7, <1>8, <1>9, <1>10, <1>11, <1>12 DEF AlertsNext

SweepStages == {"none", "queued", "next", "listing", "deleting", "done", "failed"}
SweepShape(w) == w = [stage |-> w.stage, scope |-> w.scope, dry |-> w.dry, todo |-> w.todo, now |-> w.now,
                      targets |-> w.targets]
Staged == \A j \in Sweeps : sweep[j].stage \in SweepStages
Removers == \A c \in Components : nexus[c].by \in Policies \union {Nobody, User}
RetentionShapes ==
    /\ DOMAIN sweep = Sweeps /\ (\A j \in Sweeps : SweepShape(sweep[j])) /\ Staged /\ DOMAIN nexus = Components
    /\ \A c \in Components : ComponentTyped(c)

LEMMA RetentionTypesStart == RetentionInit => RetentionTyped
<1> SUFFICES ASSUME RetentionInit PROVE RetentionTyped
  OBVIOUS
<1>1. \A p \in Policies : policy[p].rule \in policy[p].had /\ policy[p].had \subseteq Rules
  BY RetentionStarts DEF RetentionInv, RetentionTypes, PolicyTyped
<1>. QED  BY <1>1, RetentionAssumption DEF RetentionInit, RetentionTyped, NewSweep, NoPoll

LEMMA SweepStaged ==
    ASSUME RetentionShapes, NEW j \in Sweeps, NEW e, sweep' = [sweep EXCEPT ![j] = e],
           e.stage \in SweepStages
    PROVE  Staged'
  BY DEF RetentionShapes, Staged

\* Every way a run's row changes.
LEMMA RowStaged ==
    ASSUME RetentionShapes, NEW j \in Sweeps, NEW stage \in SweepStages, NEW scope, NEW dry, NEW todo,
           NEW p, NEW targets,
           \/ Go(j, stage) \/ Ends(j, stage) \/ Queue(j, scope, dry) \/ Begin(j, todo)
           \/ sweep' = [sweep EXCEPT ![j].stage = stage, ![j].todo = todo, ![j].now = p]
           \/ sweep' = [sweep EXCEPT ![j].stage = stage, ![j].targets = targets]
           \/ sweep' = [sweep EXCEPT ![j].targets = targets]
    PROVE  Staged'
<1> DEFINE w == sweep[j]
<1>0. SweepShape(w) /\ w.stage \in SweepStages
  BY DEF RetentionShapes, Staged
<1>1. CASE Go(j, stage)
  <2>1. PICK to : to = [w EXCEPT !.stage = stage] /\ sweep' = [sweep EXCEPT ![j] = to]
    BY <1>1 DEF Go
  <2>2. to.stage = stage
    BY <1>0, <2>1 DEF SweepShape
  <2>. QED  BY <1>0, <2>1, <2>2, SweepStaged DEF SweepStages
<1>2. CASE Ends(j, stage)
  <2>1. PICK to : to = [NewSweep EXCEPT !.stage = stage] /\ sweep' = [sweep EXCEPT ![j] = to]
    BY <1>2 DEF Ends
  <2>2. to.stage = stage
    BY <1>0, <2>1 DEF NewSweep
  <2>. QED  BY <1>0, <2>1, <2>2, SweepStaged DEF SweepStages
<1>3. CASE Queue(j, scope, dry)
  <2>1. PICK to : to = [w EXCEPT !.stage = "queued", !.scope = scope, !.dry = dry] /\ sweep' = [sweep EXCEPT ![j] = to]
    BY <1>3 DEF Queue
  <2>2. to.stage = "queued"
    BY <1>0, <2>1 DEF SweepShape
  <2>. QED  BY <1>0, <2>1, <2>2, SweepStaged DEF SweepStages
<1>4. CASE Begin(j, todo)
  <2>1. PICK to : to = [w EXCEPT !.stage = "next", !.todo = todo] /\ sweep' = [sweep EXCEPT ![j] = to]
    BY <1>4 DEF Begin
  <2>2. to.stage = "next"
    BY <1>0, <2>1 DEF SweepShape
  <2>. QED  BY <1>0, <2>1, <2>2, SweepStaged DEF SweepStages
<1>5. CASE sweep' = [sweep EXCEPT ![j].stage = stage, ![j].todo = todo, ![j].now = p]
  <2>1. PICK to : to = [w EXCEPT !.stage = stage, !.todo = todo, !.now = p] /\ sweep' = [sweep EXCEPT ![j] = to]
    BY <1>5
  <2>2. to.stage = stage
    BY <1>0, <2>1 DEF SweepShape
  <2>. QED  BY <1>0, <2>1, <2>2, SweepStaged DEF SweepStages
<1>6. CASE sweep' = [sweep EXCEPT ![j].stage = stage, ![j].targets = targets]
  <2>1. PICK to : to = [w EXCEPT !.stage = stage, !.targets = targets] /\ sweep' = [sweep EXCEPT ![j] = to]
    BY <1>6
  <2>2. to.stage = stage
    BY <1>0, <2>1 DEF SweepShape
  <2>. QED  BY <1>0, <2>1, <2>2, SweepStaged DEF SweepStages
<1>7. CASE sweep' = [sweep EXCEPT ![j].targets = targets]
  <2>1. PICK to : to = [w EXCEPT !.targets = targets] /\ sweep' = [sweep EXCEPT ![j] = to]
    BY <1>7
  <2>2. to.stage = w.stage
    BY <1>0, <2>1 DEF SweepShape
  <2>. QED  BY <1>0, <2>1, <2>2, SweepStaged DEF SweepStages
<1>. QED  BY <1>1, <1>2, <1>3, <1>4, <1>5, <1>6, <1>7

LEMMA SweepsStaged ==
    ASSUME RetentionShapes, [RetentionNext]_retentionVars
    PROVE  Staged'
<1>1. UNCHANGED sweep => Staged'
  BY DEF RetentionShapes, Staged
<1>2. CASE UNCHANGED retentionVars \/ PollDuePolicies \/ PoliciesAdvance \/ NextDay
  BY <1>1, <1>2 DEF retentionVars, PollDuePolicies, PoliciesAdvance, NextDay
<1>3. CASE \/ \E c \in Components : Push(c) \/ DeleteComponents(c)
           \/ \E p \in Policies : UpdatePolicy(p) \/ DeletePolicy(p)
  BY <1>1, <1>3 DEF Push, DeleteComponents, UpdatePolicy, DeletePolicy
<1>4. CASE EnqueueSweep \/ \E p \in Policies : RunPolicyNow(p) \/ PolicyFires(p)
  <2>1. \E j \in Sweeps : \E scope, dry : Queue(j, scope, dry)
    BY <1>4 DEF EnqueueSweep, RunPolicyNow, PolicyFires
  <2>. QED  BY <2>1, RowStaged DEF SweepStages
<1>5. ASSUME NEW j \in Sweeps, BeginSweep(j) \/ FinishPolicy(j) \/ AbortSweep(j) PROVE Staged'
  <2>1. (\E todo : Begin(j, todo)) \/ Ends(j, "failed") \/ Go(j, "next")
    BY <1>5 DEF BeginSweep, FinishPolicy, AbortSweep
  <2>. QED  BY <2>1, RowStaged DEF SweepStages
<1>6. ASSUME NEW j \in Sweeps, NextPolicy(j) PROVE Staged'
  <2>1. \/ Ends(j, "done")
        \/ \E p, todo : sweep' = [sweep EXCEPT ![j].stage = "listing", ![j].todo = todo, ![j].now = p]
    BY <1>6 DEF NextPolicy
  <2>. QED  BY <2>1, RowStaged DEF SweepStages
<1>7. ASSUME NEW j \in Sweeps, SelectForDeletion(j) PROVE Staged'
  <2>1. \/ \E targets : sweep' = [sweep EXCEPT ![j].stage = "deleting", ![j].targets = targets]
        \/ Ends(j, "failed") \/ Go(j, "next")
    BY <1>7 DEF SelectForDeletion
  <2>. QED  BY <2>1, RowStaged DEF SweepStages
<1>8. ASSUME NEW j \in Sweeps, DeleteTarget(j) PROVE Staged'
  <2>1. \E targets : sweep' = [sweep EXCEPT ![j].targets = targets]
    BY <1>8 DEF DeleteTarget
  <2>. QED  BY <2>1, RowStaged DEF SweepStages
<1>. QED  BY <1>2, <1>3, <1>4, <1>5, <1>6, <1>7, <1>8 DEF RetentionNext

LEMMA RemoverKnown ==
    ASSUME RetentionShapes, Removers, NEW c \in Components, NEW who \in Policies \union {Nobody, User},
           \/ \E d : nexus' = [nexus EXCEPT ![c] = [there |-> TRUE, date |-> d, by |-> who, under |-> Unset]]
           \/ \E r : Remove(c, who, r)
    PROVE  Removers'
<1>1. nexus'[c].by = who /\ \A x \in Components \ {c} : nexus'[x] = nexus[x]
  BY DEF Remove, RetentionShapes
<1>. QED  BY <1>1 DEF Removers

LEMMA RemoversKnown ==
    ASSUME RetentionInv, RetentionShapes, Removers, [RetentionNext]_retentionVars
    PROVE  Removers'
<1>1. UNCHANGED nexus => Removers'
  BY DEF Removers
<1>2. ASSUME NEW c \in Components, Push(c) PROVE Removers'
  <2>1. \E d : nexus' = [nexus EXCEPT ![c] = [there |-> TRUE, date |-> d, by |-> Nobody, under |-> Unset]]
    BY <1>2 DEF Push
  <2>. QED  BY <2>1, RemoverKnown
<1>3. ASSUME NEW c \in Components, DeleteComponents(c) PROVE Removers'
  BY <1>3, RemoverKnown DEF DeleteComponents
<1>4. ASSUME NEW j \in Sweeps, DeleteTarget(j) PROVE Removers'
  <2>1. sweep[j].now.id \in Policies /\ sweep[j].targets \subseteq Components
    BY <1>4 DEF DeleteTarget, RetentionInv, RetentionTypes, SweepTyped, Rows
  <2>2. \/ UNCHANGED nexus
        \/ \E c \in Components : Remove(c, sweep[j].now.id, sweep[j].now.rule)
    BY <1>4, <2>1 DEF DeleteTarget
  <2>. QED  BY <1>1, <2>1, <2>2, RemoverKnown
<1>5. CASE \/ UNCHANGED retentionVars \/ PollDuePolicies \/ PoliciesAdvance \/ NextDay \/ EnqueueSweep
           \/ \E p \in Policies : UpdatePolicy(p) \/ DeletePolicy(p) \/ RunPolicyNow(p) \/ PolicyFires(p)
  BY <1>1, <1>5 DEF retentionVars, PollDuePolicies, PoliciesAdvance, NextDay, EnqueueSweep,
                    UpdatePolicy, DeletePolicy, RunPolicyNow, PolicyFires
<1>6. CASE \E j \in Sweeps : \/ BeginSweep(j) \/ NextPolicy(j) \/ SelectForDeletion(j)
                             \/ FinishPolicy(j) \/ AbortSweep(j)
  BY <1>1, <1>6 DEF BeginSweep, NextPolicy, SelectForDeletion, FinishPolicy, AbortSweep
<1>. QED  BY <1>2, <1>3, <1>4, <1>5, <1>6 DEF RetentionNext

LEMMA RetentionTypesStep == RetentionInv /\ RetentionTyped /\ [RetentionNext]_retentionVars => RetentionTyped'
<1> SUFFICES ASSUME RetentionInv, RetentionTyped, [RetentionNext]_retentionVars PROVE RetentionTyped'
  OBVIOUS
<1>1. RetentionShapes /\ Removers
  BY DEF RetentionInv, RetentionTypes, RetentionTyped, RetentionShapes, Staged, SweepTyped, SweepShape,
         SweepStages, Removers
<1>2. Staged' /\ Removers'
  BY <1>1, SweepsStaged, RemoversKnown
<1>3. /\ \A j \in Sweeps : /\ sweep'[j].targets \subseteq Components
                           /\ sweep'[j].todo \subseteq [id : Policies, rule : Rules]
      /\ \A p \in Policies : policy'[p].rule \in policy'[p].had /\ policy'[p].had \subseteq Rules
      /\ duePoll'.rows \subseteq Policies
  BY RetentionStep DEF RetentionInv, RetentionTypes, SweepTyped, PolicyTyped, PollTyped, Rows
<1>4. UNCHANGED day \/ NextDay
  BY DEF RetentionNext, retentionVars, Push, DeleteComponents, UpdatePolicy, DeletePolicy, RunPolicyNow,
         PolicyFires, BeginSweep, NextPolicy, SelectForDeletion, DeleteTarget, FinishPolicy, AbortSweep,
         EnqueueSweep, PollDuePolicies, PoliciesAdvance
<1>5. day' \in 0..MaxDay
  BY <1>4, RetentionAssumption DEF RetentionTyped, NextDay
<1>. QED  BY <1>2, <1>3, <1>5 DEF RetentionTyped, Staged, SweepStages, Removers

-----------------------------------------------------------------------------
(* The parts share the calendar only, and a run takes one at a time.        *)

Kept == BackupInv /\ RetentionInv /\ RulesWereHad /\ AlertInv /\ ConnInv

LEMMA WholeStarts == AllInit => Kept
  BY BackupsStart, RetentionStarts, RulesHadStart, AlertsStart, ConnStart DEF AllInit, Kept

LEMMA WholeSteps ==
    Kept /\ [AllNext]_<<part, rest>> =>
      /\ Kept'
      /\ [BackupNext]_backupVars /\ [RetentionNext]_retentionVars
      /\ [AlertsNext]_alertVars /\ [ConnNext]_connVars
<1> SUFFICES ASSUME Kept, [AllNext]_<<part, rest>>
             PROVE  /\ Kept'
                    /\ [BackupNext]_backupVars /\ [RetentionNext]_retentionVars
                    /\ [AlertsNext]_alertVars /\ [ConnNext]_connVars
  OBVIOUS
<1>1. /\ [BackupNext]_backupVars /\ [RetentionNext]_retentionVars
      /\ [AlertsNext]_alertVars /\ [ConnNext]_connVars
  BY DEF AllNext, rest
<1>. QED  BY <1>1, BackupsStep, RetentionStep, RulesHadStep, AlertsStep, ConnStep DEF Kept

\* What else each part keeps.
Clean == CadenceInv /\ FireInv /\ BytesKnown /\ RetentionTyped /\ AlertsTyped /\ ConnTypes

LEMMA CleanStarts == AllInit => Clean
<1>1. BackupInit => BytesKnown
  BY DEF BackupInit, BytesKnown, Nothing
<1>. QED  BY <1>1, CadenceStarts, FireStarts, RetentionTypesStart, AlertTypesStart, ConnTypesStart DEF AllInit, Clean

LEMMA CleanSteps == Kept /\ Clean /\ [AllNext]_<<part, rest>> => Clean'
<1> SUFFICES ASSUME Kept, Clean, [AllNext]_<<part, rest>> PROVE Clean'
  OBVIOUS
<1>1. [Preview]_cadenceVars
  BY DEF AllNext, rest
<1>. QED  BY <1>1, WholeSteps, CadenceStep, FireStep, BytesStep, RetentionTypesStep, AlertTypesStep, ConnTypesStep
          DEF Kept, Clean

(* A run recorded as a success can be downloaded until a prune picks it, in *)
(* every reachable state, for any schedules, rules, runs and bounds.        *)
THEOREM ArchivesAreThere == AllSpec => []SuccessHasItsArchive
<1>1. Kept => SuccessHasItsArchive
  BY ArchivesHold DEF Kept
<1>. QED  BY WholeStarts, WholeSteps, <1>1, PTL DEF AllSpec

(* What went was the rule's to remove: each component a policy removed, and *)
(* each archive a prune took from the volume.                               *)
THEOREM RemovalsEarned == AllSpec => RemovalsAreEarned
<1>1. Kept => EveryRemovalIsEarned
  BY RetentionHolds DEF Kept
<1>2. Kept /\ [BackupNext]_backupVars =>
        [\A x \in Runs :
          disk[PathOf(x)] # Nothing /\ disk'[PathOf(x)] = Nothing =>
              /\ backup[x].made # NoSchedule
              /\ \/ \E r \in Runs : backup[r].kept = 0
                 \/ \E y \in Succeeded : /\ backup[y].made = backup[x].made
                                         /\ backup[y].rank > backup[x].rank
                                         /\ disk[PathOf(y)].whole]_backupVars
  BY PrunesAreEarned DEF Kept
<1>. QED  BY WholeStarts, WholeSteps, <1>1, <1>2, PTL DEF AllSpec, RemovalsAreEarned, OnlySupersededArchivesGo

(* A webhook that went out is recorded on its rule, however many rounds run *)
(* side by side and whoever edits the rules meanwhile.                      *)
THEOREM AlertsRecorded == AllSpec => []NotifiedMeansRecorded
<1>1. Kept => NotifiedMeansRecorded
  BY AlertsHold DEF Kept
<1>. QED  BY WholeStarts, WholeSteps, <1>1, PTL DEF AllSpec

(* The running client dials what was saved, and a webhook secret that was   *)
(* shown was stored, for any number of requests, saves and restarts.        *)
THEOREM SettingsSaved == AllSpec => []SettingsAreSaved
<1>1. Kept => SettingsAreSaved
  BY DEF Kept, ConnInv, SettingsAreSaved
<1>. QED  BY WholeStarts, WholeSteps, <1>1, PTL DEF AllSpec

(* A schedule fires at the first moment its cadence means, and a due moment *)
(* once but for polls that never committed, in every reachable state, for   *)
(* any calendar, schedules, choices, edits and restarts.                    *)
THEOREM SchedulesFireOnceCorrect == AllSpec => []SchedulesFireOnce
<1>1. Clean => SchedulesFireOnce
  BY DEF Clean, CadenceInv, FireInv, SchedulesFireOnce
<1>. QED  BY WholeStarts, WholeSteps, CleanStarts, CleanSteps, <1>1, PTL DEF AllSpec

(* The rows, rounds, sweeps, samples and answers stay within their types.   *)
THEOREM TypesOKCorrect == AllSpec => []TypesOK
<1>1. Kept /\ Clean => TypesOK
  BY BackupsAreTyped DEF Kept, Clean, CadenceInv, ConnTypes, TypesOK
<1>. QED  BY WholeStarts, WholeSteps, CleanStarts, CleanSteps, <1>1, PTL DEF AllSpec

=============================================================================
