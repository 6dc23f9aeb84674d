----------------------------- MODULE Connections -----------------------------
(***************************************************************************)
(* Settings kept in the system_config table (core/config_store.py): the    *)
(* connections to Nexus, SonarQube, the GitHub App and Telegram, each      *)
(* stored with its secret encrypted and read back before the environment's *)
(* default; the secret of the Nexus webhook, created on first use; and the *)
(* live Nexus client, which a save (routers/settings.py) and the start of  *)
(* the process (main.py) point at the connection in force.                 *)
(***************************************************************************)
EXTENDS Naturals, FiniteSets

CONSTANTS Urls, Secrets,      \* addresses, and passwords or tokens
          Keys,               \* values of NEXUS_CONFIG_ENCRYPTION_KEY
          Clients,            \* requests that may be in progress together
          Absent,             \* no row, no secret, nothing shown
          MaxSaves, MaxStarts

ASSUME ConnectionsAssumption == Absent \notin Urls \union Secrets

Kinds == {"nexus", "sonar", "github", "telegram"}
VARIABLES env,      \* this process's environment: each connection, the encryption key
          stored,   \* the rows of system_config
          live,     \* what the running NexusClient dials
          request,  \* each request in progress
          webhook,  \* nexus_webhook_secret, and every secret ever stored or shown
          counts    \* saves and starts so far; PUTs overlapped since the last start

connVars == <<env, stored, live, request, webhook, counts>>

Conn == [url : Urls, secret : Secrets]
Unconfigured == [url |-> Absent, secret |-> Absent]
Quiet == [doing |-> "nothing", with |-> Unconfigured]

ConnInit ==
    /\ env \in [conn : [Kinds -> {Unconfigured} \union Conn], key : Keys]
    /\ \A k \in Kinds \ {"nexus"} : env.conn[k] = Unconfigured
    /\ stored = [k \in Kinds |-> Absent]
    /\ live = env.conn["nexus"]
    /\ request = [r \in Clients |-> Quiet]
    /\ webhook = [secret |-> Absent, was |-> {}, shown |-> {}]
    /\ counts = [saves |-> 0, starts |-> 0, overlapped |-> FALSE, since |-> FALSE]

-----------------------------------------------------------------------------
Sealed(secret) == [secret |-> secret, key |-> env.key]
\* A token of another key cannot be read: an empty secret.
Unsealed(s, key) == IF s.key = key THEN s.secret ELSE Absent

StoredAs(c) == [url |-> c.url, sealed |-> Sealed(c.secret)]
\* The row, if there is one, even when its secret cannot be read.
Effective(k, e) == IF stored[k] = Absent THEN e.conn[k]
                   ELSE [url |-> stored[k].url, secret |-> Unsealed(stored[k].sealed, e.key)]
IsConfigured(c) == c.url # Absent /\ c.secret # Absent

Saved == counts.saves < MaxSaves

Save(k, c) ==
    /\ Saved /\ counts' = [counts EXCEPT !.saves = @ + 1]
    /\ stored' = [stored EXCEPT ![k] = StoredAs(c)]
    /\ UNCHANGED <<env, live, request, webhook>>

SaveSonarConnection(c) == Save("sonar", c)
SaveGithubAppConfig(c) == Save("github", c)
SaveTelegramConnection(c) == Save("telegram", c)

\* PUT /settings/nexus commits the row, then swaps the live client.
SaveNexusConnection(r, c) ==
    /\ request[r] = Quiet /\ Saved
    /\ stored' = [stored EXCEPT !["nexus"] = StoredAs(c)]
    /\ request' = [request EXCEPT ![r] = [doing |-> "saving", with |-> c]]
    /\ counts' = [counts EXCEPT !.saves = @ + 1, !.since = TRUE,
                    !.overlapped = @ \/ \E q \in Clients : request[q].doing = "saving"]
    /\ UNCHANGED <<env, live, webhook>>

Reconfigure(r) ==
    /\ request[r].doing = "saving"
    /\ live' = request[r].with
    /\ request' = [request EXCEPT ![r] = Quiet]
    /\ UNCHANGED <<env, stored, webhook, counts>>

\* A fault: the client is pointed at the row only if nothing else is set.
DiffersFromUnset(c, e) == e.conn["nexus"] = Unconfigured

\* At start the row is compared with the environment by its address.
Differs(c, e) == c.url # e.conn["nexus"].url

LoadNexusConnection(e) ==
    LET c == Effective("nexus", e)
    IN  IF IsConfigured(c) /\ Differs(c, e) THEN c ELSE e.conn["nexus"]

\* A new process, perhaps with another environment or encryption key.
Start ==
    /\ counts.starts < MaxStarts
    /\ \E key \in Keys, c \in {env.conn["nexus"], Unconfigured} :
         LET e == [env EXCEPT !.key = key, !.conn["nexus"] = c]
         IN  env' = e /\ live' = LoadNexusConnection(e)
    /\ request' = [r \in Clients |-> Quiet]
    /\ counts' = [counts EXCEPT !.starts = @ + 1, !.overlapped = FALSE, !.since = FALSE]
    /\ UNCHANGED <<stored, webhook>>

-----------------------------------------------------------------------------
\* Two first uses may both find no secret and make one each.
ReadWebhookSecret(r) ==
    /\ request[r] = Quiet
    /\ \/ /\ webhook.secret # Absent
          /\ webhook' = [webhook EXCEPT !.shown = @ \union {webhook.secret}]
          /\ UNCHANGED request
       \/ /\ webhook.secret = Absent
          /\ request' = [request EXCEPT ![r] = [doing |-> "creating", with |-> Unconfigured]]
          /\ UNCHANGED webhook
    /\ UNCHANGED <<env, stored, live, counts>>

\* The key column is unique: the second insert is refused.
InsertRefused == webhook.secret # Absent

Fresh == Secrets \ webhook.was
CreateWebhookSecret(r) ==
    /\ request[r].doing = "creating"
    /\ \/ /\ InsertRefused /\ UNCHANGED webhook
       \/ /\ ~InsertRefused
          /\ \E s \in Fresh :
               webhook' = [secret |-> IF webhook.secret = Absent THEN s ELSE webhook.secret,
                           was |-> webhook.was \union {IF webhook.secret = Absent THEN s ELSE webhook.secret},
                           shown |-> webhook.shown \union {s}]
    /\ request' = [request EXCEPT ![r] = Quiet]
    /\ UNCHANGED <<env, stored, live, counts>>

RotateWebhookSecret ==
    /\ webhook.secret # Absent /\ Saved
    /\ \E s \in Fresh : webhook' = [secret |-> s, was |-> webhook.was \union {s},
                                    shown |-> webhook.shown \union {s}]
    /\ counts' = [counts EXCEPT !.saves = @ + 1]
    /\ UNCHANGED <<env, stored, live, request>>

ConnNext ==
    \/ \E c \in Conn : SaveSonarConnection(c) \/ SaveGithubAppConfig(c) \/ SaveTelegramConnection(c)
    \/ \E r \in Clients : \/ Reconfigure(r) \/ ReadWebhookSecret(r) \/ CreateWebhookSecret(r)
                           \/ \E c \in Conn : SaveNexusConnection(r, c)
    \/ Start \/ RotateWebhookSecret

ConnSpec == ConnInit /\ [][ConnNext]_connVars

-----------------------------------------------------------------------------
ConnTyped ==
    /\ \A k \in Kinds : stored[k] = Absent \/ stored[k].url \in Urls
    /\ live \in Conn \union {Unconfigured}
    /\ \A r \in Clients : request[r].doing \in {"nothing", "saving", "creating"}

SavingNow == \E r \in Clients : request[r].doing = "saving"

(* The running client dials what the dashboard last saved: at once after a  *)
(* save, and again after a restart, whatever the environment says, as long  *)
(* as the saved secret can be read and the saved address is not the         *)
(* environment's own; saves that overlap may leave the older one in force.  *)
LiveIsWhatWasSaved ==
    LET c == Effective("nexus", env)
    IN  (/\ ~SavingNow /\ ~counts.overlapped /\ stored["nexus"] # Absent /\ IsConfigured(c)
         /\ counts.since \/ c.url # env.conn["nexus"].url) => live = c

(* A webhook secret shown to an operator, who copies it into Nexus, is one  *)
(* that was stored: of two first uses at once, none shows a secret that     *)
(* deliveries are never checked against.                                    *)
ShownSecretsWereStored == webhook.shown \subseteq webhook.was

(* What the program works with, and what it showed, is what was saved.      *)
SettingsAreSaved == LiveIsWhatWasSaved /\ ShownSecretsWereStored
=============================================================================
