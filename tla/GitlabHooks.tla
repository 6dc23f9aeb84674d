----------------------------- MODULE GitlabHooks -----------------------------
(***************************************************************************)
(* The GitLab repositories of routers/gitlab.py and the webhooks they have *)
(* on their hosts.  A row names its project by path and by the number the  *)
(* host gave it; numbers are dealt anew when a host is reinstalled, and    *)
(* its webhooks are gone then, which the program learns of only when the   *)
(* repository is reconnected.  Requests are followed between their awaits: *)
(* the registration reads the row in a session of its own, and the request *)
(* commits the webhook it got only afterwards, SQLAlchemy writing what     *)
(* differs from what the request had read.  A token that has expired is a  *)
(* registration that fails.                                                *)
(***************************************************************************)
EXTENDS Naturals, FiniteSets

CONSTANTS
    Hosts, Paths,
    MaxCalls,      \* bound: requests that register a webhook
    MaxReinstalls  \* bound: hosts reinstalled

ASSUME HostsAssumption == "none" \notin Hosts
ASSUME PathsAssumption == IsFiniteSet(Paths)
ASSUME CallsAssumption == MaxCalls \in Nat /\ MaxReinstalls \in Nat

Numbers == 1 .. Cardinality(Paths)
Calls   == 1 .. MaxCalls
NoRow   == [at |-> "none"]
NoHook  == 0
Unused  == [at |-> "idle"]

VARIABLES
    rows,        \* of each path, its gitlab_repositories row: full_path is unique
    number,      \* of each host, the number of each of its projects
    hooks,       \* the webhooks that exist: where, for which row, with which secret
    call,        \* the requests
    stale,       \* rows whose host was reinstalled since they were (re)connected
    mixed,       \* stale rows that were registered and reconnected at once
    reinstalls

hookVars == <<rows, number, hooks, call, stale, mixed, reinstalls>>

Numbering == {f \in [Paths -> Numbers] : \A p, q \in Paths : f[p] = f[q] => p = q}

GitlabInit ==
    /\ rows = [p \in Paths |-> NoRow] /\ number \in [Hosts -> Numbering]
    /\ hooks = {} /\ call = [i \in Calls |-> Unused]
    /\ stale = {} /\ mixed = {} /\ reinstalls = 0

Connected(p) == rows[p].at # "none"
Underway(p)  == {i \in Calls : call[i].at \notin {"idle", "done"} /\ call[i].path = p}

HookRow(h, p, kind) == [at |-> h, kind |-> kind, number |-> number[h][p], hook |-> NoHook]

-----------------------------------------------------------------------------
(* Rows.  The path is looked up on the one host, and unique on all: the    *)
(* path of another host's row, and a sync with one of them, is refused.    *)

ConnectRepository(h, p) ==
    /\ ~Connected(p)
    /\ rows' = [rows EXCEPT ![p] = HookRow(h, p, "own")] /\ stale' = stale \ {p}
    /\ UNCHANGED <<number, hooks, call, mixed, reinstalls>>

\* The projects a sync does not find among the rows of its connection, by number.
Unknown(h) == {p \in Paths : ~ \E q \in Paths : /\ rows[q].at = h /\ rows[q].kind = "synced"
                                               /\ rows[q].number = number[h][p]}

\* One that is not found on a closer look is left out; one refused fails them all.
SyncRepositories(h, new) ==
    /\ new \subseteq Unknown(h) /\ new # {}
    /\ \A p \in new : ~Connected(p)
    /\ rows' = [p \in Paths |-> IF p \in new THEN HookRow(h, p, "synced") ELSE rows[p]]
    /\ stale' = stale \ new
    /\ UNCHANGED <<number, hooks, call, mixed, reinstalls>>

-----------------------------------------------------------------------------
(* Requests that register a webhook.                                       *)

\* A reconnection that starts alone makes up for what an earlier one left mixed.
BeginCall(p, at) ==
    /\ Connected(p)
    /\ \E i \in Calls : /\ call[i] = Unused /\ \A k \in Calls : k < i => call[k] # Unused
                        /\ call' = [call EXCEPT ![i] = [at |-> at, path |-> p, hook |-> rows[p].hook]]
    /\ LET redone == IF at = "reconnect" /\ Underway(p) = {} THEN mixed \intersect {p} ELSE {} IN
       /\ mixed' = IF p \in stale /\ Underway(p) # {} THEN mixed \union {p} ELSE mixed \ redone
       /\ stale' = stale \union redone
    /\ UNCHANGED <<rows, number, hooks, reinstalls>>

Misses(p) == Connected(p) /\ rows[p].hook = NoHook

\* Mapping, one by one or in bulk, and the registration that is asked for again.
BeginRegister(p) == Misses(p) /\ BeginCall(p, "post")

BeginReconnect(p) == BeginCall(p, "reconnect")

\* A fault: the old webhook is kept with the new token.
KeepsHook(i) == rows[call[i].path].hook

\* The webhook a reconnect leaves, as written over what it had read.
ForgetsHook(i) == IF call[i].hook = NoHook THEN rows[call[i].path].hook ELSE NoHook

\* The project's number is stored, its webhook forgotten; a refresh shows what is left.
ReconnectCommit(i) == LET p == call[i].path IN
    /\ call[i].at = "reconnect"
    /\ rows' = [rows EXCEPT ![p].number = number[rows[p].at][p], ![p].hook = ForgetsHook(i)]
    /\ call' = [call EXCEPT ![i].at = IF rows'[p].hook = NoHook THEN "post" ELSE "done"]
    /\ stale' = stale \ {p}
    /\ UNCHANGED <<number, hooks, mixed, reinstalls>>

\* The host takes the webhook for whichever project has the row's number now.
Post(i) == LET p == call[i].path IN
    /\ call[i].at = "post"
    /\ \E q \in Paths : number[rows[p].at][q] = rows[p].number
    /\ hooks' = hooks \union {[at |-> rows[p].at, number |-> rows[p].number, row |-> p, secret |-> i]}
    /\ call' = [call EXCEPT ![i].at = "save"]
    /\ UNCHANGED <<rows, number, stale, mixed, reinstalls>>

Save(i) ==
    /\ call[i].at = "save"
    /\ rows' = [rows EXCEPT ![call[i].path].hook = i] /\ call' = [call EXCEPT ![i].at = "done"]
    /\ UNCHANGED <<number, hooks, stale, mixed, reinstalls>>

\* The token is refused, the host is away, or the request is dropped.
EndCall(i) ==
    /\ call[i].at \in {"reconnect", "post", "save"} /\ call' = [call EXCEPT ![i].at = "done"]
    /\ UNCHANGED <<rows, number, hooks, stale, mixed, reinstalls>>

\* A host is set up from scratch, between requests.
Reinstall(h) ==
    /\ reinstalls < MaxReinstalls /\ reinstalls' = reinstalls + 1
    /\ \A p \in Paths : rows[p].at = h => Underway(p) = {}
    /\ \E f \in Numbering : number' = [number EXCEPT ![h] = f]
    /\ hooks' = {k \in hooks : k.at # h}
    /\ stale' = stale \union {p \in Paths : rows[p].at = h}
    /\ UNCHANGED <<rows, call, mixed>>

GitlabNext ==
    \/ \E h \in Hosts, p \in Paths : ConnectRepository(h, p)
    \/ \E h \in Hosts, new \in SUBSET Paths : SyncRepositories(h, new)
    \/ \E p \in Paths : BeginRegister(p) \/ BeginReconnect(p)
    \/ \E i \in Calls : ReconnectCommit(i) \/ Post(i) \/ Save(i) \/ EndCall(i)
    \/ \E h \in Hosts : Reinstall(h)

GitlabSpec == GitlabInit /\ [][GitlabNext]_hookVars

-----------------------------------------------------------------------------
GitlabTyped ==
    /\ \A p \in Paths : Connected(p) => /\ rows[p].at \in Hosts /\ rows[p].number \in Numbers
                                        /\ rows[p].hook \in Calls \union {NoHook}
    /\ \A h \in Hosts : number[h] \in Numbering
    /\ stale \subseteq Paths /\ mixed \subseteq Paths

(***************************************************************************)
(* A repository that is shown with a webhook hears of its pushes: its host *)
(* has a webhook on that very project, for that row and with its secret.   *)
(* So it is until the host is reinstalled, and again once the repository   *)
(* is reconnected, whatever was registered, failed or dropped meanwhile;   *)
(* but not when the reconnection and a registration overlap.               *)
(***************************************************************************)
RegisteredHears ==
    \A p \in Paths \ (stale \union mixed) : Connected(p) /\ rows[p].hook # NoHook =>
        [at |-> rows[p].at, number |-> number[rows[p].at][p], row |-> p, secret |-> rows[p].hook] \in hooks
=============================================================================
