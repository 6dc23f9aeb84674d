-------------------------- MODULE RegistryDiscovery --------------------------
(***************************************************************************)
(* Where a repository's images are pulled from (modules/nexus/registry.py) *)
(* as the scan job (job_handlers.py) and the diagnostics page              *)
(* (routers/scan/registry.py) ask it: from a cached map, else from Nexus,  *)
(* whose repositories are created, given connectors and removed meanwhile, *)
(* while the connection itself may be switched to another Nexus            *)
(* (routers/settings.py), one request at a time.                           *)
(***************************************************************************)
EXTENDS Naturals, FiniteSets

CONSTANTS Hosts, Repos, Ports,
          Askers,      \* scan jobs and diagnostics requests
          MaxChanges   \* bound on the edits in Nexus, switches and restarts

ASSUME RegistryAssumption ==
    Ports \cap {"absent", "portless", "unknown", "unresolved"} = {} /\ MaxChanges \in Nat

VARIABLES declared,  \* what each Nexus says of each repository
          saved,     \* the connection in the database
          dialled,   \* the Nexus the live client talks to
          settings,  \* where PUT /settings/nexus is
          known,     \* the cached map
          asker,
          changes

registryVars == <<declared, saved, dialled, settings, known, asker, changes>>

Connector == {"absent", "portless"} \union Ports
Nothing == [r \in Repos |-> "unknown"]
Unasked == [stage |-> "idle", repo |-> "none", host |-> "none", asks |-> "none",
            found |-> Nothing, todo |-> {}, refresh |-> FALSE, judged |-> "none", calm |-> TRUE, late |-> FALSE]
NoMap == [host |-> "none", found |-> Nothing, left |-> FALSE]

RegistryInit ==
    /\ declared \in [Hosts -> [Repos -> {"absent", "portless"} \union Ports]]
    /\ saved \in Hosts /\ dialled = saved
    /\ settings = "idle" /\ known = NoMap
    /\ asker = [a \in Askers |-> Unasked]
    /\ changes = 0

-----------------------------------------------------------------------------
Listed(h) == {r \in Repos : declared[h][r] # "absent"}

\* A repository without a connector port is unresolved, with a reason.
RegistryFromDockerBlock(c) ==
    CASE c = "absent" -> "unknown" [] c = "portless" -> "unresolved" [] OTHER -> c

ChangeSome == changes < MaxChanges /\ changes' = changes + 1
Disturbed == [a \in Askers |-> [asker[a] EXCEPT !.calm = FALSE]]

EditNexus ==
    /\ ChangeSome
    /\ \E h \in Hosts, r \in Repos, c \in Connector : declared' = [declared EXCEPT ![h][r] = c]
    /\ asker' = Disturbed
    /\ UNCHANGED <<saved, dialled, settings, known>>

SaveSettings ==
    /\ settings = "idle" /\ ChangeSome
    /\ saved' \in Hosts /\ settings' = "saved"
    /\ UNCHANGED <<declared, dialled, known, asker>>

\* The new client is in place before the old one is closed.
Reconfigure ==
    /\ settings = "saved" /\ settings' = "switched"
    /\ dialled' = saved
    /\ asker' = [a \in Askers |-> [Disturbed[a] EXCEPT !.late = @ \/ asker[a].host # saved]]
    /\ UNCHANGED <<declared, saved, known, changes>>

\* delete swallows what Redis raises: then the old map is left.
Left == IF known = NoMap THEN {NoMap} ELSE {NoMap, [known EXCEPT !.left = TRUE]}

Invalidate ==
    /\ settings = "switched" /\ settings' = "idle"
    /\ known' \in Left
    /\ UNCHANGED <<declared, saved, dialled, asker, changes>>

\* The process starts with the saved connection and what Redis still holds.
RestartConnected ==
    /\ ChangeSome
    /\ dialled' = saved /\ settings' = "idle"
    /\ known' = IF known # NoMap /\ known.host # saved THEN [known EXCEPT !.left = TRUE] ELSE known
    /\ asker' = [a \in Askers |-> Unasked]
    /\ UNCHANGED <<declared, saved>>

MapExpires ==
    /\ known # NoMap /\ known' = NoMap
    /\ UNCHANGED <<declared, saved, dialled, settings, asker, changes>>

-----------------------------------------------------------------------------
Set(a, next) == asker' = [asker EXCEPT ![a] = next]
AskerOnly == UNCHANGED <<declared, saved, dialled, settings, changes>>

\* A scan of an image; or the diagnostics page, of no repository, which may
\* pass over the cache.
HandleScanImage(a) ==
    /\ asker[a].stage \in {"idle", "over"}
    /\ \E r \in Repos : Set(a, [Unasked EXCEPT !.stage = "looking", !.repo = r])
    /\ UNCHANGED known /\ AskerOnly

RegistryMap(a) ==
    /\ asker[a].stage \in {"idle", "over"}
    /\ \E refresh \in BOOLEAN : Set(a, [Unasked EXCEPT !.stage = "looking", !.refresh = refresh])
    /\ UNCHANGED known /\ AskerOnly

\* The host is the live client's, and so is the Nexus the request goes to.
Probe(q) == [q EXCEPT !.stage = "bulk", !.host = dialled, !.asks = dialled, !.found = Nothing, !.late = FALSE]

\* A fault: an unknown repository is refused from the cached map.
AsksAgainNever(q) == FALSE

\* Only a repository the cached map does not name is asked for again.
AsksAgain(q) == ~q.refresh /\ q.repo # "none" /\ q.found[q.repo] = "unknown"

\* resolve: one more discovery, past the cache, or the verdict.
Judge(q) ==
    IF AsksAgain(q) THEN Probe([q EXCEPT !.refresh = TRUE])
    ELSE [Unasked EXCEPT !.stage = "over", !.repo = q.repo, !.calm = q.calm,
                         !.judged = IF q.repo = "none" THEN "shown" ELSE q.found[q.repo]]

Discover(a) ==
    /\ asker[a].stage = "looking"
    /\ Set(a, IF known # NoMap /\ ~asker[a].refresh THEN Judge([asker[a] EXCEPT !.found = known.found])
              ELSE Probe(asker[a]))
    /\ UNCHANGED known /\ AskerOnly

\* A request that fails, or is refused for want of privileges.
Failed(q, stage) == [q EXCEPT !.stage = stage, !.asks = dialled, !.calm = FALSE]

FromRepositorySettings(a) ==
    LET q == asker[a] IN
    /\ q.stage = "bulk"
    /\ \/ Set(a, Failed(q, "listing"))
       \/ /\ Listed(q.asks) = {} /\ Set(a, [q EXCEPT !.stage = "listing", !.asks = dialled])
       \/ /\ Listed(q.asks) # {}
          /\ Set(a, [q EXCEPT !.stage = "storing",
                       !.found = [r \in Repos |-> RegistryFromDockerBlock(declared[q.asks][r])]])
    /\ UNCHANGED known /\ AskerOnly

\* Unavailable: nothing is known, and nothing kept.
FromPerRepoApi(a) ==
    LET q == asker[a] IN
    /\ q.stage = "listing"
    /\ \/ Set(a, Judge([Failed(q, "over") EXCEPT !.found = Nothing]))
       \/ Set(a, [q EXCEPT !.stage = IF Listed(q.asks) = {} THEN "storing" ELSE "details",
                           !.todo = Listed(q.asks), !.asks = dialled])
    /\ UNCHANGED known /\ AskerOnly

\* One repository after the other, each from the client of that moment.
ResolveRepoRegistry(a) ==
    LET q == asker[a]
        Told(r, says) == [q EXCEPT !.todo = @ \ {r}, !.found[r] = says, !.asks = dialled,
                                   !.stage = IF q.todo = {r} THEN "storing" ELSE @]
    IN  /\ q.stage = "details"
        /\ \E r \in q.todo :
             \/ /\ declared[q.asks][r] # "absent"
                /\ Set(a, Told(r, RegistryFromDockerBlock(declared[q.asks][r])))
             \/ Set(a, [Told(r, "unresolved") EXCEPT !.calm = FALSE])
        /\ UNCHANGED known /\ AskerOnly

\* set_json swallows what Redis raises.
StoreMap(a) ==
    LET q == asker[a] IN
    /\ q.stage = "storing"
    /\ known' \in {known, [host |-> q.host, found |-> q.found, left |-> q.late]}
    /\ Set(a, Judge(q))
    /\ AskerOnly

RegistryNext ==
    \/ EditNexus \/ SaveSettings \/ Reconfigure \/ Invalidate \/ RestartConnected \/ MapExpires
    \/ \E a \in Askers :
         \/ HandleScanImage(a) \/ RegistryMap(a) \/ Discover(a) \/ FromRepositorySettings(a)
         \/ FromPerRepoApi(a) \/ ResolveRepoRegistry(a) \/ StoreMap(a)

RegistrySpec == RegistryInit /\ [][RegistryNext]_registryVars
-----------------------------------------------------------------------------
RegistryTyped ==
    /\ saved \in Hosts /\ dialled \in Hosts /\ settings \in {"idle", "saved", "switched"}
    /\ known.found \in [Repos -> {"unknown", "unresolved"} \union Ports]
    /\ \A a \in Askers :
         /\ asker[a].stage \in {"idle", "looking", "bulk", "listing", "details", "storing", "over"}
         /\ asker[a].stage = "details" <=> asker[a].todo # {}

(* registry.py:297-298 -- "connector ports discovered against the old       *)
(* target say nothing about the new one": once a change of the connection   *)
(* is through, the cached map is of the Nexus in force, unless a discovery  *)
(* that had begun before the switch stored it since, Redis refused to drop  *)
(* it, or a restart came in between.  And a scan refused because Nexus does *)
(* not know the repository was right, if nothing changed or failed while it *)
(* asked, however old the map it began with (registry.py:311-312).          *)
EndpointsHold ==
    /\ settings = "idle" /\ known # NoMap => known.host = dialled \/ known.left
    /\ \A a \in Askers :
         asker[a].judged = "unknown" /\ asker[a].calm => declared[dialled][asker[a].repo] = "absent"
=============================================================================
