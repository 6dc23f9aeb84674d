----------------------------- MODULE StorageScan -----------------------------
(***************************************************************************)
(* The deep analysis of a Docker repository (services/                     *)
(* storage_analyzer.py): the assets and the tags are listed together, then *)
(* a worker per tag, a few at a time, fetches the tag's manifest and those *)
(* it lists, and counts the blobs no other tag has brought yet.  Fetches   *)
(* fail, and tags are pushed and deleted, while it runs.                   *)
(***************************************************************************)
EXTENDS Naturals, Sequences, FiniteSets, Functions

CONSTANTS Tags,         \* (image, tag) pairs
          Digests,      \* manifests a manifest list may name
          Blobs,        \* configs and layers
          BytesOf,       \* [Blobs -> Nat]
          Lists,        \* [Digests -> their parts]: the manifests a digest lists,
          Layers,       \*   or the config and layers it holds, as sequences
          Concurrency,  \* ANALYZER_MAX_CONCURRENCY
          MaxEvents     \* bound on the pushes, deletions and failed fetches

ASSUME BytesAssumption == BytesOf \in [Blobs -> Nat] /\ IsFiniteSet(Blobs) /\ IsFiniteSet(Tags)
ASSUME ContentAssumption ==
    /\ Lists \in [Digests -> Seq(Digests)] /\ Layers \in [Digests -> Seq(Blobs)]
    /\ \A d \in Digests : Lists[d] = <<>> \/ Layers[d] = <<>>
    /\ "none" \notin Digests
ASSUME ScanBoundsAssumption == Concurrency \in Nat \ {0} /\ MaxEvents \in Nat

VARIABLES repo,     \* the manifest of each tag there is, and the blobs stored
          phase,
          totals,   \* Phase 1: the bytes of all assets; Phase 2: the tags
          worker,   \* each tag's worker
          counted,  \* unique_active_blobs
          active,   \* active_bytes
          sizes,    \* image_tag_sizes
          calm,     \* no push, deletion or failed fetch since the start
          events

scanVars == <<repo, phase, totals, worker, counted, active, sizes, calm, events>>

MaxManifestDepth == 2
NoTag == "none"
Unlisted == [raw |-> 0, tags |-> {}, listed |-> {}]
Waits == [stage |-> "waits", todo |-> {}, size |-> 0, blobs |-> {}]

TotalOf(blobs) == SumFunctionOnSet(BytesOf, blobs)
Elements(seq) == {seq[i] : i \in DOMAIN seq}

\* The blobs of a manifest at a depth, as far down as the analysis goes.
Reached ==
    LET at[n \in 0..MaxManifestDepth] ==
          [d \in Digests |-> Elements(Layers[d]) \union
             IF n = MaxManifestDepth THEN {} ELSE UNION {at[n + 1][Lists[d][i]] : i \in DOMAIN Lists[d]}]
    IN  at[0]

\* A repository stores at least what its tags use.
Stored(tags) == UNION {Reached[tags[t]] : t \in {u \in Tags : tags[u] # NoTag}}

StorageInit ==
    /\ \E tags \in [Tags -> Digests \union {NoTag}], more \in SUBSET Blobs :
         repo = [tags |-> tags, blobs |-> Stored(tags) \union more]
    /\ phase = "idle" /\ totals = Unlisted
    /\ worker = [t \in Tags |-> Waits]
    /\ counted = {} /\ active = 0 /\ sizes = [t \in Tags |-> 0]
    /\ calm = TRUE /\ events = 0

-----------------------------------------------------------------------------
Happens == events < MaxEvents /\ events' = events + 1 /\ calm' = FALSE

\* A push brings the blobs of its manifest, a deletion leaves its own there.
PushOrDelete(t) ==
    /\ phase # "idle" /\ Happens
    /\ \E d \in Digests \union {NoTag} :
         LET tags == [repo.tags EXCEPT ![t] = d]
         IN  repo' = [tags |-> tags, blobs |-> repo.blobs \union Stored(tags)]
    /\ UNCHANGED <<phase, totals, worker, counted, active, sizes>>

AnalyzeDocker ==
    /\ phase = "idle" /\ phase' = "listing"
    /\ UNCHANGED <<repo, totals, worker, counted, active, sizes, calm, events>>

\* The two listings run together, in either order.
TotalPhysicalUsage ==
    /\ phase = "listing" /\ "assets" \notin totals.listed
    /\ totals' = [totals EXCEPT !.raw = TotalOf(repo.blobs), !.listed = @ \union {"assets"}]
    /\ UNCHANGED <<repo, phase, worker, counted, active, sizes, calm, events>>

CollectDockerComponents ==
    /\ phase = "listing" /\ "components" \notin totals.listed
    /\ totals' = [totals EXCEPT !.tags = {t \in Tags : repo.tags[t] # NoTag}, !.listed = @ \union {"components"}]
    /\ UNCHANGED <<repo, phase, worker, counted, active, sizes, calm, events>>

\* A repository without tags is answered with an empty result.
DeepScan ==
    /\ phase = "listing" /\ totals.listed = {"assets", "components"}
    /\ phase' = IF totals.tags = {} THEN "over" ELSE "scanning"
    /\ UNCHANGED <<repo, totals, worker, counted, active, sizes, calm, events>>

-----------------------------------------------------------------------------
\* What is still to be fetched: the place on the way down from the tag, and the
\* digest; the tag itself is looked up when it is fetched.  The manifests of one
\* list are fetched together.
Top == [path |-> <<>>, ref |-> NoTag]
Manifest(t, m) == IF m = Top THEN repo.tags[t] ELSE m.ref
Children(m, d) == {[path |-> Append(m.path, i), ref |-> Lists[d][i]] : i \in DOMAIN Lists[d]}
Depth(m) == Len(m.path)

Working == {t \in Tags : worker[t].stage = "works"}
WorkerIs(t, w) == worker' = [worker EXCEPT ![t] = w]

\* A worker holds the semaphore until its tag is counted.
Bounded(t) ==
    /\ phase = "scanning" /\ t \in totals.tags /\ worker[t].stage = "waits"
    /\ Cardinality(Working) < Concurrency
    /\ WorkerIs(t, [Waits EXCEPT !.stage = "works", !.todo = {Top}])
    /\ UNCHANGED <<repo, phase, totals, counted, active, sizes, calm, events>>

\* An entry without a size is left out; nothing else is.
ManifestLayerBlobs(d) == {i \in DOMAIN Layers[d] : BytesOf[Layers[d][i]] > 0}
LocalSize(d) == SumFunctionOnSet([i \in DOMAIN Layers[d] |-> BytesOf[Layers[d][i]]], ManifestLayerBlobs(d))
LocalBlobs(d) == {Layers[d][i] : i \in ManifestLayerBlobs(d)}

ProcessManifest(t, m) ==
    LET d == Manifest(t, m)
        w == worker[t]
        rest == w.todo \ {m}
    IN  /\ worker[t].stage = "works" /\ m \in w.todo /\ d # NoTag
        /\ WorkerIs(t, IF Depth(m) > MaxManifestDepth THEN [w EXCEPT !.todo = rest]
                       ELSE [w EXCEPT !.todo = rest \union Children(m, d),
                                      !.size = @ + LocalSize(d),
                                      !.blobs = @ \union LocalBlobs(d)])
        /\ UNCHANGED <<repo, phase, totals, counted, active, sizes, calm, events>>

\* An error, a status other than 200 (the tag is gone) or a body that is not
\* JSON: this manifest counts nothing.
FetchFails(t, m) ==
    /\ worker[t].stage = "works" /\ m \in worker[t].todo
    /\ Depth(m) <= MaxManifestDepth
    /\ \/ Happens
       \/ Manifest(t, m) = NoTag /\ UNCHANGED <<calm, events>>
    /\ WorkerIs(t, [worker[t] EXCEPT !.todo = @ \ {m}])
    /\ UNCHANGED <<repo, phase, totals, counted, active, sizes>>

\* A fault: a blob is new if this tag has not brought it before.
AddedPerTag(blobs) == TotalOf(blobs)

\* A blob counts once, whichever tag brought it first.
Added(blobs) == TotalOf(blobs \ counted)

AccumulateBlobs(t) ==
    LET w == worker[t] IN
    /\ w.stage = "works" /\ w.todo = {}
    /\ sizes' = [sizes EXCEPT ![t] = w.size]
    /\ active' = active + Added(w.blobs)
    /\ counted' = counted \union w.blobs
    /\ WorkerIs(t, [Waits EXCEPT !.stage = "done"])
    /\ UNCHANGED <<repo, phase, totals, calm, events>>

Finish ==
    /\ phase = "scanning" /\ \A t \in totals.tags : worker[t].stage = "done"
    /\ phase' = "over"
    /\ UNCHANGED <<repo, totals, worker, counted, active, sizes, calm, events>>

StorageNext ==
    \/ AnalyzeDocker \/ TotalPhysicalUsage \/ CollectDockerComponents \/ DeepScan \/ Finish
    \/ \E t \in Tags :
         \/ PushOrDelete(t) \/ Bounded(t) \/ AccumulateBlobs(t)
         \/ \E m \in worker[t].todo : ProcessManifest(t, m) \/ FetchFails(t, m)

StorageSpec == StorageInit /\ [][StorageNext]_scanVars
-----------------------------------------------------------------------------
StorageTyped ==
    /\ phase \in {"idle", "listing", "scanning", "over"}
    /\ counted \subseteq Blobs /\ active \in Nat /\ sizes \in [Tags -> Nat]
    /\ \A t \in Tags : worker[t].stage \in {"waits", "works", "done"}

Wasted == IF totals.raw > active THEN totals.raw - active ELSE 0

(* storage_analyzer.py:7-8 -- "a globally-deduped active payload.  wasted = *)
(* raw - active".  The bytes counted are those of the blobs counted, each   *)
(* once, in whatever order the workers end; and of a repository nobody      *)
(* changed, whose manifests could all be read, the bytes in use are those   *)
(* its tags reach and the rest is wasted.                                   *)
ActiveIsWhatTagsUse ==
    /\ active = TotalOf(counted) /\ active <= SumFunction(sizes)
    /\ phase = "over" /\ calm =>
         /\ counted = {b \in Stored(repo.tags) : BytesOf[b] > 0}
         /\ Wasted = TotalOf(repo.blobs \ Stored(repo.tags))
=============================================================================
