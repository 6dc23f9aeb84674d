------------------------------- MODULE MCNexus -------------------------------
(***************************************************************************)
(* What is done with Nexus, for TLC: the download of a scanner database,   *)
(* the replicas scans read, the update and import jobs, the discovery of   *)
(* the registries, and the storage analysis with its callers.  They share  *)
(* no variable, so a run takes one part at a time, and the others rest.    *)
(***************************************************************************)
EXTENDS DbDownload, TrivyReplicas, DbUpdates, RegistryDiscovery, SharedAnalysis, StorageScan, TLC

VARIABLE part   \* the component that moves

TwoPieces(b) == 2
BothRegistries == <<"primary", "fallback">>

\* A blob without a size, one two tags share, and one no tag uses.
BlobBytes == [b \in Blobs |-> CASE b = "base" -> 2 [] b = "top" -> 1 [] b = "old" -> 4 [] OTHER -> 0]

\* Two single manifests, a list that names one of them twice, and lists nested
\* as deep as the analysis goes, and deeper.
ManifestLists == [d \in Digests |-> CASE d = "multi" -> <<"arm", "amd", "amd">>
                                      [] d = "nested" -> <<"multi">>
                                      [] d = "deep" -> <<"nested">>
                                      [] OTHER -> <<>>]
ManifestLayers == [d \in Digests |-> CASE d = "arm" -> <<"base", "empty">>
                                       [] d = "amd" -> <<"base", "base", "top">>
                                       [] OTHER -> <<>>]

Symmetry == Permutations(Pullers) \union Permutations(Scans)

Parts == {"download", "replicas", "updates", "registry", "shared", "storage"}
dbVars == <<downloadVars, replicaVars, updateVars>>
readVars == <<registryVars, sharedVars, scanVars>>

\* A part that rests has one initial state.
AllInit ==
    /\ part \in Parts
    /\ DownloadInit /\ ReplicasInit /\ UpdatesInit /\ RegistryInit /\ SharedInit /\ StorageInit
    /\ part # "updates" => \A s \in Scanners : database[s] = Good
    /\ part # "registry" => declared = [h \in Hosts |-> [r \in Repos |-> "absent"]]
    /\ saved = CHOOSE h \in Hosts : TRUE   \* the Nexuses differ by name only
    /\ part # "storage" => repo = [tags |-> [t \in Tags |-> NoTag], blobs |-> {}]

AllNext ==
    /\ UNCHANGED part
    /\ \/ part = "download" /\ DownloadNext /\ UNCHANGED <<replicaVars, updateVars, readVars>>
       \/ part = "replicas" /\ ReplicasNext /\ UNCHANGED <<downloadVars, updateVars, readVars>>
       \/ part = "updates" /\ UpdatesNext /\ UNCHANGED <<downloadVars, replicaVars, readVars>>
       \/ part = "registry" /\ RegistryNext /\ UNCHANGED <<dbVars, sharedVars, scanVars>>
       \/ part = "shared" /\ SharedNext /\ UNCHANGED <<dbVars, registryVars, scanVars>>
       \/ part = "storage" /\ StorageNext /\ UNCHANGED <<dbVars, registryVars, sharedVars>>

AllSpec == AllInit /\ [][AllNext]_<<part, dbVars, readVars>>

(* Every part keeps its types; a handle is open exactly while a response is *)
(* read, a slot held exactly from checkout to checkin.                      *)
TypesOK == /\ DownloadTyped /\ ReplicasTyped /\ UpdatesTyped
           /\ RegistryTyped /\ SharedTyped /\ StorageTyped

(* The files of the scanner databases: bytes of two registries are never    *)
(* spliced into one archive (update.py:309-314), and no scan, copy or write *)
(* works on files another one is working on (trivy.py:38-46).               *)
FilesKeptApart == NoMirrorSplice /\ FilesAreExclusive
=============================================================================
