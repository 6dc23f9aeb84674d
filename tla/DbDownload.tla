----------------------------- MODULE DbDownload -----------------------------
(***************************************************************************)
(* How the Java database of Trivy is downloaded (modules/nexus/db/):       *)
(* resumable_oci_pull in process.py, tried by _pull_trivy_java_db in       *)
(* update.py against the primary registry, then the fallback mirror, and   *)
(* the extraction that follows.  A file is the sequence of its pieces, a   *)
(* piece a tuple of the mirror, the build and the place in that build's    *)
(* blob it came from.  Nothing keeps two update jobs apart, so several     *)
(* pull into the same files.                                               *)
(***************************************************************************)
EXTENDS Naturals, Sequences, FiniteSets

CONSTANTS Pullers,      \* update jobs
          Mirrors,      \* registries, in the order they are tried
          SizeOf(_),    \* pieces in the blob of a build
          MaxBuild,     \* bound on the builds published
          MaxBreaks      \* bound on the transfers that break and the jobs that are stopped

ASSUME MirrorsAssumption == Mirrors \in Seq(STRING) /\ Mirrors # <<>>
ASSUME PullBoundsAssumption == MaxBuild \in Nat \ {0} /\ MaxBreaks \in Nat
ASSUME SizeAssumption == \A b \in 1..MaxBuild : SizeOf(b) \in Nat \ {0}

VARIABLES published,  \* the newest build
          partial,    \* the .partial file of each destination
          archive,    \* the file it is renamed to
          pull,       \* where each update job is
          breaks

downloadVars == <<published, partial, archive, pull, breaks>>

\* No file: no piece looks like this one.
Absent == <<<<"absent">>>>
Hole == <<"hole">>
Registries == {Mirrors[i] : i \in DOMAIN Mirrors}
Idle == [stage |-> "idle", try |-> 1, build |-> 0, done |-> 0, pos |-> 0, on |-> "none", mode |-> "none"]

\* A fault: both registries download to the destination of the first.
FileOfShared(m) == Mirrors[1]

\* Each registry has a destination of its own.
FileOf(m) == m

DownloadInit ==
    /\ published = 1
    /\ partial = [m \in Registries |-> Absent]
    /\ archive = [m \in Registries |-> Absent]
    /\ pull = [p \in Pullers |-> Idle]
    /\ breaks = 0

Here(p) == Mirrors[pull[p].try]
Dest(p) == FileOf(Here(p))
Length(file) == IF file = Absent THEN 0 ELSE Len(file)
\* A fault: a failed transfer keeps its file open.
GotoOpen(p, stage) == pull' = [pull EXCEPT ![p].stage = stage]

Goto(p, stage) == pull' = [pull EXCEPT ![p].stage = stage, ![p].on = "none"]

Publish ==
    /\ published < MaxBuild
    /\ published' = published + 1
    /\ UNCHANGED <<partial, archive, pull, breaks>>

StartPull(p) ==
    /\ pull[p].stage = "idle"
    /\ pull' = [pull EXCEPT ![p] = [Idle EXCEPT !.stage = "resolving"]]
    /\ UNCHANGED <<published, partial, archive, breaks>>

\* The open handles of the other jobs follow the file through a rename.
Renamed(q, f, from, to) ==
    IF q.on = from /\ Mirrors[q.try] = f THEN [q EXCEPT !.on = to] ELSE q

(* The manifest names the newest build.  What the partial file already      *)
(* holds counts as done, whichever build it came from; only a partial       *)
(* longer than the blob is thrown away.                                     *)
ResolveOciBlob(p) ==
    LET held == Length(partial[Dest(p)])
        stale == held > SizeOf(published)
    IN  /\ pull[p].stage = "resolving"
        /\ partial' = IF stale THEN [partial EXCEPT ![Dest(p)] = Absent] ELSE partial
        /\ pull' = [q \in Pullers |->
             IF q = p THEN [pull[p] EXCEPT !.stage = "pulling", !.build = published,
                                           !.done = IF stale THEN 0 ELSE held]
             ELSE IF stale THEN Renamed(pull[q], Dest(p), "partial", "gone") ELSE pull[q]]
        /\ UNCHANGED <<published, archive, breaks>>

\* The next registry, or no Java database this time.
NextMirror(p) ==
    pull' = [pull EXCEPT ![p] = IF pull[p].try < Len(Mirrors)
                                THEN [Idle EXCEPT !.stage = "resolving", !.try = pull[p].try + 1]
                                ELSE Idle]

ResolveFails(p) ==
    /\ pull[p].stage = "resolving"
    /\ NextMirror(p)
    /\ UNCHANGED <<published, partial, archive, breaks>>

(* One GET: 206 from where the job believes it is, or 200 and the whole     *)
(* blob.  The file is opened for append when something is done, else        *)
(* truncated.  A 401 is answered with a new token and changes nothing here. *)
OpenStream(p) ==
    /\ pull[p].stage = "pulling" /\ pull[p].done < SizeOf(pull[p].build)
    /\ \E start \in {0, pull[p].done} :
         /\ partial' = IF start = 0 \/ partial[Dest(p)] = Absent
                       THEN [partial EXCEPT ![Dest(p)] = <<>>] ELSE partial
         /\ pull' = [pull EXCEPT ![p].stage = "streaming", ![p].pos = start, ![p].on = "partial",
                                 ![p].mode = IF start = 0 THEN "write" ELSE "append"]
    /\ UNCHANGED <<published, archive, breaks>>

WriteAt(file, i, piece) ==
    [k \in 1..(IF i > Len(file) THEN i ELSE Len(file)) |->
        IF k = i THEN piece ELSE IF k <= Len(file) THEN file[k] ELSE Hole]

Written(file, q, piece) ==
    IF q.mode = "append" THEN Append(file, piece) ELSE WriteAt(file, q.pos + 1, piece)

\* A piece arrives; it goes to the open file, whatever that is called by now.
ReceiveChunk(p) ==
    LET q == pull[p]
        piece == <<Here(p), q.build, q.pos + 1>>
        f == Dest(p)
    IN  /\ q.stage = "streaming" /\ q.pos < SizeOf(q.build)
        /\ partial' = IF q.on = "partial" THEN [partial EXCEPT ![f] = Written(@, q, piece)] ELSE partial
        /\ archive' = IF q.on = "archive" THEN [archive EXCEPT ![f] = Written(@, q, piece)] ELSE archive
        /\ pull' = [pull EXCEPT ![p].pos = @ + 1]
        /\ UNCHANGED <<published, breaks>>

\* The response has ended: only now does the caller learn what was written.
ChunkDone(p) ==
    /\ pull[p].stage = "streaming" /\ pull[p].pos = SizeOf(pull[p].build)
    /\ pull' = [pull EXCEPT ![p].stage = "pulling", ![p].done = pull[p].pos, ![p].on = "none"]
    /\ UNCHANGED <<published, partial, archive, breaks>>

\* A reset, an HTTP error or a full disk: the caller still has its old count.
Dropped(p) ==
    /\ pull[p].stage = "streaming" /\ breaks < MaxBreaks
    /\ breaks' = breaks + 1
    /\ Goto(p, "pulling")
    /\ UNCHANGED <<published, partial, archive>>

DeadlinePassed(p) ==
    /\ pull[p].stage = "pulling" /\ pull[p].done < SizeOf(pull[p].build)
    /\ NextMirror(p)
    /\ UNCHANGED <<published, partial, archive, breaks>>

\* The rename; another job may have renamed the file already, which raises.
RenameIntoPlace(p) ==
    LET f == Dest(p) IN
    /\ pull[p].stage = "pulling" /\ pull[p].done >= SizeOf(pull[p].build)
    /\ IF pull[p].done # SizeOf(pull[p].build)
       THEN NextMirror(p) /\ UNCHANGED <<partial, archive>>
       ELSE IF partial[f] = Absent
       THEN pull' = [pull EXCEPT ![p] = Idle] /\ UNCHANGED <<partial, archive>>
       ELSE /\ archive' = [archive EXCEPT ![f] = partial[f]]
            /\ partial' = [partial EXCEPT ![f] = Absent]
            /\ pull' = [q \in Pullers |->
                 IF q = p THEN [pull[p] EXCEPT !.stage = "pulled"]
                 ELSE Renamed(Renamed(pull[q], f, "archive", "gone"), f, "partial", "archive")]
    /\ UNCHANGED <<published, breaks>>

(* _install_trivy_db: extract, and unlink what was extracted.  An archive   *)
(* another job has already removed is skipped; one that is not a whole blob *)
(* fails to extract, after the canonical files were overwritten, and stays. *)
Blob(m, b) == [k \in 1..SizeOf(b) |-> <<m, b, k>>]
Whole(file) == \E m \in Registries, b \in 1..MaxBuild : file = Blob(m, b)

InstallJava(p) ==
    LET f == Dest(p) IN
    /\ pull[p].stage = "pulled"
    /\ IF Whole(archive[f])
       THEN /\ archive' = [archive EXCEPT ![f] = Absent]
            /\ pull' = [q \in Pullers |-> IF q = p THEN Idle ELSE Renamed(pull[q], f, "archive", "gone")]
       ELSE UNCHANGED archive /\ pull' = [pull EXCEPT ![p] = Idle]
    /\ UNCHANGED <<published, partial, breaks>>

\* The job is cancelled or the process restarts: what is on disk stays there.
CancelPull(p) ==
    /\ pull[p].stage # "idle" /\ breaks < MaxBreaks
    /\ breaks' = breaks + 1
    /\ pull' = [pull EXCEPT ![p] = Idle]
    /\ UNCHANGED <<published, partial, archive>>

DownloadNext ==
    \/ Publish
    \/ \E p \in Pullers :
         \/ StartPull(p) \/ ResolveOciBlob(p) \/ ResolveFails(p) \/ OpenStream(p)
         \/ ReceiveChunk(p) \/ ChunkDone(p) \/ Dropped(p) \/ DeadlinePassed(p)
         \/ RenameIntoPlace(p) \/ InstallJava(p) \/ CancelPull(p)

DownloadSpec == DownloadInit /\ [][DownloadNext]_downloadVars

Piece == {Hole} \union (Registries \X (1..MaxBuild) \X Nat)
File(f) == f = Absent \/ \A i \in DOMAIN f : f[i] \in Piece

DownloadTyped ==
    /\ published \in 1..MaxBuild /\ breaks \in 0..MaxBreaks
    /\ \A m \in Registries : File(partial[m]) /\ File(archive[m])
    /\ \A p \in Pullers :
         /\ pull[p].stage \in {"idle", "resolving", "pulling", "streaming", "pulled"}
         /\ pull[p].on \in {"none", "partial", "archive", "gone"}
         /\ pull[p].stage = "streaming" <=> pull[p].on # "none"

Origins(f) == IF f = Absent THEN {} ELSE {f[i][1] : i \in {j \in DOMAIN f : f[j] # Hole}}

(* update.py:309-314 -- a download that stops and resumes, in this run, a   *)
(* later one or an overlapping one, never splices the bytes of two          *)
(* registries into one archive.                                             *)
NoMirrorSplice ==
    /\ \A m \in Registries : Cardinality(Origins(partial[m])) <= 1 /\ Cardinality(Origins(archive[m])) <= 1
=============================================================================
