------------------------------ MODULE DbUpdates ------------------------------
(***************************************************************************)
(* Database jobs of the scanners (modules/nexus/db/): who starts one       *)
(* (routers/scan/scanner_db.py, main.py's loop, through tracking.py), what *)
(* update() and import_offline() attempt for each scanner and in which     *)
(* order, the retries, what each attempt does to the database on disk, and *)
(* what the job answers.  Readiness asks grype whether it can load its     *)
(* database and remembers the verdict for half a minute.                   *)
(***************************************************************************)
EXTENDS Naturals, Sequences, FiniteSets

CONSTANTS DbJobs,
          Scanners,      \* ALL_KNOWN_SCANNERS
          Installed,     \* the binaries in this image: scanners and oras
          EnvEnabled,    \* SCANNERS_ENABLED
          NoJob, Retries \* retries of a downloader that fails

ASSUME ScannersAssumption == Scanners = {"trivy", "grype"} /\ EnvEnabled \subseteq Scanners
ASSUME RetriesAssumption == Retries \in Nat /\ NoJob \notin DbJobs

VARIABLES toggled,    \* the dashboard's choice of scanners; {} is none
          database,   \* each scanner's database on disk
          verdict,    \* what grype_db_usable remembers, or "none"
          dbJob,      \* each job
          currentJob, \* scanner_db:current_job in Redis
          booted      \* the startup check has been made

updateVars == <<toggled, database, verdict, dbJob, currentJob, booted>>

NewDbJob == [stage |-> "none", kind |-> "update", asked |-> {}, force |-> FALSE,
             todo |-> <<>>, attempt |-> 1, answers |-> <<>>]
Missing == [present |-> FALSE, current |-> FALSE, loads |-> FALSE]
Good == [present |-> TRUE, current |-> TRUE, loads |-> TRUE]
Results == {"ok", "skipped", "failed", "kept"}
InOrder(names) == (IF "trivy" \in names THEN <<"trivy">> ELSE <<>>)
               \o (IF "grype" \in names THEN <<"grype">> ELSE <<>>)
Named(seq) == {seq[i] : i \in DOMAIN seq}

UpdatesInit ==
    /\ toggled = {}
    /\ database \in [Scanners -> {Missing, Good, [Good EXCEPT !.current = FALSE]}]
    /\ verdict = "none"
    /\ dbJob = [j \in DbJobs |-> NewDbJob]
    /\ currentJob = NoJob
    /\ booted = FALSE

-----------------------------------------------------------------------------
\* Which scanners are on: the dashboard's choice, else the environment's.
EnabledScanners == IF toggled # {} THEN toggled ELSE EnvEnabled

SetEnabledScanners ==
    /\ \E names \in SUBSET Scanners : toggled' = names
    /\ UNCHANGED <<database, verdict, dbJob, currentJob, booted>>

\* A name that is not enabled is dropped; nothing left means all of them.
RequestedScanners(j) ==
    LET scoped == dbJob[j].asked \intersect EnabledScanners
    IN  IF scoped # {} THEN scoped ELSE EnabledScanners

GrypeVerdict == IF verdict # "none" THEN verdict = "usable"
                ELSE database["grype"].present /\ database["grype"].loads
Remembered(usable) == IF usable THEN "usable" ELSE "unusable"

\* Only a scanner whose files are there is asked for more than its files.
Asks(s) == s = "grype" /\ s \in Installed /\ database[s].present
Ready(s) == s \in Installed /\ database[s].present /\ (s = "grype" => GrypeVerdict)

\* GET /scan/db-status and the preflight of a scan.
Readiness ==
    /\ \E s \in EnabledScanners : Asks(s)
    /\ verdict' = Remembered(GrypeVerdict)
    /\ UNCHANGED <<toggled, database, dbJob, currentJob, booted>>

VerdictExpires ==
    /\ verdict # "none" /\ verdict' = "none"
    /\ UNCHANGED <<toggled, database, dbJob, currentJob, booted>>

\* Time passes: a newer build is published.
BuildPublished ==
    /\ \E s \in Scanners : database[s].current /\ database' = [database EXCEPT ![s].current = FALSE]
    /\ UNCHANGED <<toggled, verdict, dbJob, currentJob, booted>>

-----------------------------------------------------------------------------
\* The enqueue, then the key that names the job; the key may fail to be set.
EnqueueDbJob(j, kind, asked, force) ==
    /\ dbJob[j].stage = "none"
    /\ dbJob' = [dbJob EXCEPT ![j] = [NewDbJob EXCEPT !.stage = "queued", !.kind = kind,
                                                      !.asked = asked, !.force = force]]
    /\ currentJob' \in {j, currentJob}

EnqueueDbUpdate(j) ==
    /\ \E asked \in {{}} \union {{s} : s \in Scanners}, force \in BOOLEAN :
         EnqueueDbJob(j, "update", asked, force)
    /\ UNCHANGED <<toggled, database, verdict, booted>>

EnqueueDbImport(j) ==
    /\ EnqueueDbJob(j, "import", {}, FALSE)
    /\ UNCHANGED <<toggled, database, verdict, booted>>

\* Half a minute after the start, when a scanner of the environment is not
\* ready; the same check asks grype.
FetchMissingAtStartup(j) ==
    /\ ~booted /\ booted' = TRUE
    /\ IF \E s \in EnvEnabled : ~Ready(s)
       THEN EnqueueDbJob(j, "update", {}, FALSE)
       ELSE UNCHANGED <<dbJob, currentJob>>
    /\ verdict' = IF "grype" \in EnvEnabled /\ Asks("grype") THEN Remembered(GrypeVerdict) ELSE verdict
    /\ UNCHANGED <<toggled, database>>

-----------------------------------------------------------------------------
Scanner(j) == Head(dbJob[j].todo)
At(j, s, stage) == dbJob[j].stage = stage /\ dbJob[j].todo # <<>> /\ Scanner(j) = s
Move(j, stage) == dbJob' = [dbJob EXCEPT ![j].stage = stage, ![j].attempt = 1]
AnswerWith(j, result) ==
    dbJob' = [dbJob EXCEPT ![j].stage = "next", ![j].todo = Tail(@), ![j].attempt = 1,
                           ![j].answers = [s \in DOMAIN @ \union {Scanner(j)} |->
                               IF s = Scanner(j) THEN result ELSE @[s]]]
DiskUnchanged == UNCHANGED <<toggled, database, verdict, currentJob, booted>>

\* Trivy names its next build; grype builds one a day.
IsCurrent(s) == database[s].present /\ database[s].current

SkipCurrentScanners(j, names) == {s \in names : ~dbJob[j].force /\ IsCurrent(s)}

BeginDbJob(j) ==
    LET names == RequestedScanners(j)
        skipped == IF dbJob[j].kind = "update" THEN SkipCurrentScanners(j, names) ELSE {}
    IN  /\ dbJob[j].stage = "queued"
        /\ dbJob' = [dbJob EXCEPT ![j].stage = "next", ![j].asked = names,
                                  ![j].todo = InOrder(names \ skipped),
                                  ![j].answers = [s \in skipped |-> "skipped"]]
        /\ DiskUnchanged

NextScanner(j) ==
    /\ dbJob[j].stage = "next"
    /\ IF dbJob[j].todo = <<>> THEN Move(j, "done")
       ELSE IF Scanner(j) \notin Installed /\ ~(dbJob[j].kind = "import" /\ Scanner(j) = "trivy")
       THEN AnswerWith(j, "failed")
       ELSE Move(j, IF dbJob[j].kind = "import" THEN "import"
                    ELSE IF Scanner(j) = "trivy" THEN "resumable" ELSE "download")
    /\ DiskUnchanged

\* The main database over HTTPS, then oras when it is there, then Trivy itself.
PullResumable(j) ==
    /\ At(j, "trivy", "resumable")
    /\ \/ Move(j, "extract")
       \/ Move(j, IF "oras" \in Installed THEN "oras" ELSE "own")
    /\ DiskUnchanged

Retried(j, elsewhere) ==
    IF dbJob[j].attempt <= Retries THEN dbJob' = [dbJob EXCEPT ![j].attempt = @ + 1] ELSE elsewhere

OrasPullRetrying(j) ==
    /\ At(j, "trivy", "oras")
    /\ Move(j, "extract") \/ Retried(j, Move(j, "own"))
    /\ DiskUnchanged

\* The files are overwritten in place: a failure on the way leaves a mixture.
InstallTrivyDb(j) ==
    /\ At(j, "trivy", "extract")
    /\ \/ AnswerWith(j, "ok") /\ database' = [database EXCEPT !["trivy"] = Good]
       \/ Move(j, "own") /\ \E left \in {database["trivy"], [Good EXCEPT !.loads = FALSE]} :
                               database' = [database EXCEPT !["trivy"] = left]
    /\ UNCHANGED <<toggled, verdict, currentJob, booted>>

OwnDownloader(j) ==
    /\ At(j, "trivy", "own")
    /\ \/ AnswerWith(j, "ok") /\ database' = [database EXCEPT !["trivy"] = Good]
       \/ Retried(j, AnswerWith(j, "failed")) /\ UNCHANGED database
    /\ UNCHANGED <<toggled, verdict, currentJob, booted>>

\* Exit 0 leaves something on disk; whether grype loads it is another matter.
GrypeDbUpdate(j) ==
    /\ At(j, "grype", "download")
    /\ \/ /\ Move(j, "verify")
          /\ \E loads \in BOOLEAN : database' = [database EXCEPT !["grype"] = [Good EXCEPT !.loads = loads]]
       \/ /\ Retried(j, AnswerWith(j, IF database["grype"].present THEN "kept" ELSE "failed"))
          /\ UNCHANGED database
    /\ UNCHANGED <<toggled, verdict, currentJob, booted>>

GrypeUpdateResult(j) ==
    /\ At(j, "grype", "verify")
    /\ verdict' = Remembered(GrypeVerdict)
    /\ AnswerWith(j, IF GrypeVerdict THEN "ok" ELSE "failed")
    /\ UNCHANGED <<toggled, database, currentJob, booted>>

\* No archive, an archive that does not extract or that grype refuses, or a
\* database installed.
ImportOffline(j) ==
    /\ dbJob[j].stage = "import"
    /\ \/ AnswerWith(j, "ok") /\ database' = [database EXCEPT ![Scanner(j)] = Good]
       \/ AnswerWith(j, "failed")
          /\ \E left \in {database[Scanner(j)]} \union
                         IF Scanner(j) = "trivy" THEN {[Good EXCEPT !.loads = FALSE]} ELSE {} :
               database' = [database EXCEPT ![Scanner(j)] = left]
    /\ UNCHANGED <<toggled, verdict, currentJob, booted>>

Updating == {"resumable", "oras", "extract", "own", "download", "verify"}

\* A fault: the exception ends the loop over the scanners.
IsolatedNot(j) == Move(j, "done")

\* What an exception nobody expected leaves of the job: a failure of this
\* scanner, and on to the next.
Isolated(j) == AnswerWith(j, "failed")

RunIsolatedUpdate(j) ==
    /\ dbJob[j].stage \in Updating
    /\ Isolated(j)
    /\ DiskUnchanged

\* The job is cancelled; the tool it was running is killed.
CancelDbJob(j) ==
    /\ dbJob[j].stage \notin {"none", "done", "cancelled"}
    /\ Move(j, "cancelled")
    /\ DiskUnchanged

UpdatesNext ==
    \/ SetEnabledScanners \/ Readiness \/ VerdictExpires \/ BuildPublished
    \/ \E j \in DbJobs :
         \/ EnqueueDbUpdate(j) \/ EnqueueDbImport(j) \/ FetchMissingAtStartup(j)
         \/ BeginDbJob(j) \/ NextScanner(j) \/ PullResumable(j) \/ OrasPullRetrying(j) \/ InstallTrivyDb(j)
         \/ OwnDownloader(j) \/ GrypeDbUpdate(j) \/ GrypeUpdateResult(j) \/ ImportOffline(j)
         \/ RunIsolatedUpdate(j) \/ CancelDbJob(j)

UpdatesSpec == UpdatesInit /\ [][UpdatesNext]_updateVars
-----------------------------------------------------------------------------
UpdatesTyped ==
    /\ toggled \subseteq Scanners /\ booted \in BOOLEAN /\ currentJob \in DbJobs \union {NoJob}
    /\ database \in [Scanners -> [present : BOOLEAN, current : BOOLEAN, loads : BOOLEAN]]
    /\ verdict \in {"none", "usable", "unusable"}
    /\ \A j \in DbJobs :
         /\ dbJob[j].stage \in Updating \union {"none", "queued", "next", "import", "done", "cancelled"}
         /\ dbJob[j].attempt \in 1..(Retries + 1)
         /\ \A s \in DOMAIN dbJob[j].answers : s \in Scanners /\ dbJob[j].answers[s] \in Results
         /\ Named(dbJob[j].todo) \intersect DOMAIN dbJob[j].answers = {}

(* update.py:80-94, 119-128 -- whatever fails or crashes for one scanner, a *)
(* job that ends has an answer for each scanner it was about.               *)
EveryScannerAnswered ==
    \A j \in DbJobs : dbJob[j].stage = "done" => DOMAIN dbJob[j].answers = dbJob[j].asked
=============================================================================
