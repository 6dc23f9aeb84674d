---------------------------- MODULE SourceRepos -----------------------------
(***************************************************************************)
(* Connecting repositories to projects, and the Sonar projects made for    *)
(* them: routers/github.py, routers/gitlab.py, modules/sonar/provisioning, *)
(* workers/provisioning_worker and the analysis triggers of                *)
(* routers/sonar.py.                                                       *)
(*                                                                         *)
(* A request, and a provision_repository job, is a record that advances    *)
(* between its awaits; what it has not committed is in the record, not in  *)
(* the tables.  The session does not autoflush (db/session.py), so a       *)
(* mapping that is pending locks nothing; the public bulk flushes each row *)
(* it inserts, and a row another transaction has flushed is waited for.    *)
(* The tables are unique in a repository's name, in a Sonar project's      *)
(* repository and key, and in a project's integration of a module.         *)
(***************************************************************************)
EXTENDS Naturals, Sequences, FiniteSets

CONSTANTS
    Hub,          \* the repositories the GitHub installation sees
    Open,         \* the public repositories that are connected by name
    Lab,          \* the repositories the GitLab connection sees
    SlugOf,       \* the part of a Sonar key a repository's name gives
    Projects,
    Lists,        \* the lists a bulk request may name
    Unrecorded,   \* no row for the repository
    Unmapped,     \* a row, in no project
    MaxRequests,  \* bound: requests made and jobs run
    MaxTroubles   \* bound: steps that fail and requests that are dropped

\* The repositories of GitHub and of GitLab are kept in tables of their own.
ASSUME ReposAssumption == Lab \intersect (Hub \union Open) = {}
ASSUME ListsAssumption == Lists \subseteq Seq(Hub \union Open \union Lab) /\ <<>> \notin Lists
ASSUME RequestsAssumption == MaxRequests \in Nat /\ MaxTroubles \in Nat
ASSUME StatesAssumption == Unrecorded # Unmapped /\ {Unrecorded, Unmapped} \intersect Projects = {}

Repos    == Hub \union Open \union Lab
Requests == 1 .. MaxRequests
Source(r) == IF r \in Lab THEN "gitlab" ELSE "github"

VARIABLES
    mapping,   \* of each repository, its project, Unmapped or Unrecorded
    byUrl,     \* rows without an installation
    marks,     \* the integration rows: project and module
    sonarOf,   \* the Sonar projects: the project of each repository's, or Unrecorded
    known,     \* the keys that exist on SonarQube
    provisions, \* the queued provision_repository jobs
    asked,     \* repositories with a clone_and_analyze job
    req,       \* the requests and the running jobs
    crowded,   \* requests another one, a sync or a new integration overlapped
    lost,      \* requests refused by the database, and why
    troubles

srcVars == <<mapping, byUrl, marks, sonarOf, known, provisions, asked, req, crowded, lost, troubles>>
tables  == <<mapping, byUrl, marks, sonarOf>>

SonarKey(p, r) == <<p, SlugOf[r]>>
Made   == {i \in Requests : req[i].at # "unmade"}
Active == {i \in Made : req[i].at # "done"}

Unmade == [at |-> "unmade"]

\* What a request carries between its steps.
Request(op, r, p, at) ==
    [op |-> op, repo |-> r, proj |-> p, at |-> at,
     marked |-> FALSE, moves |-> FALSE, todo |-> <<>>, pending |-> {}]

SourceInit ==
    /\ mapping = [r \in Repos |-> Unrecorded] /\ byUrl = {} /\ marks = {}
    /\ sonarOf = [r \in Repos |-> Unrecorded] /\ known = {}
    /\ provisions = <<>> /\ asked = {}
    /\ req = [i \in Requests |-> Unmade]
    /\ crowded = {} /\ lost = {} /\ troubles = 0

-----------------------------------------------------------------------------
(* Steps every request is made of.                                         *)

Begin(q) ==
    \E i \in Requests \ Made :
        /\ \A k \in Requests \ Made : i <= k
        /\ req' = [req EXCEPT ![i] = q]
        /\ crowded' = IF Active = {} THEN crowded ELSE crowded \union Active \union {i}

Goes(i, at) == req' = [req EXCEPT ![i].at = at]
Ends(i)     == req' = [req EXCEPT ![i] = [at |-> "done"]]

\* The database refuses what it was asked to commit: nothing of it is kept.
Refused(i, why) ==
    /\ Ends(i) /\ lost' = lost \union {[id |-> i, op |-> req[i].op, why |-> why]}
    /\ UNCHANGED tables

\* The rows a mapping writes: SQLAlchemy updates what differs from what it read.
Mapped(rs, p) == [r \in Repos |-> IF r \in rs THEN p ELSE mapping[r]]

\* A row another open transaction has inserted and not committed.
Flushed(i, r) == \E k \in Active \ {i} : req[k].op = "bulkpublic" /\ r \in req[k].pending

-----------------------------------------------------------------------------
(* Discovery.  An installation's sync looks up the rows of that            *)
(* installation only, and inserts the others: a name that was connected by *)
(* URL before fails the whole sync.                                        *)

Sync(seen) ==
    /\ seen \in {Hub, Lab} /\ \E r \in seen : mapping[r] = Unrecorded
    /\ seen \intersect byUrl = {} /\ ~ \E r \in seen : Flushed(0, r)
    /\ mapping' = [r \in Repos |-> IF r \in seen /\ mapping[r] = Unrecorded THEN Unmapped ELSE mapping[r]]
    /\ crowded' = crowded \union Active
    /\ UNCHANGED <<byUrl, marks, sonarOf, known, provisions, asked, req, lost, troubles>>

\* An integration row made by hand, projects.py's own endpoint.
AddIntegration(p, m) ==
    /\ <<p, m>> \notin marks /\ marks' = marks \union {<<p, m>>} /\ crowded' = crowded \union Active
    /\ UNCHANGED <<mapping, byUrl, sonarOf, known, provisions, asked, req, lost, troubles>>

-----------------------------------------------------------------------------
(* One repository.  The marker is looked up first; without it the mapping  *)
(* is committed by connect_integration, together with the marker.          *)

AskMap(r, p) ==
    /\ mapping[r] # Unrecorded
    /\ Begin([Request("map", r, p, IF <<p, Source(r)>> \in marks THEN "commit" ELSE "connect")
                EXCEPT !.moves = mapping[r] # p])
    /\ UNCHANGED <<mapping, byUrl, marks, sonarOf, known, provisions, asked, lost, troubles>>

AskConnectPublic(r, p) ==
    /\ r \in Open /\ mapping[r] = Unrecorded
    /\ Begin([Request("public", r, p, IF <<p, "github">> \in marks THEN "commit" ELSE "connect")
                EXCEPT !.moves = TRUE])
    /\ UNCHANGED <<mapping, byUrl, marks, sonarOf, known, provisions, asked, lost, troubles>>

\* Inserting a name that got a row meanwhile.
NameTaken(q) == q.op = "public" /\ mapping[q.repo] # Unrecorded

\* connect_integration's insert.
Connects(q) == marks \union {<<q.proj, Source(q.repo)>>}

Connect(i) == LET q == req[i] IN
    /\ q.at \in {"connect", "commit"} /\ ~Flushed(i, q.repo)
    /\ \/ /\ q.at = "connect" /\ <<q.proj, Source(q.repo)>> \in marks
          /\ Refused(i, "marker")
       \/ /\ ~(q.at = "connect" /\ <<q.proj, Source(q.repo)>> \in marks)
          /\ NameTaken(q) /\ Refused(i, "name")
       \/ /\ ~(q.at = "connect" /\ <<q.proj, Source(q.repo)>> \in marks) /\ ~NameTaken(q)
          /\ mapping' = IF q.moves THEN Mapped({q.repo}, q.proj) ELSE mapping
          /\ byUrl' = IF q.op = "public" THEN byUrl \union {q.repo} ELSE byUrl
          /\ marks' = IF q.at = "connect" THEN Connects(q) ELSE marks
          /\ Goes(i, "read") /\ UNCHANGED <<sonarOf, lost>>
    /\ UNCHANGED <<known, provisions, asked, crowded, troubles>>

-----------------------------------------------------------------------------
(* Many repositories.  Each is queued for provisioning at its turn, and    *)
(* only the one that connects the marker commits before the end.           *)

AskBulk(op, rs, p) ==
    /\ \E from \in IF op = "bulk" THEN {Hub, Lab} ELSE {Open} : \A n \in DOMAIN rs : rs[n] \in from
    /\ Begin([Request(op, rs[1], p, "look")
                EXCEPT !.todo = rs, !.marked = <<p, Source(rs[1])>> \in marks])
    /\ UNCHANGED <<mapping, byUrl, marks, sonarOf, known, provisions, asked, lost, troubles>>

Skips(q) == LET r == Head(q.todo) IN
    IF q.op = "bulk" THEN mapping[r] \notin {Unmapped, q.proj}
                     ELSE mapping[r] # Unrecorded \/ r \in q.pending

\* A repository is read, and a public one looked up at GitHub, before its turn ends.
BulkLook(i) == LET q == req[i] IN
    /\ q.at = "look" /\ q.todo # <<>>
    /\ req' = [req EXCEPT ![i] =
                 IF Skips(q) THEN [q EXCEPT !.todo = Tail(@)]
                 ELSE [q EXCEPT !.at = "take", !.repo = Head(q.todo), !.todo = Tail(@),
                                !.moves = mapping[Head(q.todo)] # q.proj]]
    /\ UNCHANGED <<mapping, byUrl, marks, sonarOf, known, provisions, asked, crowded, lost, troubles>>

BulkTake(i) ==
    LET q == req[i]
        r == q.repo
        later == IF q.moves THEN q.pending \union {r} ELSE q.pending IN
    /\ q.at = "take" /\ ~(q.op = "bulkpublic" /\ Flushed(i, r))
    /\ \/ q.op = "bulkpublic" /\ mapping[r] # Unrecorded /\ Refused(i, "name") /\ UNCHANGED provisions
       \/ /\ q.op = "bulk" \/ mapping[r] = Unrecorded
          /\ ~q.marked /\ <<q.proj, Source(r)>> \in marks /\ Refused(i, "marker") /\ UNCHANGED provisions
       \/ /\ q.op = "bulk" \/ mapping[r] = Unrecorded
          /\ q.marked
          /\ req' = [req EXCEPT ![i] = [q EXCEPT !.pending = later, !.at = "look"]]
          /\ provisions' = Append(provisions, [repo |-> r, proj |-> q.proj])
          /\ UNCHANGED <<tables, lost>>
       \/ /\ q.op = "bulk" \/ mapping[r] = Unrecorded
          /\ ~q.marked /\ <<q.proj, Source(r)>> \notin marks
          /\ marks' = Connects(q) /\ mapping' = Mapped(later, q.proj)
          /\ byUrl' = IF q.op = "bulkpublic" THEN byUrl \union later ELSE byUrl
          /\ req' = [req EXCEPT ![i] = [q EXCEPT !.pending = {}, !.marked = TRUE, !.at = "look"]]
          /\ provisions' = Append(provisions, [repo |-> r, proj |-> q.proj])
          /\ UNCHANGED <<sonarOf, lost>>
    /\ UNCHANGED <<known, asked, crowded, troubles>>

BulkEnd(i) == LET q == req[i] IN
    /\ q.at = "look" /\ q.todo = <<>> /\ Ends(i)
    /\ mapping' = Mapped(q.pending, q.proj)
    /\ byUrl' = IF q.op = "bulkpublic" THEN byUrl \union q.pending ELSE byUrl
    /\ UNCHANGED <<marks, sonarOf, known, provisions, asked, crowded, lost, troubles>>

\* Two lists in opposite orders wait for each other's rows: PostgreSQL ends one.
BulkDeadlock(i) == LET q == req[i] IN
    /\ q.at = "take" /\ q.op = "bulkpublic"
    /\ \E k \in Active \ {i} : /\ req[k].at = "take" /\ req[k].op = "bulkpublic"
                               /\ q.repo \in req[k].pending /\ req[k].repo \in q.pending
    /\ Refused(i, "deadlock")
    /\ UNCHANGED <<known, provisions, asked, crowded, troubles>>

-----------------------------------------------------------------------------
(* Provisioning: from a mapping, a job, the analyze action or the Sonar    *)
(* form.                                                                   *)

PickUp ==
    /\ provisions # <<>> /\ provisions' = Tail(provisions)
    /\ Begin(Request("provision", Head(provisions).repo, Head(provisions).proj, "read"))
    /\ UNCHANGED <<mapping, byUrl, marks, sonarOf, known, asked, lost, troubles>>

AskAnalyze(r) ==
    /\ mapping[r] \in Projects /\ Begin(Request("analyze", r, mapping[r], "read"))
    /\ UNCHANGED <<mapping, byUrl, marks, sonarOf, known, provisions, asked, lost, troubles>>

AskCreate(r, p) ==
    /\ mapping[r] = p /\ sonarOf[r] = Unrecorded /\ Begin(Request("create", r, p, "create"))
    /\ UNCHANGED <<mapping, byUrl, marks, sonarOf, known, provisions, asked, lost, troubles>>

AskRun(r) ==
    /\ sonarOf[r] # Unrecorded /\ Begin(Request("run", r, sonarOf[r], "sha"))
    /\ UNCHANGED <<mapping, byUrl, marks, sonarOf, known, provisions, asked, lost, troubles>>

ReadExisting(i) ==
    /\ req[i].at = "read" /\ Goes(i, IF sonarOf[req[i].repo] = Unrecorded THEN "create" ELSE "sha")
    /\ UNCHANGED <<mapping, byUrl, marks, sonarOf, known, provisions, asked, crowded, lost, troubles>>

\* A fault: a project with no Sonar project yet is taken to have no marker.
HasSonarUnseen(p) == \E r \in Repos : sonarOf[r] = p

\* The marker is looked up itself: it may outlive, or precede, the rows.
HasSonar(p) == <<p, "sonar">> \in marks

CreateSonarSide(i) == LET q == req[i] IN
    /\ q.at = "create" /\ known' = known \union {SonarKey(q.proj, q.repo)}
    /\ req' = [req EXCEPT ![i].at = "row", ![i].marked = HasSonar(q.proj)]
    /\ UNCHANGED <<mapping, byUrl, marks, sonarOf, provisions, asked, crowded, lost, troubles>>

\* Why the insert of a row, or of its marker, cannot be committed.
Refusals(q) ==
    {w \in {"marker", "repo", "row", "key"} :
       CASE w = "marker" -> ~q.marked /\ <<q.proj, "sonar">> \in marks
         [] w = "repo"   -> mapping[q.repo] = Unrecorded
         [] w = "row"    -> sonarOf[q.repo] # Unrecorded
         [] w = "key"    -> \E r \in Repos \ {q.repo} :
                              sonarOf[r] # Unrecorded /\ SonarKey(sonarOf[r], r) = SonarKey(q.proj, q.repo)}

CreateRow(i) == LET q == req[i] IN
    /\ q.at = "row"
    /\ \/ \E w \in Refusals(q) : Refused(i, w)
       \/ /\ Refusals(q) = {}
          /\ sonarOf' = [sonarOf EXCEPT ![q.repo] = q.proj] /\ marks' = marks \union {<<q.proj, "sonar">>}
          /\ IF q.op = "create" THEN Ends(i) ELSE Goes(i, "sha")
          /\ UNCHANGED <<mapping, byUrl, lost>>
    /\ UNCHANGED <<known, provisions, asked, crowded, troubles>>

\* The branch's head is resolved and its analysis queued.
EnqueueAnalysis(i) ==
    /\ req[i].at = "sha" /\ asked' = asked \union {req[i].repo} /\ Ends(i)
    /\ UNCHANGED <<mapping, byUrl, marks, sonarOf, known, provisions, crowded, lost, troubles>>

-----------------------------------------------------------------------------
(* What goes wrong.  A provider that cannot be reached, a language nobody  *)
(* can guess and a SonarQube that is not set up end the provisioning where *)
(* it stands; a public repository that is not found is left out of its     *)
(* list; a client that goes away or a restart ends a request anywhere.     *)

GivesUp(i) == req[i].at \in {"read", "create", "sha"}

LeavesOut(i) == req[i].at = "take" /\ req[i].op = "bulkpublic"

FailRequest(i) ==
    /\ i \in Active /\ troubles < MaxTroubles /\ troubles' = troubles + 1
    /\ IF LeavesOut(i) THEN Ends(i) \/ Goes(i, "look") ELSE Ends(i)
    /\ UNCHANGED <<mapping, byUrl, marks, sonarOf, known, provisions, asked, crowded, lost>>

Advance(i) ==
    /\ i \in Active
    /\ \/ Connect(i) \/ BulkLook(i) \/ BulkTake(i) \/ BulkEnd(i) \/ BulkDeadlock(i)
       \/ ReadExisting(i) \/ CreateSonarSide(i) \/ CreateRow(i) \/ EnqueueAnalysis(i)

SourceNext ==
    \/ Sync(Hub) \/ Sync(Lab)
    \/ \E p \in Projects, m \in {"github", "gitlab", "sonar"} : AddIntegration(p, m)
    \/ \E r \in Repos, p \in Projects : AskMap(r, p) \/ AskConnectPublic(r, p) \/ AskCreate(r, p)
    \/ \E r \in Repos : AskAnalyze(r) \/ AskRun(r)
    \/ \E op \in {"bulk", "bulkpublic"}, rs \in Lists, p \in Projects : AskBulk(op, rs, p)
    \/ PickUp
    \/ \E i \in Requests : Advance(i) \/ FailRequest(i)

SourceSpec == SourceInit /\ [][SourceNext]_srcVars

-----------------------------------------------------------------------------
SourceTypeOK ==
    /\ mapping \in [Repos -> Projects \union {Unrecorded, Unmapped}] /\ byUrl \subseteq Open
    /\ marks \subseteq Projects \X {"github", "gitlab", "sonar"}
    /\ sonarOf \in [Repos -> Projects \union {Unrecorded}] /\ asked \subseteq Repos
    /\ crowded \subseteq Requests /\ troubles \in 0 .. MaxTroubles
    /\ \A i \in Active : req[i].repo \in Repos /\ req[i].proj \in Projects

(***************************************************************************)
(* A repository is in a project only when the project has the integration  *)
(* of its source, and has a Sonar project only when the project has the    *)
(* sonar marker: whoever commits first, and whatever is rolled back.       *)
(***************************************************************************)
MappedIsMarked ==
    \A r \in Repos :
        /\ mapping[r] \in Projects => <<mapping[r], Source(r)>> \in marks
        /\ sonarOf[r] # Unrecorded => <<sonarOf[r], "sonar">> \in marks

(***************************************************************************)
(* Connecting, provisioning and the Sonar form are refused by the database *)
(* only when two of them overlap, or when two names give one Sonar key:    *)
(* in particular a marker that is already there stops nobody who is alone, *)
(* which is what create_sonar_project_row looks the marker up for.  (A job *)
(* of a bulk request that was dropped, or was itself refused, finds no row *)
(* for its repository.)                                                    *)
(***************************************************************************)
RefusedOnlyInACrowd ==
    \A l \in lost : \/ l.why = "key" \/ l.id \in crowded
                    \/ l.why = "repo" /\ (troubles > 0 \/ \E k \in lost : k.op = "bulkpublic")

(* Markers are there when they are needed, and never in the way.            *)
MarkersHold == MappedIsMarked /\ RefusedOnlyInACrowd
=============================================================================
