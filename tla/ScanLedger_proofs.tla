-------------------------- MODULE ScanLedger_proofs --------------------------
(***************************************************************************)
(* Type correctness of ScanLedger, that nothing is scanned on its own in a *)
(* repository that was never baselined, that "scanned" was earned, and     *)
(* that where nothing fails every scan is due to a push of its own.        *)
(***************************************************************************)
EXTENDS ScanLedger, FiniteSetTheorems, TLAPS

-----------------------------------------------------------------------------
(* The invariant.                                                          *)

Visiting == {"read", "adopt", "each", "flush", "enqueue", "commit"}
Looking  == {"each", "flush", "enqueue", "commit"}
Chosen   == {"flush", "enqueue", "commit"}

\* The watcher visits one repository at a time and each once per cycle.  It
\* looks at single images only of one that had a baseline when the cycle began.
WatchOK ==
    /\ watch.pc \in Visiting => watch.repo \in Repos \ watch.todo
    /\ watch.pc \in Looking => /\ watch.repo \in watch.base
                               /\ watch.left \subseteq In(watch.repo)
    /\ watch.pc \in Chosen => watch.image \in In(watch.repo)

\* A digest waits in the session only for a row that was there when it was read;
\* if the row is gone by now, the watcher's session will find that out.
There(i) == ledger[i] # NoRow \/ i \in watch.lost

DigestOK(i) ==
    session.digest[i] # None =>
        /\ watch # Resting
        /\ RepoOf[i] \notin watch.todo
        /\ watch.pc = "read" => RepoOf[i] # watch.repo
        /\ There(i)

KnownOK(i) ==
    watch.pc \in Looking /\ RepoOf[i] = watch.repo /\ watch.known[i] # NoRow
        => There(i)

RowsKept == \A i \in Images : DigestOK(i) /\ KnownOK(i)

TypeInv == TypeOK /\ WatchOK /\ RowsKept

\* A repository that counts as baselined anywhere was observed: in its target,
\* in the watcher's copy of it, and for a webhook request past the gate.
ObservedOK ==
    /\ \A r \in Repos : target[r].baselined => r \in observed
    /\ watch # Resting => watch.base \subseteq observed
    /\ \A q \in Requests :
        req[q] # Idle /\ req[q].source = "webhook" /\ req[q].pc # "gate"
            => RepoOf[req[q].image] \in observed

-----------------------------------------------------------------------------
(* Types.                                                                  *)

LEMMA InitTyped == Init => TypeInv
<1> SUFFICES ASSUME Init PROVE TypeInv
  OBVIOUS
<1> USE BoundsAssumption
<1>1. TypeOK
  BY DEF Init, TypeOK, NoRow, None, Idle, Resting, Clean, NoJob, Request, Job,
         Watch, Digests, Row
<1>2. WatchOK
  BY DEF Init, WatchOK, Resting, Visiting, Looking, Chosen
<1>3. RowsKept
  BY DEF Init, RowsKept, DigestOK, KnownOK, Resting, Clean, Looking
<1> QED
  BY <1>1, <1>2, <1>3 DEF TypeInv

\* The bounds are counters.
LEMMA CountTyped ==
  ASSUME TypeOK,
         NEW b \in {"pushes", "asks", "deletes", "drops", "faults", "crashes"},
         Used(b)
  PROVE  count' \in [{"pushes", "asks", "deletes", "drops", "faults", "crashes"}
                      -> Nat]
BY DEF TypeOK, Used

\* Losing rows keeps the requests, the watcher and the jobs as they are, but
\* for the marks.
LEMMA LoseTyped ==
  ASSUME TypeOK, NEW S \in SUBSET (Images \union Repos), Lose(S)
  PROVE  req' \in [Requests -> Request] /\ watch' \in Watch /\ jobs' \in [JobIds -> Job]
<1>1. req' \in [Requests -> Request]
  <2>1. \A r \in Request : r # Idle => [r EXCEPT !.lost = TRUE] \in Request
    BY DEF Request
  <2>2. \A q \in Requests : req'[q] \in Request
    BY <2>1 DEF TypeOK, Lose
  <2> QED
    BY <2>2 DEF Lose
<1>2. watch' \in Watch
  <2>1. CASE watch = Resting
    BY <2>1 DEF Lose, Watch
  <2>2. CASE watch # Resting
    BY <2>2 DEF TypeOK, Lose, Watch
  <2> QED
    BY <2>1, <2>2
<1>3. jobs' \in [JobIds -> Job]
  <2>1. \A r \in Job : r # NoJob => [r EXCEPT !.lost = TRUE] \in Job
    BY DEF Job
  <2>2. \A k \in JobIds : jobs'[k] \in Job
    BY <2>1 DEF TypeOK, Lose
  <2> QED
    BY <2>2 DEF Lose
<1> QED
  BY <1>1, <1>2, <1>3

\* A request, job or watcher that stands somewhere is a proper record.
LEMMA Standing ==
  /\ \A q \in Requests : req[q].pc # "idle" => req[q] # Idle
  /\ \A k \in JobIds : jobs[k].pc # "new" => jobs[k] # NoJob
  /\ watch.pc # "idle" => watch # Resting
BY DEF Idle, NoJob, Resting

LEMMA GotoTyped ==
  ASSUME TypeOK, NEW q \in Requests, req[q] # Idle,
         NEW pc \in {"gate", "resolve", "flush", "enqueue", "commit"},
         Goto(q, pc)
  PROVE  req' \in [Requests -> Request]
<1>1. [req[q] EXCEPT !.pc = pc] \in Request
  BY DEF TypeOK, Request
<1> QED
  BY <1>1 DEF TypeOK, Goto

LEMMA LeaveTyped ==
  ASSUME TypeOK, NEW q \in Requests, Leave(q)
  PROVE  req' \in [Requests -> Request]
BY DEF TypeOK, Leave, Request

LEMMA RequestImage ==
  ASSUME TypeOK, NEW q \in Requests, req[q] # Idle
  PROVE  /\ req[q].image \in Images
         /\ req[q].source \in {"webhook", "manual"}
BY DEF TypeOK, Request

LEMMA JobImage ==
  ASSUME TypeOK, NEW k \in JobIds, jobs[k] # NoJob
  PROVE  jobs[k].image \in Images
BY DEF TypeOK, Job

LEMMA NewJobTyped ==
  ASSUME TypeOK, NEW k \in JobIds, NEW i \in Images,
         NEW source \in {"webhook", "manual", "push"}, NewJob(k, i, source)
  PROVE  /\ jobs' \in [JobIds -> Job]
         /\ credit' \in [Images -> Int]
         /\ UNCHANGED <<observed, fresh, scanned>>
<1>1. [pc |-> "queued", image |-> i, ok |-> FALSE, source |-> source,
       seen |-> NoRow, lost |-> FALSE] \in Job
  BY DEF Job, Row
<1>2. jobs' \in [JobIds -> Job]
  BY <1>1 DEF TypeOK, NewJob
<1>3. credit' \in [Images -> Int]
  BY DEF TypeOK, NewJob
<1> QED
  BY <1>2, <1>3 DEF NewJob

LEMMA JobOverTyped ==
  ASSUME TypeOK, NEW k \in JobIds, jobs[k] # NoJob, JobOver(k)
  PROVE  jobs' \in [JobIds -> Job]
<1>1. NoRow \in Row
  BY DEF Row
<1>2. \A job \in Job : job # NoJob => Over(job) \in Job
  BY <1>1 DEF Job, Over
<1>3. Over(jobs[k]) \in Job
  BY <1>2 DEF TypeOK
<1> QED
  BY <1>3 DEF TypeOK, JobOver

\* What a commit of the watcher makes of a row is a row.
LEMMA WrittenTyped ==
  ASSUME TypeInv, ~RowGone, NEW i \in Images
  PROVE  Written(i) \in Row
<1> USE DEF TypeInv
<1>1. CASE session.add[i] # None
  BY <1>1 DEF Written, Queued, Row, Entry, TypeOK, Digests
<1>2. CASE session.add[i] = None /\ session.digest[i] = None
  BY <1>2 DEF Written, TypeOK
<1>3. CASE session.add[i] = None /\ session.digest[i] # None
  <2>1. ledger[i] # NoRow
    BY <1>3 DEF RowGone, RowsKept, DigestOK, There
  <2>2. ledger[i] \in Entry
    BY <2>1 DEF TypeOK, Row
  <2>3. ledger[i].state \in {"baseline", "queued", "scanned", "failed"}
    BY <2>2 DEF Entry
  <2>4. session.digest[i] \in Contents \union {None}
    BY DEF TypeOK, Digests
  <2> QED
    BY <1>3, <2>3, <2>4 DEF Written, Row, Entry
<1> QED
  BY <1>1, <1>2, <1>3

-----------------------------------------------------------------------------
(* Every step keeps the types.                                             *)

LEMMA WorldTyped ==
  ASSUME TypeInv,
         \/ \E i \in Images : \/ \E c \in Contents : Push(i, c)
                            \/ DeleteTag(i) \/ forget_deleted_images(i)
         \/ \E r \in Repos : \/ \E m \in Modes : Configure(r, m)
                           \/ DeleteRepo(r) \/ forget_repository(r)
         \/ \E S \in {{i} : i \in Images} \union {In(r) : r \in Repos}
                      \union {Images} : ResetLedger(S)
  PROVE  TypeOK'
<1> USE DEF TypeInv, world, history
<1>1. ASSUME NEW i \in Images, NEW c \in Contents, Push(i, c) PROVE TypeOK'
  <2>1. nexus' \in Digests /\ credit' \in [Images -> Int]
    BY <1>1 DEF TypeOK, Push, Digests
  <2>2. deliveries' \subseteq Images /\ fresh' \subseteq Images
    BY <1>1 DEF TypeOK, Push
  <2> QED
    BY <1>1, <2>1, <2>2, CountTyped DEF TypeOK, Push
<1>2. ASSUME NEW i \in Images, DeleteTag(i) PROVE TypeOK'
  <2>1. nexus' \in Digests
    BY <1>2 DEF TypeOK, DeleteTag, Digests
  <2> QED
    BY <1>2, <2>1, CountTyped DEF TypeOK, DeleteTag
<1>3. ASSUME NEW i \in Images, forget_deleted_images(i) PROVE TypeOK'
  <2>1. ledger' \in [Images -> Row]
    BY <1>3 DEF TypeOK, forget_deleted_images, Row
  <2>2. Lose({i})
    BY <1>3 DEF forget_deleted_images
  <2> QED
    BY <1>3, <2>1, <2>2, LoseTyped DEF TypeOK, forget_deleted_images
<1>4. ASSUME NEW r \in Repos, NEW m \in Modes, Configure(r, m) PROVE TypeOK'
  <2>1. target' \in [Repos -> [mode : {"none", "off", "on"}, baselined : BOOLEAN]]
    BY <1>4, ModesAssumption DEF TypeOK, Configure
  <2>2. req' \in [Requests -> Request] /\ watch' \in Watch /\ jobs' \in [JobIds -> Job]
    <3>1. CASE m = "none"
      BY <1>4, <3>1, LoseTyped DEF Configure
    <3>2. CASE m # "none"
      BY <1>4, <3>2 DEF Configure, TypeOK
    <3> QED
      BY <3>1, <3>2
  <2> QED
    BY <1>4, <2>1, <2>2 DEF TypeOK, Configure
<1>5. ASSUME NEW r \in Repos, DeleteRepo(r) PROVE TypeOK'
  <2>1. nexus' \in Digests
    BY <1>5 DEF TypeOK, DeleteRepo, Digests
  <2> QED
    BY <1>5, <2>1, CountTyped DEF TypeOK, DeleteRepo
<1>6. ASSUME NEW r \in Repos, forget_repository(r) PROVE TypeOK'
  <2>1. ledger' \in [Images -> Row]
    BY <1>6 DEF TypeOK, forget_repository, Row
  <2>2. target' \in [Repos -> [mode : {"none", "off", "on"}, baselined : BOOLEAN]]
    BY <1>6 DEF TypeOK, forget_repository
  <2>3. Lose({r} \union In(r)) /\ {r} \union In(r) \in SUBSET (Images \union Repos)
    BY <1>6 DEF forget_repository, In
  <2> QED
    BY <1>6, <2>1, <2>2, <2>3, LoseTyped DEF TypeOK, forget_repository
<1>7. ASSUME NEW S, ResetLedger(S) PROVE TypeOK'
  <2>1. \A i \in Images : ledger[i] # NoRow
                           => [ledger[i] EXCEPT !.state = "baseline"] \in Row
    BY DEF TypeOK, Row, Entry
  <2>2. ledger' \in [Images -> Row]
    BY <1>7, <2>1 DEF TypeOK, ResetLedger
  <2> QED
    BY <1>7, <2>2, CountTyped DEF TypeOK, ResetLedger
<1> QED
  BY <1>1, <1>2, <1>3, <1>4, <1>5, <1>6, <1>7

\* A row whose state is written is a row, whatever was there.
LEMMA StateTyped ==
  ASSUME NEW row \in Row, NEW st \in {"queued", "scanned", "failed"}
  PROVE  [row EXCEPT !.state = st] \in Row
<1>1. NoRow \in [state : {"none"}, digest : {None}]
  BY DEF NoRow
<1> QED
  BY <1>1 DEF Row, Entry

LEMMA RequestsTyped ==
  ASSUME TypeInv, NEW q \in Requests,
         \/ \E i \in Images : Deliver(q, i) \/ Ask(q, i)
         \/ RequestStep(q) \/ EnqueueScanFails(q)
  PROVE  TypeOK'
<1> USE DEF TypeInv, world, history
<1>1. ASSUME NEW i \in Images, Deliver(q, i) PROVE TypeOK'
  <2>1. [pc |-> "gate", source |-> "webhook", image |-> i, seen |-> NoRow,
         lost |-> FALSE] \in Request
    BY DEF Request, Row
  <2>2. req' \in [Requests -> Request]
    BY <1>1, <2>1 DEF TypeOK, Deliver
  <2> QED
    BY <1>1, <2>2 DEF TypeOK, Deliver
<1>2. ASSUME NEW i \in Images, Ask(q, i) PROVE TypeOK'
  <2>1. [pc |-> "resolve", source |-> "manual", image |-> i, seen |-> NoRow,
         lost |-> FALSE] \in Request
    BY DEF Request, Row
  <2>2. req' \in [Requests -> Request]
    BY <1>2, <2>1 DEF TypeOK, Ask
  <2> QED
    BY <1>2, <2>2, CountTyped DEF TypeOK, Ask
<1>3. ASSUME Gate(q) PROVE TypeOK'
  <2>1. req' \in [Requests -> Request]
    BY <1>3, Standing, GotoTyped, LeaveTyped DEF Gate
  <2> QED
    BY <1>3, <2>1 DEF TypeOK, Gate
<1>4. ASSUME Resolve(q) PROVE TypeOK'
  <2>1. req[q] # Idle /\ ledger[req[q].image] \in Row
    BY <1>4, Standing, RequestImage DEF TypeOK, Resolve
  <2>2. [req[q] EXCEPT !.pc = "enqueue", !.seen = ledger[req[q].image]] \in Request
    <3>1. \A r \in Request, row \in Row :
            r # Idle => [r EXCEPT !.pc = "enqueue", !.seen = row] \in Request
      BY DEF Request
    <3> QED
      BY <2>1, <3>1 DEF TypeOK
  <2>3. req' \in [Requests -> Request]
    <3>1. CASE Goto(q, "flush")
      BY <2>1, <3>1, GotoTyped
    <3>2. CASE Leave(q)
      BY <3>2, LeaveTyped
    <3>3. CASE req' = [req EXCEPT ![q].pc = "enqueue", ![q].seen = ledger[req[q].image]]
      <4>1. req' = [req EXCEPT ![q] =
                       [req[q] EXCEPT !.pc = "enqueue", !.seen = ledger[req[q].image]]]
        BY <3>3 DEF TypeOK
      <4> QED
        BY <4>1, <2>2 DEF TypeOK
    <3> QED
      BY <1>4, <3>1, <3>2, <3>3 DEF Resolve
  <2> QED
    BY <1>4, <2>3 DEF TypeOK, Resolve
<1>5. ASSUME Flush(q) PROVE TypeOK'
  <2>1. req' \in [Requests -> Request]
    BY <1>5, Standing, GotoTyped, LeaveTyped DEF Flush
  <2> QED
    BY <1>5, <2>1 DEF TypeOK, Flush
<1>6. ASSUME NEW k \in JobIds, EnqueueScan(q, k) PROVE TypeOK'
  <2>1. req[q] # Idle
    BY <1>6, Standing DEF EnqueueScan
  <2>2. req' \in [Requests -> Request]
    BY <1>6, <2>1, GotoTyped DEF EnqueueScan
  <2>3. NewJob(k, req[q].image, req[q].source)
    BY <1>6 DEF EnqueueScan
  <2> QED
    BY <1>6, <2>1, <2>2, <2>3, NewJobTyped, RequestImage DEF TypeOK, EnqueueScan
<1>7. ASSUME EnqueueScanFails(q) PROVE TypeOK'
  <2>1. req[q] # Idle
    BY <1>7, Standing DEF EnqueueScanFails
  <2>2. req' \in [Requests -> Request]
    BY <1>7, LeaveTyped DEF EnqueueScanFails
  <2>3. /\ jobs' \in [JobIds -> Job]
        /\ credit' \in [Images -> Int]
        /\ UNCHANGED <<observed, fresh, scanned>>
    <3>1. CASE UNCHANGED <<jobs, history>>
      BY <3>1 DEF TypeOK
    <3>2. ASSUME NEW k \in JobIds, NewJob(k, req[q].image, req[q].source)
          PROVE  /\ jobs' \in [JobIds -> Job]
                 /\ credit' \in [Images -> Int]
                 /\ UNCHANGED <<observed, fresh, scanned>>
      BY <2>1, <3>2, NewJobTyped, RequestImage
    <3> QED
      BY <1>7, <3>1, <3>2 DEF EnqueueScanFails
  <2> QED
    BY <1>7, <2>2, <2>3, CountTyped DEF TypeOK, EnqueueScanFails
<1>8. ASSUME CommitScan(q) PROVE TypeOK'
  <2>1. req[q] # Idle
    BY <1>8, Standing DEF CommitScan
  <2>2. Queued(None) \in Row
    BY DEF Queued, Row, Entry
  <2>3. ledger[req[q].image] \in Row
    BY <2>1, RequestImage DEF TypeOK
  <2>4. [ledger[req[q].image] EXCEPT !.state = "queued"] \in Row
    BY <2>3, StateTyped
  <2>5. ledger' \in [Images -> Row]
    BY <1>8, <2>2, <2>3, <2>4 DEF TypeOK, CommitScan
  <2>6. req' \in [Requests -> Request]
    BY <1>8, LeaveTyped DEF CommitScan
  <2> QED
    BY <1>8, <2>5, <2>6 DEF TypeOK, CommitScan
<1> QED
  BY <1>1, <1>2, <1>3, <1>4, <1>5, <1>6, <1>7, <1>8 DEF RequestStep

\* While the watcher stands somewhere it can be moved: its fields are typed.
LEMMA WatchFields ==
  ASSUME TypeOK, watch # Resting
  PROVE  watch \in Watch \ {Resting}
BY DEF TypeOK

LEMMA NextTyped ==
  ASSUME TypeOK, watch # Resting, NextTarget
  PROVE  watch' \in Watch
<1>1. /\ watch.todo \in SUBSET Repos
      /\ watch.base \in SUBSET Repos
      /\ watch.lost \in SUBSET (Images \union Repos)
  BY WatchFields DEF Watch
<1> QED
  BY <1>1 DEF NextTarget, AtNext, Watch, Row

LEMMA EndedTyped == Ended => session' \in [add : Digests, digest : Digests]
BY DEF Ended, Clean, Digests

LEMMA WatcherTyped ==
  ASSUME TypeInv,
         \/ WatchStep \/ EnqueueNewFails
         \/ \E r \in Repos : ListFails(r)
  PROVE  TypeOK'
<1> USE DEF TypeInv, world, history
<1>1. CASE StartCycle
  <2>1. AtNext({r \in Repos : target[r].mode = "on"},
               {r \in {r \in Repos : target[r].mode = "on"} : target[r].baselined}, {})
          \in Watch
    BY DEF AtNext, Watch, Row
  <2>2. watch' \in Watch
    BY <1>1, <2>1 DEF StartCycle
  <2> QED
    BY <1>1, <2>2, EndedTyped DEF TypeOK, StartCycle
<1>2. ASSUME NEW r \in Repos, ListTarget(r) PROVE TypeOK'
  <2>1. watch # Resting
    BY <1>2, Standing DEF ListTarget, WatchAt
  <2>2. watch' \in Watch
    <3>1. \A w \in Watch : w # Resting =>
            [w EXCEPT !.pc = "read", !.todo = @ \ {r}, !.repo = r, !.listing = nexus]
              \in Watch
      BY DEF Watch, TypeOK, Digests
    <3> QED
      BY <1>2, <2>1, <3>1 DEF TypeOK, ListTarget
  <2>3. credit' \in [Images -> Int] /\ fresh' \subseteq Images
    BY <1>2 DEF TypeOK, ListTarget
  <2> QED
    BY <1>2, <2>2, <2>3 DEF TypeOK, ListTarget
<1>3. ASSUME NEW r \in Repos, ListFails(r) PROVE TypeOK'
  <2>1. watch # Resting
    BY <1>3, Standing DEF ListFails, WatchAt
  <2>2. watch' \in Watch
    <3>1. \A w \in Watch : w # Resting => [w EXCEPT !.todo = @ \ {r}] \in Watch
      BY DEF Watch
    <3> QED
      BY <1>3, <2>1, <3>1 DEF TypeOK, ListFails
  <2> QED
    BY <1>3, <2>2, CountTyped DEF TypeOK, ListFails
<1>4. CASE ReadKnown
  <2>1. watch # Resting
    BY <1>4, Standing DEF ReadKnown, WatchAt
  <2>2. watch' \in Watch
    <3>1. \A w \in Watch, pc \in {"each", "adopt"}, left \in SUBSET Images :
            w # Resting =>
              [w EXCEPT !.pc = pc, !.known = ledger, !.left = left,
                        !.lost = @ \ In(w.repo)] \in Watch
      BY DEF Watch, TypeOK
    <3>2. {i \in In(watch.repo) : watch.listing[i] # None} \in SUBSET Images
      BY DEF In
    <3>3. (IF watch.repo \in watch.base THEN "each" ELSE "adopt") \in {"each", "adopt"}
      OBVIOUS
    <3>4. watch' = [watch EXCEPT
                      !.pc = IF watch.repo \in watch.base THEN "each" ELSE "adopt",
                      !.known = ledger,
                      !.left = {i \in In(watch.repo) : watch.listing[i] # None},
                      !.lost = @ \ In(watch.repo)]
      BY <1>4 DEF ReadKnown
    <3>5. watch \in Watch
      BY DEF TypeOK
    <3> QED
      BY <2>1, <3>1, <3>2, <3>3, <3>4, <3>5
  <2> QED
    BY <1>4, <2>2 DEF TypeOK, ReadKnown
<1>5. CASE Adopt
  <2>1. watch # Resting
    BY <1>5, Standing DEF Adopt, WatchAt
  <2>2. watch.repo \in Repos /\ watch.listing \in Digests
    BY <1>5, <2>1, WatchFields DEF Adopt, WatchAt, WatchOK, Visiting, Watch, Digests
  <2>3. CASE CycleFails /\ UNCHANGED <<ledger, target, observed>>
    BY <1>5, <2>3, EndedTyped DEF TypeOK, Adopt, CycleFails, Watch
  <2>4. CASE ~(CycleFails /\ UNCHANGED <<ledger, target, observed>>)
    <3> DEFINE new == {i \in watch.left : watch.known[i] = NoRow}
    <3>1. /\ ~RowGone
          /\ ledger' = [i \in Images |->
               IF i \in new THEN [state |-> "baseline", digest |-> watch.listing[i]]
               ELSE Written(i)]
          /\ target' = [target EXCEPT ![watch.repo].baselined = TRUE]
          /\ observed' = observed \union {watch.repo}
          /\ Ended /\ NextTarget
      BY <1>5, <2>4 DEF Adopt
    <3>2. \A i \in Images :
            [state |-> "baseline", digest |-> watch.listing[i]] \in Row
      BY <2>2 DEF Digests, Row, Entry
    <3>3. ledger' \in [Images -> Row]
      BY <3>1, <3>2, WrittenTyped
    <3>4. target' \in [Repos -> [mode : {"none", "off", "on"}, baselined : BOOLEAN]]
      BY <3>1, <2>2 DEF TypeOK
    <3> QED
      BY <1>5, <2>1, <2>2, <3>1, <3>3, <3>4, NextTyped, EndedTyped DEF TypeOK, Adopt
  <2> QED
    BY <2>3, <2>4
<1>6. ASSUME NEW i \in Images, Each(i) PROVE TypeOK'
  <2>1. watch # Resting
    BY <1>6, Standing DEF Each, WatchAt
  <2>2. watch' \in Watch
    <3>1. \A w \in Watch, pc \in {"flush", "enqueue", "each"} :
            w # Resting =>
              [w EXCEPT !.pc = pc, !.left = @ \ {i}, !.image = i] \in Watch
      BY DEF Watch
    <3> QED
      BY <1>6, <2>1, <3>1 DEF TypeOK, Each
  <2>3. session' \in [add : Digests, digest : Digests]
    <3>1. watch.listing[i] \in Contents \union {None}
      BY <2>1, WatchFields DEF Watch
    <3> QED
      BY <1>6, <3>1 DEF TypeOK, Each, Digests
  <2> QED
    BY <1>6, <2>2, <2>3 DEF TypeOK, Each
<1>7. CASE FlushNew
  <2>1. watch # Resting /\ watch.image \in Images
    BY <1>7, Standing DEF FlushNew, WatchAt, WatchOK, Chosen, In
  <2>2. CASE CycleFails
    BY <1>7, <2>2, EndedTyped DEF TypeOK, FlushNew, CycleFails, Watch
  <2>3. CASE /\ session' = [session EXCEPT !.add[watch.image] =
                                              watch.listing[watch.image]]
             /\ watch' = [watch EXCEPT !.pc = "enqueue"]
    <3>1. watch.listing[watch.image] \in Contents \union {None}
      BY <2>1, WatchFields DEF Watch
    <3>2. session' \in [add : Digests, digest : Digests]
      BY <2>3, <3>1 DEF TypeOK, Digests
    <3>3. watch' \in Watch
      BY <2>1, <2>3, WatchFields DEF Watch
    <3> QED
      BY <1>7, <3>2, <3>3 DEF TypeOK, FlushNew
  <2> QED
    BY <1>7, <2>2, <2>3 DEF FlushNew
<1>8. ASSUME NEW k \in JobIds, EnqueueNew(k) PROVE TypeOK'
  <2>1. watch # Resting /\ watch.image \in Images
    BY <1>8, Standing DEF EnqueueNew, WatchAt, WatchOK, Chosen, In
  <2>2. watch' \in Watch
    BY <1>8, <2>1, WatchFields DEF EnqueueNew, Watch
  <2>3. NewJob(k, watch.image, "push")
    BY <1>8 DEF EnqueueNew
  <2> QED
    BY <1>8, <2>1, <2>2, <2>3, NewJobTyped DEF TypeOK, EnqueueNew
<1>9. CASE EnqueueNewFails
  <2>1. watch # Resting /\ watch.image \in Images
    BY <1>9, Standing DEF EnqueueNewFails, WatchAt, WatchOK, Chosen, In
  <2>2. watch' \in Watch
    BY <1>9, <2>1, NextTyped DEF EnqueueNewFails
  <2>3. /\ jobs' \in [JobIds -> Job]
        /\ credit' \in [Images -> Int]
        /\ UNCHANGED <<observed, fresh, scanned>>
    <3>1. CASE UNCHANGED <<jobs, history>>
      BY <3>1 DEF TypeOK
    <3>2. ASSUME NEW k \in JobIds, NewJob(k, watch.image, "push")
          PROVE  /\ jobs' \in [JobIds -> Job]
                 /\ credit' \in [Images -> Int]
                 /\ UNCHANGED <<observed, fresh, scanned>>
      BY <2>1, <3>2, NewJobTyped
    <3> QED
      BY <1>9, <3>1, <3>2 DEF EnqueueNewFails
  <2> QED
    BY <1>9, <2>2, <2>3, CountTyped DEF TypeOK, EnqueueNewFails
<1>10. CASE CommitNew
  <2>1. watch # Resting
    BY <1>10, Standing DEF CommitNew, WatchAt
  <2>2. CASE CycleFails /\ UNCHANGED ledger
    BY <1>10, <2>2, EndedTyped DEF TypeOK, CommitNew, CycleFails, Watch
  <2>3. CASE ~RowGone
    <3>1. ledger' = [i \in Images |-> Written(i)] /\ Ended
          /\ watch' = [watch EXCEPT !.pc = "each"]
      BY <1>10, <2>3 DEF CommitNew
    <3>2. ledger' \in [Images -> Row]
      BY <2>3, <3>1, WrittenTyped
    <3>3. watch' \in Watch
      BY <2>1, <3>1, WatchFields DEF Watch
    <3> QED
      BY <1>10, <3>1, <3>2, <3>3, EndedTyped DEF TypeOK, CommitNew
  <2> QED
    BY <1>10, <2>2, <2>3 DEF CommitNew
<1>11. CASE FinishTarget
  <2>1. watch # Resting
    BY <1>11, Standing DEF FinishTarget, WatchAt
  <2>2. CASE NextTarget /\ UNCHANGED <<ledger, session>>
    BY <1>11, <2>1, <2>2, NextTyped DEF TypeOK, FinishTarget
  <2>3. CASE CycleFails /\ UNCHANGED ledger
    BY <1>11, <2>3, EndedTyped DEF TypeOK, FinishTarget, CycleFails, Watch
  <2>4. CASE ~RowGone /\ ~watch.queued
    <3>1. ledger' = [i \in Images |-> Written(i)] /\ Ended /\ NextTarget
      BY <1>11, <2>4 DEF FinishTarget
    <3>2. ledger' \in [Images -> Row]
      BY <2>4, <3>1, WrittenTyped
    <3> QED
      BY <1>11, <2>1, <3>1, <3>2, NextTyped, EndedTyped DEF TypeOK, FinishTarget
  <2> QED
    BY <1>11, <2>2, <2>3, <2>4 DEF FinishTarget
<1>12. CASE EndCycle
  BY <1>12, EndedTyped DEF TypeOK, EndCycle, Watch
<1> QED
  BY <1>1, <1>2, <1>3, <1>4, <1>5, <1>6, <1>7, <1>8, <1>9, <1>10, <1>11, <1>12
     DEF WatchStep

LEMMA JobsTyped ==
  ASSUME TypeInv, NEW k \in JobIds, JobStep(k) \/ DropJob(k)
  PROVE  TypeOK'
<1> USE DEF TypeInv, world, history
<1>1. CASE StartJob(k)
  <2>1. jobs[k] # NoJob
    BY <1>1, Standing DEF StartJob, JobAt
  <2>2. \A job \in Job : job # NoJob => [job EXCEPT !.pc = "running"] \in Job
    BY DEF Job
  <2>3. jobs' \in [JobIds -> Job]
    BY <1>1, <2>1, <2>2 DEF TypeOK, StartJob
  <2> QED
    BY <1>1, <2>3 DEF TypeOK, StartJob
<1>2. ASSUME NEW ok \in BOOLEAN, Scan(k, ok) PROVE TypeOK'
  <2>1. jobs[k] # NoJob
    BY <1>2, Standing DEF Scan, JobAt
  <2>2. \A job \in Job : job # NoJob => [job EXCEPT !.pc = "record", !.ok = ok] \in Job
    BY DEF Job
  <2>3. jobs' = [jobs EXCEPT ![k] = [jobs[k] EXCEPT !.pc = "record", !.ok = ok]]
    BY <1>2 DEF Scan, TypeOK
  <2>4. jobs' \in [JobIds -> Job]
    BY <2>1, <2>2, <2>3 DEF TypeOK
  <2>5. nexus[jobs[k].image] \in Contents \union {None}
    BY <2>1, JobImage DEF TypeOK, Digests
  <2>6. scanned' \in [Images -> SUBSET (Contents \union {None})]
    BY <1>2, <2>5 DEF TypeOK, Scan
  <2> QED
    BY <1>2, <2>4, <2>6 DEF TypeOK, Scan
<1>3. CASE RecordRead(k)
  <2>1. jobs[k] # NoJob
    BY <1>3, Standing DEF RecordRead, JobAt
  <2>2. CASE JobOver(k)
    BY <1>3, <2>1, <2>2, JobOverTyped DEF TypeOK, RecordRead
  <2>3. CASE jobs' = [jobs EXCEPT ![k].pc = "write",
                                  ![k].seen = ledger[jobs[k].image]]
    <3>1. \A job \in Job, row \in Row :
            job # NoJob => [job EXCEPT !.pc = "write", !.seen = row] \in Job
      BY DEF Job
    <3>2. ledger[jobs[k].image] \in Row
      BY <2>1, JobImage DEF TypeOK
    <3>3. jobs' = [jobs EXCEPT ![k] =
                     [jobs[k] EXCEPT !.pc = "write", !.seen = ledger[jobs[k].image]]]
      BY <2>3 DEF TypeOK
    <3>4. jobs' \in [JobIds -> Job]
      BY <2>1, <3>1, <3>2, <3>3 DEF TypeOK
    <3> QED
      BY <1>3, <3>4 DEF TypeOK, RecordRead
  <2> QED
    BY <1>3, <2>2, <2>3 DEF RecordRead
<1>4. CASE RecordWrite(k)
  <2>1. jobs[k] # NoJob
    BY <1>4, Standing DEF RecordWrite, JobAt
  <2>2. jobs' \in [JobIds -> Job]
    BY <1>4, <2>1, JobOverTyped DEF RecordWrite
  <2>3. ledger[jobs[k].image] \in Row
    BY <2>1, JobImage DEF TypeOK
  <2>4. [ledger[jobs[k].image] EXCEPT !.state = Outcome(k)] \in Row
    BY <2>3, StateTyped DEF Outcome
  <2>5. ledger' \in [Images -> Row]
    BY <1>4, <2>3, <2>4 DEF TypeOK, RecordWrite
  <2> QED
    BY <1>4, <2>2, <2>5 DEF TypeOK, RecordWrite
<1>5. CASE DropJob(k)
  <2>1. jobs[k] # NoJob
    BY <1>5, Standing DEF DropJob
  <2> QED
    BY <1>5, <2>1, JobOverTyped, CountTyped DEF TypeOK, DropJob
<1> QED
  BY <1>1, <1>2, <1>3, <1>4, <1>5 DEF JobStep

LEMMA CrashTyped == ASSUME TypeInv, Crash PROVE TypeOK'
<1> USE DEF TypeInv, world, history
<1>1. NoRow \in Row
  BY DEF Row
<1>2. \A job \in Job : job # NoJob => Over(job) \in Job
  BY <1>1 DEF Job, Over
<1>3. \A k \in JobIds :
        jobs[k].pc \in {"running", "record", "write"} => Over(jobs[k]) \in Job
  BY <1>2, Standing DEF TypeOK
<1>4. jobs' \in [JobIds -> Job]
  BY <1>3 DEF TypeOK, Crash
<1>5. Clean \in [add : Digests, digest : Digests]
  BY DEF Clean, Digests
<1> QED
  BY <1>4, <1>5, CountTyped DEF TypeOK, Crash, Request, Watch

-----------------------------------------------------------------------------
(* What everybody but the watcher does to the watcher: rows may be deleted *)
(* under it, and it is told.                                               *)

Others ==
    \/ \E i \in Images : \/ \E c \in Contents : Push(i, c)
                         \/ DeleteTag(i) \/ forget_deleted_images(i)
    \/ \E r \in Repos : \/ \E m \in Modes : Configure(r, m)
                        \/ DeleteRepo(r) \/ forget_repository(r)
    \/ \E q \in Requests : \/ \E i \in Images : Deliver(q, i) \/ Ask(q, i)
                           \/ RequestStep(q) \/ EnqueueScanFails(q)
    \/ \E k \in JobIds : JobStep(k) \/ DropJob(k)
    \/ \E S \in {{i} : i \in Images} \union {In(r) : r \in Repos} \union {Images} :
           ResetLedger(S)

StandsBy ==
    /\ UNCHANGED session
    /\ \/ UNCHANGED watch
       \/ watch # Resting /\ \E S : watch' = [watch EXCEPT !.lost = @ \union S]
    /\ \A i \in Images : ledger[i] # NoRow
          => ledger'[i] # NoRow \/ watch = Resting \/ i \in watch'.lost

LEMMA LoseStandsBy ==
  ASSUME TypeOK, NEW S \in SUBSET (Images \union Repos), Lose(S)
  PROVE  /\ \/ UNCHANGED watch
            \/ watch # Resting /\ \E T : watch' = [watch EXCEPT !.lost = @ \union T]
         /\ \A i \in S : watch = Resting \/ i \in watch'.lost
<1>1. CASE watch = Resting
  BY <1>1 DEF Lose
<1>2. CASE watch # Resting
  <2>1. watch' = [watch EXCEPT !.lost = @ \union S]
    BY <1>2 DEF Lose
  <2>2. watch'.lost = watch.lost \union S
    BY <1>2, <2>1, WatchFields DEF Watch
  <2> QED
    BY <1>2, <2>1, <2>2
<1> QED
  BY <1>1, <1>2

LEMMA OthersStandBy == ASSUME TypeInv, Others PROVE StandsBy
<1> USE DEF TypeInv, world, history
<1>0. \A row, st : st # "none" => [row EXCEPT !.state = st] # NoRow
                                  \/ row \notin Row
  BY DEF NoRow, Row, Entry
<1>1. ASSUME NEW i \in Images, NEW c \in Contents, Push(i, c) PROVE StandsBy
  BY <1>1 DEF Push, StandsBy
<1>2. ASSUME NEW i \in Images, DeleteTag(i) PROVE StandsBy
  BY <1>2 DEF DeleteTag, StandsBy
<1>3. ASSUME NEW i \in Images, forget_deleted_images(i) PROVE StandsBy
  BY <1>3, LoseStandsBy DEF forget_deleted_images, StandsBy, TypeOK
<1>4. ASSUME NEW r \in Repos, NEW m \in Modes, Configure(r, m) PROVE StandsBy
  BY <1>4, LoseStandsBy DEF Configure, StandsBy
<1>5. ASSUME NEW r \in Repos, DeleteRepo(r) PROVE StandsBy
  BY <1>5 DEF DeleteRepo, StandsBy
<1>6. ASSUME NEW r \in Repos, forget_repository(r) PROVE StandsBy
  <2>1. Lose({r} \union In(r)) /\ {r} \union In(r) \in SUBSET (Images \union Repos)
    BY <1>6 DEF forget_repository, In
  <2> QED
    BY <1>6, <2>1, LoseStandsBy DEF forget_repository, StandsBy, TypeOK
<1>7. ASSUME NEW q \in Requests, NEW i \in Images, Deliver(q, i) \/ Ask(q, i)
      PROVE  StandsBy
  BY <1>7 DEF Deliver, Ask, StandsBy
<1>8. ASSUME NEW q \in Requests, Gate(q) \/ Resolve(q) \/ Flush(q) PROVE StandsBy
  BY <1>8 DEF Gate, Resolve, Flush, StandsBy
<1>9. ASSUME NEW q \in Requests, NEW k \in JobIds, EnqueueScan(q, k) PROVE StandsBy
  BY <1>9 DEF EnqueueScan, StandsBy
<1>10. ASSUME NEW q \in Requests, EnqueueScanFails(q) PROVE StandsBy
  BY <1>10 DEF EnqueueScanFails, StandsBy
<1>11. ASSUME NEW q \in Requests, CommitScan(q) PROVE StandsBy
  <2>1. Queued(None) # NoRow
    BY DEF Queued, NoRow
  <2>2. ASSUME NEW i \in Images, ledger[i] # NoRow PROVE ledger'[i] # NoRow
    <3>1. [ledger[i] EXCEPT !.state = "queued"] # NoRow
      BY DEF NoRow
    <3>2. ledger'[i] \in {ledger[i], Queued(None),
                          [ledger[i] EXCEPT !.state = "queued"]}
      BY <1>11 DEF CommitScan, TypeOK
    <3> QED
      BY <2>1, <2>2, <3>1, <3>2
  <2> QED
    BY <1>11, <2>2 DEF CommitScan, StandsBy
<1>12. ASSUME NEW k \in JobIds, StartJob(k) \/ RecordRead(k) \/ DropJob(k)
       PROVE  StandsBy
  BY <1>12 DEF StartJob, RecordRead, DropJob, StandsBy
<1>13. ASSUME NEW k \in JobIds, NEW ok \in BOOLEAN, Scan(k, ok) PROVE StandsBy
  BY <1>13 DEF Scan, StandsBy
<1>14. ASSUME NEW k \in JobIds, RecordWrite(k) PROVE StandsBy
  <2>1. Outcome(k) # "none"
    BY DEF Outcome
  <2>2. ASSUME NEW i \in Images, ledger[i] # NoRow PROVE ledger'[i] # NoRow
    <3>1. [ledger[i] EXCEPT !.state = Outcome(k)] # NoRow
      BY <1>0, <2>1, <2>2 DEF TypeOK
    <3>2. ledger'[i] \in {ledger[i], [ledger[i] EXCEPT !.state = Outcome(k)]}
      BY <1>14 DEF RecordWrite, TypeOK
    <3> QED
      BY <2>2, <3>1, <3>2
  <2> QED
    BY <1>14, <2>2 DEF RecordWrite, StandsBy
<1>15. ASSUME NEW S, ResetLedger(S) PROVE StandsBy
  <2>1. \A i \in Images : ledger[i] # NoRow => ledger'[i] # NoRow
    BY <1>0, <1>15 DEF ResetLedger, TypeOK
  <2> QED
    BY <1>15, <2>1 DEF ResetLedger, StandsBy
<1> QED
  BY <1>1, <1>2, <1>3, <1>4, <1>5, <1>6, <1>7, <1>8, <1>9, <1>10, <1>11, <1>12,
     <1>13, <1>14, <1>15 DEF Others, RequestStep, JobStep

-----------------------------------------------------------------------------
(* WatchOK and RowsKept are kept.                                          *)

LEMMA StandsByKeeps ==
  ASSUME TypeInv, StandsBy
  PROVE  WatchOK' /\ RowsKept'
<1> USE DEF TypeInv
<1>1. CASE UNCHANGED watch
  <2>1. WatchOK'
    BY <1>1 DEF WatchOK, Visiting, Looking, Chosen
  <2>2. ASSUME NEW i \in Images PROVE DigestOK(i)' /\ KnownOK(i)'
    BY <1>1, Standing DEF StandsBy, RowsKept, DigestOK, KnownOK, There, Looking, Resting
  <2> QED
    BY <2>1, <2>2 DEF RowsKept
<1>2. ASSUME watch # Resting, NEW S, watch' = [watch EXCEPT !.lost = @ \union S]
      PROVE  WatchOK' /\ RowsKept'
  <2>1. /\ watch' # Resting
        /\ watch'.pc = watch.pc /\ watch'.todo = watch.todo
        /\ watch'.base = watch.base /\ watch'.repo = watch.repo
        /\ watch'.known = watch.known /\ watch'.left = watch.left
        /\ watch'.image = watch.image /\ watch'.lost = watch.lost \union S
    BY <1>2, WatchFields DEF Watch, Resting
  <2>2. WatchOK'
    BY <2>1 DEF WatchOK
  <2>3. ASSUME NEW i \in Images PROVE DigestOK(i)' /\ KnownOK(i)'
    BY <1>2, <2>1 DEF StandsBy, RowsKept, DigestOK, KnownOK, There
  <2> QED
    BY <2>2, <2>3 DEF RowsKept
<1> QED
  BY <1>1, <1>2 DEF StandsBy

\* With nothing in the session and no repository under visit nothing is at stake.
LEMMA EmptyKeeps ==
  ASSUME session' = Clean, watch'.pc \in {"idle", "next"}
  PROVE  WatchOK' /\ RowsKept'
BY DEF WatchOK, RowsKept, DigestOK, KnownOK, Visiting, Looking, Chosen, Clean

LEMMA CycleFailsKeeps == CycleFails => WatchOK' /\ RowsKept'
BY EmptyKeeps DEF CycleFails, Ended, Resting

\* A commit of the watcher takes no row away.
LEMMA WrittenKept ==
  ASSUME TypeInv, NEW i \in Images, ledger[i] # NoRow
  PROVE  Written(i) # NoRow
<1>1. ledger[i].state # "none"
  BY DEF TypeInv, TypeOK, Row, Entry
<1> QED
  BY <1>1 DEF Written, Queued, NoRow

LEMMA WatcherKeeps ==
  ASSUME TypeInv, WatchStep \/ EnqueueNewFails \/ \E r \in Repos : ListFails(r)
  PROVE  WatchOK' /\ RowsKept'
<1> USE DEF TypeInv, WatchAt
<1>1. CASE StartCycle
  BY <1>1, EmptyKeeps DEF StartCycle, Ended, AtNext
<1>2. ASSUME NEW r \in Repos, ListTarget(r) PROVE WatchOK' /\ RowsKept'
  <2>1. watch # Resting /\ r \in watch.todo
    BY <1>2, Standing DEF ListTarget
  <2>2. /\ watch' # Resting /\ watch'.pc = "read" /\ watch'.repo = r
        /\ watch'.todo = watch.todo \ {r} /\ watch'.lost = watch.lost
    BY <1>2, <2>1, WatchFields DEF ListTarget, Watch, Resting
  <2>3. WatchOK'
    BY <2>2 DEF WatchOK, Visiting, Looking, Chosen
  <2>4. ASSUME NEW i \in Images PROVE DigestOK(i)' /\ KnownOK(i)'
    BY <1>2, <2>1, <2>2 DEF ListTarget, RowsKept, DigestOK, KnownOK, There, Looking
  <2> QED
    BY <2>3, <2>4 DEF RowsKept
<1>3. ASSUME NEW r \in Repos, ListFails(r) PROVE WatchOK' /\ RowsKept'
  <2>1. watch # Resting
    BY <1>3, Standing DEF ListFails
  <2>2. /\ watch' # Resting /\ watch'.pc = "next"
        /\ watch'.todo = watch.todo \ {r} /\ watch'.lost = watch.lost
    BY <1>3, <2>1, WatchFields DEF ListFails, Watch, Resting
  <2>3. WatchOK'
    BY <2>2 DEF WatchOK, Visiting, Looking, Chosen
  <2>4. ASSUME NEW i \in Images PROVE DigestOK(i)' /\ KnownOK(i)'
    BY <1>3, <2>1, <2>2 DEF ListFails, RowsKept, DigestOK, KnownOK, There, Looking
  <2> QED
    BY <2>3, <2>4 DEF RowsKept
<1>4. CASE ReadKnown
  <2>1. watch # Resting /\ watch.pc = "read"
    BY <1>4, Standing DEF ReadKnown
  <2>2. /\ watch' # Resting
        /\ watch'.pc = IF watch.repo \in watch.base THEN "each" ELSE "adopt"
        /\ watch'.todo = watch.todo /\ watch'.base = watch.base
        /\ watch'.repo = watch.repo /\ watch'.known = ledger
        /\ watch'.left \subseteq In(watch.repo)
        /\ watch'.lost = watch.lost \ In(watch.repo)
    BY <1>4, <2>1, WatchFields DEF ReadKnown, Watch, Resting
  <2>3. WatchOK'
    BY <2>1, <2>2 DEF WatchOK, Visiting, Looking, Chosen
  <2>4. ASSUME NEW i \in Images PROVE DigestOK(i)' /\ KnownOK(i)'
    <3>1. DigestOK(i)'
      BY <1>4, <2>1, <2>2 DEF ReadKnown, RowsKept, DigestOK, There, In
    <3>2. KnownOK(i)'
      BY <1>4, <2>2 DEF ReadKnown, KnownOK, There
    <3> QED
      BY <3>1, <3>2
  <2> QED
    BY <2>3, <2>4 DEF RowsKept
<1>5. CASE Adopt
  <2>1. CycleFails \/ (Ended /\ NextTarget)
    BY <1>5 DEF Adopt
  <2> QED
    BY <2>1, CycleFailsKeeps, EmptyKeeps DEF Ended, NextTarget, AtNext
<1>6. ASSUME NEW i \in Images, Each(i) PROVE WatchOK' /\ RowsKept'
  <2>1. watch # Resting /\ watch.pc = "each" /\ i \in watch.left
    BY <1>6, Standing DEF Each
  <2>2. /\ watch.repo \in Repos \ watch.todo /\ watch.repo \in watch.base
        /\ watch.left \subseteq In(watch.repo)
    BY <2>1 DEF WatchOK, Visiting, Looking
  <2>3. /\ watch' # Resting /\ watch'.pc \in {"each", "flush", "enqueue"}
        /\ watch'.todo = watch.todo /\ watch'.base = watch.base
        /\ watch'.repo = watch.repo /\ watch'.known = watch.known
        /\ watch'.left = watch.left \ {i} /\ watch'.image = i
        /\ watch'.lost = watch.lost
    BY <1>6, <2>1, WatchFields DEF Each, Watch, Resting
  <2>4. WatchOK'
    BY <2>1, <2>2, <2>3 DEF WatchOK, Visiting, Looking, Chosen
  <2>5. There(i)' = There(i) /\ UNCHANGED ledger
    BY <1>6, <2>3 DEF Each, There
  <2>6. ASSUME NEW j \in Images PROVE DigestOK(j)' /\ KnownOK(j)'
    <3>1. There(j)' = There(j)
      BY <2>3, <2>5 DEF There
    <3>2. KnownOK(j)'
      BY <2>1, <2>3, <3>1 DEF RowsKept, KnownOK, Looking
    <3>3. CASE session'.digest[j] = session.digest[j]
      BY <2>1, <2>3, <3>1, <3>2, <3>3 DEF RowsKept, DigestOK
    <3>4. CASE session'.digest[j] # session.digest[j]
      <4>1. j = i /\ watch.known[i] # NoRow
        BY <1>6, <3>4 DEF Each, TypeOK, Digests
      <4>2. There(j) /\ RepoOf[j] = watch.repo
        BY <2>1, <2>2, <4>1 DEF RowsKept, KnownOK, Looking, In
      <4> QED
        BY <2>2, <2>3, <3>1, <3>2, <4>2 DEF DigestOK
    <3> QED
      BY <3>3, <3>4
  <2> QED
    BY <2>4, <2>6 DEF RowsKept
<1>7. CASE FlushNew
  <2>1. CASE CycleFails
    BY <2>1, CycleFailsKeeps
  <2>2. CASE /\ session' = [session EXCEPT !.add[watch.image] =
                                              watch.listing[watch.image]]
             /\ watch' = [watch EXCEPT !.pc = "enqueue"]
    <3>1. watch # Resting /\ watch.pc = "flush"
      BY <1>7, Standing DEF FlushNew
    <3>2. /\ watch' # Resting /\ watch'.pc = "enqueue"
          /\ watch'.todo = watch.todo /\ watch'.base = watch.base
          /\ watch'.repo = watch.repo /\ watch'.known = watch.known
          /\ watch'.left = watch.left /\ watch'.image = watch.image
          /\ watch'.lost = watch.lost
      BY <2>2, <3>1, WatchFields DEF Watch, Resting
    <3>3. session'.digest = session.digest
      BY <2>2 DEF TypeOK
    <3>4. WatchOK'
      BY <3>1, <3>2 DEF WatchOK, Visiting, Looking, Chosen
    <3>5. ASSUME NEW i \in Images PROVE DigestOK(i)' /\ KnownOK(i)'
      BY <1>7, <3>1, <3>2, <3>3 DEF FlushNew, RowsKept, DigestOK, KnownOK, There, Looking
    <3> QED
      BY <3>4, <3>5 DEF RowsKept
  <2> QED
    BY <1>7, <2>1, <2>2 DEF FlushNew
<1>8. ASSUME NEW k \in JobIds, EnqueueNew(k) PROVE WatchOK' /\ RowsKept'
  <2>1. watch # Resting /\ watch.pc = "enqueue"
    BY <1>8, Standing DEF EnqueueNew
  <2>2. /\ watch' # Resting /\ watch'.pc = "commit"
        /\ watch'.todo = watch.todo /\ watch'.base = watch.base
        /\ watch'.repo = watch.repo /\ watch'.known = watch.known
        /\ watch'.left = watch.left /\ watch'.image = watch.image
        /\ watch'.lost = watch.lost
    BY <1>8, <2>1, WatchFields DEF EnqueueNew, Watch, Resting
  <2>3. WatchOK'
    BY <2>1, <2>2 DEF WatchOK, Visiting, Looking, Chosen
  <2>4. ASSUME NEW i \in Images PROVE DigestOK(i)' /\ KnownOK(i)'
    BY <1>8, <2>1, <2>2 DEF EnqueueNew, RowsKept, DigestOK, KnownOK, There, Looking
  <2> QED
    BY <2>3, <2>4 DEF RowsKept
<1>9. CASE EnqueueNewFails
  <2>1. watch # Resting /\ watch.pc = "enqueue"
    BY <1>9, Standing DEF EnqueueNewFails
  <2>2. /\ watch' # Resting /\ watch'.pc = "next"
        /\ watch'.todo = watch.todo /\ watch'.lost = watch.lost
    BY <1>9 DEF EnqueueNewFails, NextTarget, AtNext, Resting
  <2>3. WatchOK'
    BY <2>2 DEF WatchOK, Visiting, Looking, Chosen
  <2>4. ASSUME NEW i \in Images PROVE DigestOK(i)' /\ KnownOK(i)'
    BY <1>9, <2>1, <2>2 DEF EnqueueNewFails, RowsKept, DigestOK, KnownOK, There, Looking
  <2> QED
    BY <2>3, <2>4 DEF RowsKept
<1>10. CASE CommitNew
  <2>1. CASE CycleFails
    BY <2>1, CycleFailsKeeps
  <2>2. CASE /\ ledger' = [i \in Images |-> Written(i)]
             /\ watch' = [watch EXCEPT !.pc = "each"]
             /\ Ended
    <3>1. watch # Resting /\ watch.pc = "commit"
      BY <1>10, Standing DEF CommitNew
    <3>2. /\ watch' # Resting /\ watch'.pc = "each"
          /\ watch'.todo = watch.todo /\ watch'.base = watch.base
          /\ watch'.repo = watch.repo /\ watch'.known = watch.known
          /\ watch'.left = watch.left /\ watch'.lost = watch.lost
      BY <2>2, <3>1, WatchFields DEF Watch, Resting
    <3>3. WatchOK'
      BY <3>1, <3>2 DEF WatchOK, Visiting, Looking, Chosen
    <3>4. ASSUME NEW i \in Images PROVE DigestOK(i)' /\ KnownOK(i)'
      <4>1. DigestOK(i)'
        BY <2>2 DEF Ended, Clean, DigestOK
      <4>2. There(i) => There(i)'
        BY <2>2, <3>2, WrittenKept DEF There
      <4>3. KnownOK(i)'
        BY <3>1, <3>2, <4>2 DEF RowsKept, KnownOK, Looking
      <4> QED
        BY <4>1, <4>3
    <3> QED
      BY <3>3, <3>4 DEF RowsKept
  <2> QED
    BY <1>10, <2>1, <2>2 DEF CommitNew
<1>11. CASE FinishTarget
  <2>1. CASE CycleFails
    BY <2>1, CycleFailsKeeps
  <2>2. CASE Ended /\ NextTarget
    BY <2>2, EmptyKeeps DEF Ended, NextTarget, AtNext
  <2>3. CASE NextTarget /\ UNCHANGED <<ledger, session>>
    <3>1. watch # Resting /\ watch.pc = "each"
      BY <1>11, Standing DEF FinishTarget
    <3>2. /\ watch' # Resting /\ watch'.pc = "next"
          /\ watch'.todo = watch.todo /\ watch'.lost = watch.lost
      BY <2>3 DEF NextTarget, AtNext, Resting
    <3>3. WatchOK'
      BY <3>2 DEF WatchOK, Visiting, Looking, Chosen
    <3>4. ASSUME NEW i \in Images PROVE DigestOK(i)' /\ KnownOK(i)'
      BY <2>3, <3>1, <3>2 DEF RowsKept, DigestOK, KnownOK, There, Looking
    <3> QED
      BY <3>3, <3>4 DEF RowsKept
  <2> QED
    BY <1>11, <2>1, <2>2, <2>3 DEF FinishTarget
<1>12. CASE EndCycle
  BY <1>12, EmptyKeeps DEF EndCycle, Ended, Resting
<1> QED
  BY <1>1, <1>2, <1>3, <1>4, <1>5, <1>6, <1>7, <1>8, <1>9, <1>10, <1>11, <1>12
     DEF WatchStep

\* The steps, by who takes them.
LEMMA StepCases ==
  ASSUME [Next]_vars
  PROVE  \/ Others
         \/ WatchStep \/ EnqueueNewFails \/ \E r \in Repos : ListFails(r)
         \/ Crash
         \/ UNCHANGED vars
BY DEF Next, Others

LEMMA StepTyped == TypeInv /\ [Next]_vars => TypeInv'
<1> SUFFICES ASSUME TypeInv, [Next]_vars PROVE TypeInv'
  OBVIOUS
<1>1. CASE Others
  <2>1. TypeOK'
    BY <1>1, WorldTyped, RequestsTyped, JobsTyped DEF Others
  <2> QED
    BY <1>1, <2>1, OthersStandBy, StandsByKeeps DEF TypeInv
<1>2. CASE WatchStep \/ EnqueueNewFails \/ \E r \in Repos : ListFails(r)
  BY <1>2, WatcherTyped, WatcherKeeps DEF TypeInv
<1>3. CASE Crash
  <2>1. WatchOK' /\ RowsKept'
    BY <1>3, EmptyKeeps DEF Crash, Resting
  <2> QED
    BY <1>3, <2>1, CrashTyped DEF TypeInv
<1>4. CASE UNCHANGED vars
  <2>1. TypeOK'
    BY <1>4 DEF vars, world, history, TypeInv, TypeOK
  <2>2. StandsBy
    BY <1>4 DEF vars, StandsBy
  <2> QED
    BY <2>1, <2>2, StandsByKeeps DEF TypeInv
<1> QED
  BY <1>1, <1>2, <1>3, <1>4, StepCases

\* Every variable keeps its type.  What has to be argued is that a commit of
\* the watcher writes proper rows: it writes a digest into a row it read some
\* steps ago, and a delete may have taken that row away in between.
THEOREM TypeInvCorrect == Spec => []TypeInv
BY InitTyped, StepTyped, PTL DEF Spec

\* Every variable keeps its type.
THEOREM TypeCorrect == Spec => []TypeOK
<1>1. TypeInv => TypeOK
  BY DEF TypeInv
<1> QED
  BY <1>1, TypeInvCorrect, PTL

-----------------------------------------------------------------------------
(* Nothing is scanned on its own in a repository that was never baselined. *)

ObservedInv == TypeInv /\ ObservedOK /\ NoScanBeforeBaseline

\* Jobs keep their image and the reason they were queued for, and none is new.
JobsStay ==
    \A k \in JobIds : jobs'[k] # NoJob =>
        /\ jobs[k] # NoJob
        /\ jobs'[k].image = jobs[k].image
        /\ jobs'[k].source = jobs[k].source

\* Requests keep their image and source, none is new and none passes the gate.
RequestsStay ==
    \A q \in Requests : req'[q] # Idle =>
        /\ req[q] # Idle
        /\ req'[q].image = req[q].image
        /\ req'[q].source = req[q].source
        /\ req[q].pc = "gate" => req'[q].pc = "gate"

LEMMA InitObserved == Init => ObservedOK /\ NoScanBeforeBaseline
BY DEF Init, ObservedOK, NoScanBeforeBaseline, Unprompted, NoJob, Resting, Idle

LEMMA JobsStayObserved ==
  ASSUME TypeOK, NoScanBeforeBaseline, JobsStay, observed \subseteq observed'
  PROVE  NoScanBeforeBaseline'
BY DEF NoScanBeforeBaseline, Unprompted, JobsStay

LEMMA NewJobObserved ==
  ASSUME TypeOK, NoScanBeforeBaseline, NEW k \in JobIds, NEW i \in Images, NEW source,
         NewJob(k, i, source), source # "manual" => RepoOf[i] \in observed
  PROVE  NoScanBeforeBaseline'
<1>1. \A j \in JobIds \ {k} : jobs'[j] = jobs[j]
  BY DEF NewJob, TypeOK
<1>2. jobs'[k].image = i /\ jobs'[k].source = source
  BY DEF NewJob, TypeOK
<1>3. observed' = observed
  BY DEF NewJob
<1> QED
  BY <1>1, <1>2, <1>3 DEF NoScanBeforeBaseline, Unprompted

LEMMA RequestsStayObserved ==
  ASSUME TypeOK, ObservedOK, RequestsStay, NEW q \in Requests,
         req'[q] # Idle, req'[q].source = "webhook", req'[q].pc # "gate"
  PROVE  RepoOf[req'[q].image] \in observed
BY DEF ObservedOK, RequestsStay

LEMMA LoseStays ==
  ASSUME TypeOK, NEW S, Lose(S)
  PROVE  JobsStay /\ RequestsStay /\ (watch' # Resting => watch'.base = watch.base)
<1>1. \A job \in Job : job # NoJob => /\ [job EXCEPT !.lost = TRUE].image = job.image
                                      /\ [job EXCEPT !.lost = TRUE].source = job.source
  BY DEF Job
<1>2. \A r \in Request : r # Idle => /\ [r EXCEPT !.lost = TRUE].image = r.image
                                     /\ [r EXCEPT !.lost = TRUE].source = r.source
                                     /\ [r EXCEPT !.lost = TRUE].pc = r.pc
  BY DEF Request
<1>3. JobsStay
  BY <1>1 DEF Lose, JobsStay, TypeOK
<1>4. RequestsStay
  BY <1>2 DEF Lose, RequestsStay, TypeOK
<1>5. watch' # Resting => watch'.base = watch.base
  <2>1. \A w \in Watch : w # Resting => [w EXCEPT !.lost = @ \union S].base = w.base
    BY DEF Watch
  <2> QED
    BY <2>1 DEF Lose, TypeOK
<1> QED
  BY <1>3, <1>4, <1>5

LEMMA JobOverStays ==
  ASSUME TypeOK, NEW k \in JobIds, jobs[k] # NoJob, JobOver(k)
  PROVE  JobsStay
<1>1. \A job \in Job : job # NoJob => /\ Over(job).image = job.image
                                      /\ Over(job).source = job.source
  BY DEF Job, Over
<1> QED
  BY <1>1 DEF JobOver, JobsStay, TypeOK

\* A step that neither starts nor advances anything and baselines nothing.
LEMMA QuietObserved ==
  ASSUME ObservedInv, JobsStay, RequestsStay, UNCHANGED observed,
         watch' # Resting => watch # Resting /\ watch'.base = watch.base,
         \A r \in Repos : target'[r].baselined => target[r].baselined
  PROVE  ObservedOK' /\ NoScanBeforeBaseline'
<1>1. NoScanBeforeBaseline'
  BY JobsStayObserved DEF ObservedInv, TypeInv
<1>2. \A q \in Requests :
        req'[q] # Idle /\ req'[q].source = "webhook" /\ req'[q].pc # "gate"
          => RepoOf[req'[q].image] \in observed
  BY RequestsStayObserved DEF ObservedInv, TypeInv
<1> QED
  BY <1>1, <1>2 DEF ObservedOK, ObservedInv

LEMMA WorldObserved ==
  ASSUME ObservedInv,
         \/ \E i \in Images : \/ \E c \in Contents : Push(i, c)
                            \/ DeleteTag(i) \/ forget_deleted_images(i)
         \/ \E r \in Repos : \/ \E m \in Modes : Configure(r, m)
                           \/ DeleteRepo(r) \/ forget_repository(r)
         \/ \E S \in {{i} : i \in Images} \union {In(r) : r \in Repos}
                      \union {Images} : ResetLedger(S)
  PROVE  ObservedOK' /\ NoScanBeforeBaseline'
<1> USE DEF history, TypeInv
<1>1. ASSUME \/ \E i \in Images : (\E c \in Contents : Push(i, c)) \/ DeleteTag(i)
             \/ \E r \in Repos : DeleteRepo(r)
             \/ \E S : ResetLedger(S)
      PROVE  ObservedOK' /\ NoScanBeforeBaseline'
  <2>1. UNCHANGED <<jobs, req, watch, target, observed>>
    BY <1>1 DEF Push, DeleteTag, DeleteRepo, ResetLedger
  <2> QED
    BY <2>1, QuietObserved DEF JobsStay, RequestsStay
<1>2. ASSUME NEW i \in Images, forget_deleted_images(i)
      PROVE  ObservedOK' /\ NoScanBeforeBaseline'
  <2>1. Lose({i}) /\ UNCHANGED <<target, observed>>
    BY <1>2 DEF forget_deleted_images
  <2>2. watch' # Resting => watch # Resting
    BY <2>1 DEF Lose
  <2> QED
    BY <2>1, <2>2, LoseStays, QuietObserved DEF ObservedInv
<1>3. ASSUME NEW r \in Repos, NEW m \in Modes, Configure(r, m)
      PROVE  ObservedOK' /\ NoScanBeforeBaseline'
  <2>1. \A s \in Repos : target'[s].baselined => target[s].baselined
    BY <1>3 DEF Configure, ObservedInv, TypeOK
  <2>2. UNCHANGED observed
    BY <1>3 DEF Configure
  <2>3. CASE m = "none"
    <3>1. Lose({r})
      BY <1>3, <2>3 DEF Configure
    <3>2. watch' # Resting => watch # Resting
      BY <3>1 DEF Lose
    <3> QED
      BY <2>1, <2>2, <3>1, <3>2, LoseStays, QuietObserved DEF ObservedInv
  <2>4. CASE m # "none"
    <3>1. UNCHANGED <<watch, req, jobs>>
      BY <1>3, <2>4 DEF Configure
    <3> QED
      BY <2>1, <2>2, <3>1, QuietObserved DEF JobsStay, RequestsStay
  <2> QED
    BY <2>3, <2>4
<1>4. ASSUME NEW r \in Repos, forget_repository(r)
      PROVE  ObservedOK' /\ NoScanBeforeBaseline'
  <2>1. Lose({r} \union In(r)) /\ UNCHANGED observed
    BY <1>4 DEF forget_repository
  <2>2. \A s \in Repos : target'[s].baselined => target[s].baselined
    BY <1>4 DEF forget_repository, ObservedInv, TypeOK
  <2>3. watch' # Resting => watch # Resting
    BY <2>1 DEF Lose
  <2> QED
    BY <2>1, <2>2, <2>3, LoseStays, QuietObserved DEF ObservedInv
<1> QED
  BY <1>1, <1>2, <1>3, <1>4

LEMMA GotoMoves ==
  ASSUME TypeOK, NEW q \in Requests, req[q] # Idle, NEW pc, Goto(q, pc)
  PROVE  /\ \A p \in Requests \ {q} : req'[p] = req[p]
         /\ req'[q].image = req[q].image
         /\ req'[q].source = req[q].source
         /\ req'[q].pc = pc
<1>1. \A r \in Request : r # Idle => /\ [r EXCEPT !.pc = pc].image = r.image
                                     /\ [r EXCEPT !.pc = pc].source = r.source
                                     /\ [r EXCEPT !.pc = pc].pc = pc
  BY DEF Request
<1> QED
  BY <1>1 DEF Goto, TypeOK

LEMMA GotoStays ==
  ASSUME TypeOK, NEW q \in Requests, req[q] # Idle, req[q].pc # "gate", NEW pc,
         Goto(q, pc)
  PROVE  RequestsStay
BY GotoMoves DEF RequestsStay

LEMMA LeaveStays == ASSUME TypeOK, NEW q \in Requests, Leave(q) PROVE RequestsStay
BY DEF Leave, RequestsStay, TypeOK

\* Only the gate lets a webhook request go on to the ledger, and only where the
\* target is baselined.
LEMMA RequestsObserved ==
  ASSUME ObservedInv, NEW q \in Requests,
         \/ \E i \in Images : Deliver(q, i) \/ Ask(q, i)
         \/ RequestStep(q) \/ EnqueueScanFails(q)
  PROVE  ObservedOK' /\ NoScanBeforeBaseline'
<1> USE DEF history
<1>0. TypeOK /\ ObservedOK /\ NoScanBeforeBaseline
  BY DEF ObservedInv, TypeInv
<1>1. ASSUME NEW i \in Images, Deliver(q, i) \/ Ask(q, i)
      PROVE  ObservedOK' /\ NoScanBeforeBaseline'
  <2>1. UNCHANGED <<target, watch, jobs, observed>>
    BY <1>1 DEF Deliver, Ask
  <2>2. \A p \in Requests \ {q} : req'[p] = req[p]
    BY <1>0, <1>1 DEF Deliver, Ask, TypeOK
  <2>3. req'[q].pc = "gate" \/ req'[q].source = "manual"
    BY <1>0, <1>1 DEF Deliver, Ask, TypeOK
  <2>4. ObservedOK'
    BY <1>0, <2>1, <2>2, <2>3 DEF ObservedOK
  <2>5. JobsStay
    BY <2>1 DEF JobsStay
  <2> QED
    BY <1>0, <2>1, <2>4, <2>5, JobsStayObserved
<1>2. ASSUME Gate(q) PROVE ObservedOK' /\ NoScanBeforeBaseline'
  <2>1. UNCHANGED <<target, watch, jobs, observed>>
    BY <1>2 DEF Gate
  <2>2. req[q] # Idle /\ req[q].image \in Images
    BY <1>0, <1>2, Standing, RequestImage DEF Gate
  <2>3. CASE Leave(q)
    <3>1. RequestsStay
      BY <1>0, <2>3, LeaveStays
    <3> QED
      BY <2>1, <3>1, QuietObserved DEF JobsStay
  <2>4. CASE Goto(q, "resolve") /\ target[RepoOf[req[q].image]].baselined
    <3>1. RepoOf[req[q].image] \in observed
      BY <1>0, <2>2, <2>4, ImagesAssumption DEF ObservedOK
    <3>2. \A p \in Requests \ {q} : req'[p] = req[p]
      BY <1>0, <2>2, <2>4, GotoMoves
    <3>3. req'[q].image = req[q].image
      BY <1>0, <2>2, <2>4, GotoMoves
    <3>4. ObservedOK'
      BY <1>0, <2>1, <3>1, <3>2, <3>3 DEF ObservedOK
    <3>5. JobsStay
      BY <2>1 DEF JobsStay
    <3> QED
      BY <1>0, <2>1, <3>4, <3>5, JobsStayObserved
  <2> QED
    BY <1>2, <2>3, <2>4 DEF Gate
<1>3. ASSUME Resolve(q) PROVE ObservedOK' /\ NoScanBeforeBaseline'
  <2>1. UNCHANGED <<target, watch, jobs, observed>>
    BY <1>3 DEF Resolve
  <2>2. req[q] # Idle /\ req[q].pc # "gate"
    BY <1>3, Standing DEF Resolve
  <2>3. RequestsStay
    <3>1. CASE Goto(q, "flush")
      BY <1>0, <2>2, <3>1, GotoStays
    <3>2. CASE Leave(q)
      BY <1>0, <3>2, LeaveStays
    <3>3. CASE req' = [req EXCEPT ![q].pc = "enqueue", ![q].seen = ledger[req[q].image]]
      <4>1. \A r \in Request : \A row :
              r # Idle => /\ [r EXCEPT !.pc = "enqueue", !.seen = row].image = r.image
                          /\ [r EXCEPT !.pc = "enqueue", !.seen = row].source = r.source
        BY DEF Request
      <4>2. req' = [req EXCEPT ![q] =
                       [req[q] EXCEPT !.pc = "enqueue", !.seen = ledger[req[q].image]]]
        BY <1>0, <3>3 DEF TypeOK
      <4> QED
        BY <1>0, <2>2, <4>1, <4>2 DEF RequestsStay, TypeOK
    <3> QED
      BY <1>3, <3>1, <3>2, <3>3 DEF Resolve
  <2> QED
    BY <2>1, <2>3, QuietObserved DEF JobsStay
<1>4. ASSUME Flush(q) \/ CommitScan(q) PROVE ObservedOK' /\ NoScanBeforeBaseline'
  <2>1. UNCHANGED <<target, watch, jobs, observed>>
    BY <1>4 DEF Flush, CommitScan
  <2>2. req[q] # Idle /\ req[q].pc # "gate"
    BY <1>4, Standing DEF Flush, CommitScan
  <2>3. RequestsStay
    BY <1>0, <1>4, <2>2, GotoStays, LeaveStays DEF Flush, CommitScan
  <2> QED
    BY <2>1, <2>3, QuietObserved DEF JobsStay
<1>5. ASSUME NEW k \in JobIds, NewJob(k, req[q].image, req[q].source),
             req[q].pc = "enqueue", RequestsStay, UNCHANGED <<target, watch>>
      PROVE  ObservedOK' /\ NoScanBeforeBaseline'
  <2>1. /\ req[q] # Idle /\ req[q].image \in Images
        /\ req[q].source \in {"webhook", "manual"}
    BY <1>0, <1>5, Standing, RequestImage
  <2>2. req[q].source # "manual" => RepoOf[req[q].image] \in observed
    BY <1>0, <1>5, <2>1 DEF ObservedOK
  <2>3. NoScanBeforeBaseline'
    BY <1>0, <1>5, <2>1, <2>2, NewJobObserved
  <2>4. UNCHANGED observed
    BY <1>5 DEF NewJob
  <2>5. \A p \in Requests :
          req'[p] # Idle /\ req'[p].source = "webhook" /\ req'[p].pc # "gate"
            => RepoOf[req'[p].image] \in observed
    BY <1>0, <1>5, RequestsStayObserved
  <2> QED
    BY <1>0, <1>5, <2>3, <2>4, <2>5 DEF ObservedOK
<1>6. ASSUME NEW k \in JobIds, EnqueueScan(q, k)
      PROVE  ObservedOK' /\ NoScanBeforeBaseline'
  <2>1. RequestsStay
    BY <1>0, <1>6, Standing, GotoStays DEF EnqueueScan
  <2> QED
    BY <1>5, <1>6, <2>1 DEF EnqueueScan
<1>7. ASSUME EnqueueScanFails(q) PROVE ObservedOK' /\ NoScanBeforeBaseline'
  <2>1. RequestsStay /\ UNCHANGED <<target, watch>> /\ req[q].pc = "enqueue"
    BY <1>0, <1>7, LeaveStays DEF EnqueueScanFails
  <2>2. CASE UNCHANGED <<jobs, history>>
    BY <2>1, <2>2, QuietObserved DEF JobsStay
  <2> QED
    BY <1>5, <1>7, <2>1, <2>2 DEF EnqueueScanFails
<1> QED
  BY <1>1, <1>2, <1>3, <1>4, <1>6, <1>7 DEF RequestStep

\* The watcher queues scans only in a repository that had a baseline when the
\* cycle began, whatever became of the target since.
LEMMA WatcherObserved ==
  ASSUME ObservedInv, WatchStep \/ EnqueueNewFails \/ \E r \in Repos : ListFails(r)
  PROVE  ObservedOK' /\ NoScanBeforeBaseline'
<1> USE DEF history, WatchAt
<1>0. TypeOK /\ WatchOK /\ ObservedOK /\ NoScanBeforeBaseline
  BY DEF ObservedInv, TypeInv
<1>1. ASSUME UNCHANGED <<target, req, jobs, observed>>,
             watch' # Resting => watch # Resting /\ watch'.base = watch.base
      PROVE  ObservedOK' /\ NoScanBeforeBaseline'
  BY <1>1, QuietObserved DEF JobsStay, RequestsStay
<1>2. NextTarget => watch'.base = watch.base
  BY DEF NextTarget, AtNext
<1>3. CASE StartCycle
  <2>1. UNCHANGED <<target, req, jobs, observed>>
    BY <1>3 DEF StartCycle
  <2>2. watch'.base \subseteq {r \in Repos : target[r].baselined}
    BY <1>3 DEF StartCycle, AtNext
  <2>3. ObservedOK'
    BY <1>0, <2>1, <2>2 DEF ObservedOK
  <2>4. JobsStay
    BY <2>1 DEF JobsStay
  <2> QED
    BY <1>0, <2>1, <2>3, <2>4, JobsStayObserved
<1>4. ASSUME NEW r \in Repos, ListTarget(r) \/ ListFails(r)
      PROVE  ObservedOK' /\ NoScanBeforeBaseline'
  <2>1. watch # Resting
    BY <1>4, Standing DEF ListTarget, ListFails
  <2>2. watch'.base = watch.base
    BY <1>0, <1>4, <2>1, WatchFields DEF ListTarget, ListFails, Watch
  <2>3. UNCHANGED <<target, req, jobs, observed>>
    BY <1>4 DEF ListTarget, ListFails
  <2> QED
    BY <1>1, <2>1, <2>2, <2>3
<1>5. CASE ReadKnown
  <2>1. watch # Resting
    BY <1>5, Standing DEF ReadKnown
  <2>2. watch'.base = watch.base
    BY <1>0, <1>5, <2>1, WatchFields DEF ReadKnown, Watch
  <2>3. UNCHANGED <<target, req, jobs, observed>>
    BY <1>5 DEF ReadKnown
  <2> QED
    BY <1>1, <2>1, <2>2, <2>3
<1>6. CASE Adopt
  <2>1. watch # Resting /\ watch.repo \in Repos /\ UNCHANGED <<req, jobs>>
    BY <1>0, <1>6, Standing DEF Adopt, WatchOK, Visiting
  <2>2. CASE CycleFails /\ UNCHANGED <<ledger, target, observed>>
    BY <1>1, <2>1, <2>2 DEF CycleFails
  <2>3. CASE /\ target' = [target EXCEPT ![watch.repo].baselined = TRUE]
             /\ observed' = observed \union {watch.repo}
             /\ NextTarget
    <3>1. \A r \in Repos : target'[r].baselined => r \in observed'
      BY <1>0, <2>1, <2>3 DEF ObservedOK, TypeOK
    <3>2. ObservedOK'
      BY <1>0, <1>2, <2>1, <2>3, <3>1 DEF ObservedOK
    <3>3. JobsStay
      BY <2>1 DEF JobsStay
    <3> QED
      BY <1>0, <2>3, <3>2, <3>3, JobsStayObserved
  <2> QED
    BY <1>6, <2>2, <2>3 DEF Adopt
<1>7. ASSUME NEW i \in Images, Each(i) PROVE ObservedOK' /\ NoScanBeforeBaseline'
  <2>1. watch # Resting
    BY <1>7, Standing DEF Each
  <2>2. watch'.base = watch.base
    BY <1>0, <1>7, <2>1, WatchFields DEF Each, Watch
  <2>3. UNCHANGED <<target, req, jobs, observed>>
    BY <1>7 DEF Each
  <2> QED
    BY <1>1, <2>1, <2>2, <2>3
<1>8. CASE FlushNew
  <2>1. watch # Resting /\ UNCHANGED <<target, req, jobs, observed>>
    BY <1>8, Standing DEF FlushNew
  <2>2. watch' # Resting => watch'.base = watch.base
    BY <1>0, <1>8, <2>1, WatchFields DEF FlushNew, CycleFails, Watch
  <2> QED
    BY <1>1, <2>1, <2>2
<1>9. ASSUME NEW k \in JobIds, NewJob(k, watch.image, "push"), WatchAt("enqueue"),
             watch'.base = watch.base, UNCHANGED <<target, req>>
      PROVE  ObservedOK' /\ NoScanBeforeBaseline'
  <2>1. watch # Resting
    BY <1>9, Standing
  <2>2. watch.image \in In(watch.repo) /\ watch.repo \in watch.base
    BY <1>0, <1>9 DEF WatchOK, Looking, Chosen
  <2>3. watch.image \in Images /\ RepoOf[watch.image] \in observed
    BY <1>0, <2>1, <2>2 DEF ObservedOK, In
  <2>4. NoScanBeforeBaseline'
    BY <1>0, <1>9, <2>3, NewJobObserved
  <2>5. UNCHANGED observed
    BY <1>9 DEF NewJob
  <2> QED
    BY <1>0, <1>9, <2>1, <2>4, <2>5 DEF ObservedOK
<1>10. ASSUME NEW k \in JobIds, EnqueueNew(k) PROVE ObservedOK' /\ NoScanBeforeBaseline'
  <2>1. watch # Resting
    BY <1>10, Standing DEF EnqueueNew
  <2>2. watch'.base = watch.base
    BY <1>0, <1>10, <2>1, WatchFields DEF EnqueueNew, Watch
  <2> QED
    BY <1>9, <1>10, <2>2 DEF EnqueueNew
<1>11. CASE EnqueueNewFails
  <2>1. watch # Resting /\ watch'.base = watch.base /\ UNCHANGED <<target, req>>
    BY <1>2, <1>11, Standing DEF EnqueueNewFails
  <2>2. CASE UNCHANGED <<jobs, history>>
    BY <1>1, <2>1, <2>2
  <2> QED
    BY <1>9, <1>11, <2>1, <2>2 DEF EnqueueNewFails
<1>12. CASE CommitNew
  <2>1. watch # Resting /\ UNCHANGED <<target, req, jobs, observed>>
    BY <1>12, Standing DEF CommitNew
  <2>2. watch' # Resting => watch'.base = watch.base
    BY <1>0, <1>12, <2>1, WatchFields DEF CommitNew, CycleFails, Watch
  <2> QED
    BY <1>1, <2>1, <2>2
<1>13. CASE FinishTarget
  <2>1. watch # Resting /\ UNCHANGED <<target, req, jobs, observed>>
    BY <1>13, Standing DEF FinishTarget
  <2>2. watch' # Resting => watch'.base = watch.base
    BY <1>2, <1>13 DEF FinishTarget, CycleFails
  <2> QED
    BY <1>1, <2>1, <2>2
<1>14. CASE EndCycle
  BY <1>1, <1>14 DEF EndCycle
<1> QED
  BY <1>3, <1>4, <1>5, <1>6, <1>7, <1>8, <1>10, <1>11, <1>12, <1>13, <1>14
     DEF WatchStep

LEMMA JobsObserved ==
  ASSUME ObservedInv, NEW k \in JobIds, JobStep(k) \/ DropJob(k)
  PROVE  ObservedOK' /\ NoScanBeforeBaseline'
<1> USE DEF history
<1>0. TypeOK
  BY DEF ObservedInv, TypeInv
<1>1. jobs[k] # NoJob
  BY Standing DEF JobStep, StartJob, Scan, RecordRead, RecordWrite, DropJob, JobAt
<1>2. UNCHANGED <<target, req, watch, observed>>
  BY DEF JobStep, StartJob, Scan, RecordRead, RecordWrite, DropJob
<1>3. JobsStay
  <2>1. CASE JobOver(k)
    BY <1>0, <1>1, <2>1, JobOverStays
  <2>2. CASE StartJob(k)
    <3>1. \A job \in Job :
            job # NoJob => /\ [job EXCEPT !.pc = "running"].image = job.image
                           /\ [job EXCEPT !.pc = "running"].source = job.source
      BY DEF Job
    <3> QED
      BY <1>0, <1>1, <2>2, <3>1 DEF StartJob, JobsStay, TypeOK
  <2>3. ASSUME NEW ok \in BOOLEAN, Scan(k, ok) PROVE JobsStay
    <3>1. \A job \in Job :
            job # NoJob =>
              /\ [job EXCEPT !.pc = "record", !.ok = ok].image = job.image
              /\ [job EXCEPT !.pc = "record", !.ok = ok].source = job.source
      BY DEF Job
    <3>2. jobs' = [jobs EXCEPT ![k] = [jobs[k] EXCEPT !.pc = "record", !.ok = ok]]
      BY <1>0, <2>3 DEF Scan, TypeOK
    <3> QED
      BY <1>0, <1>1, <3>1, <3>2 DEF JobsStay, TypeOK
  <2>4. CASE jobs' = [jobs EXCEPT ![k].pc = "write",
                                  ![k].seen = ledger[jobs[k].image]]
    <3>1. \A job \in Job : \A row :
            job # NoJob =>
              /\ [job EXCEPT !.pc = "write", !.seen = row].image = job.image
              /\ [job EXCEPT !.pc = "write", !.seen = row].source = job.source
      BY DEF Job
    <3>2. jobs' = [jobs EXCEPT ![k] =
                     [jobs[k] EXCEPT !.pc = "write", !.seen = ledger[jobs[k].image]]]
      BY <1>0, <2>4 DEF TypeOK
    <3> QED
      BY <1>0, <1>1, <3>1, <3>2 DEF JobsStay, TypeOK
  <2> QED
    BY <2>1, <2>2, <2>3, <2>4 DEF JobStep, RecordRead, RecordWrite, DropJob
<1> QED
  BY <1>2, <1>3, QuietObserved DEF RequestsStay

LEMMA CrashObserved ==
  ASSUME ObservedInv, Crash PROVE ObservedOK' /\ NoScanBeforeBaseline'
<1> USE DEF history
<1>0. TypeOK
  BY DEF ObservedInv, TypeInv
<1>1. \A job \in Job : job # NoJob => /\ Over(job).image = job.image
                                      /\ Over(job).source = job.source
  BY DEF Job, Over
<1>2. JobsStay
  BY <1>0, <1>1, Standing DEF Crash, JobsStay, TypeOK
<1>3. RequestsStay
  BY DEF Crash, RequestsStay
<1> QED
  BY <1>2, <1>3, QuietObserved DEF Crash

LEMMA StepObserved == ObservedInv /\ [Next]_vars => ObservedInv'
<1> SUFFICES ASSUME ObservedInv, [Next]_vars PROVE ObservedOK' /\ NoScanBeforeBaseline'
  BY StepTyped DEF ObservedInv
<1>1. CASE Others
  BY <1>1, WorldObserved, RequestsObserved, JobsObserved DEF Others
<1>2. CASE WatchStep \/ EnqueueNewFails \/ \E r \in Repos : ListFails(r)
  BY <1>2, WatcherObserved
<1>3. CASE Crash
  BY <1>3, CrashObserved
<1>4. CASE UNCHANGED vars
  BY <1>4, QuietObserved DEF vars, history, JobsStay, RequestsStay
<1> QED
  BY <1>1, <1>2, <1>3, <1>4, StepCases

\* Before a repository has a baseline nothing in it is scanned on its own: not
\* by a webhook that passed the gate and goes on after the target was switched
\* off, deleted or created anew, and not by a watcher cycle that still works
\* with the targets it read at its start.
THEOREM NoScanBeforeBaselineCorrect == Spec => []NoScanBeforeBaseline
<1>1. Init => ObservedInv
  BY InitTyped, InitObserved DEF ObservedInv
<1>2. ObservedInv => NoScanBeforeBaseline
  BY DEF ObservedInv
<1> QED
  BY <1>1, <1>2, StepObserved, PTL DEF Spec

-----------------------------------------------------------------------------
(* "scanned" was earned.                                                   *)

HasContent(S) == S \ {None} # {}

\* A job that is about to record a success has had a scanner at its image.
JobsEarned == \A k \in JobIds : jobs[k] # NoJob /\ jobs[k].ok => HasContent(scanned[jobs[k].image])

EarnedInv == TypeInv /\ JobsEarned /\ ScannedIsEarned

\* No success is added, neither to the ledger nor to a job.
AddsNoSuccess ==
    /\ \A i \in Images : ledger'[i].state = "scanned" => ledger[i].state = "scanned"
    /\ \A k \in JobIds : jobs'[k] # NoJob /\ jobs'[k].ok =>
           /\ jobs[k] # NoJob /\ jobs[k].ok
           /\ jobs'[k].image = jobs[k].image
    /\ \A i \in Images : scanned[i] \subseteq scanned'[i]

LEMMA InitEarned == Init => JobsEarned /\ ScannedIsEarned
BY DEF Init, JobsEarned, ScannedIsEarned, NoJob, NoRow

LEMMA NoSuccessEarned ==
  ASSUME EarnedInv, AddsNoSuccess
  PROVE  JobsEarned' /\ ScannedIsEarned'
<1> USE DEF EarnedInv, AddsNoSuccess
<1>1. \A i \in Images : HasContent(scanned[i]) => HasContent(scanned'[i])
  BY DEF HasContent
<1>2. ScannedIsEarned'
  BY <1>1 DEF ScannedIsEarned, HasContent
<1>3. ASSUME NEW k \in JobIds, jobs'[k] # NoJob, jobs'[k].ok PROVE HasContent(scanned'[jobs'[k].image])
  <2>1. jobs[k] # NoJob /\ jobs[k].ok /\ jobs'[k].image = jobs[k].image
    BY <1>3
  <2>2. jobs[k].image \in Images /\ HasContent(scanned[jobs[k].image])
    BY <2>1, JobImage DEF TypeInv, JobsEarned
  <2> QED
    BY <1>1, <2>1, <2>2 DEF HasContent
<1> QED
  BY <1>2, <1>3 DEF JobsEarned, HasContent

LEMMA LoseAddsNone ==
  ASSUME TypeOK, NEW S, Lose(S), NEW k \in JobIds, jobs'[k] # NoJob, jobs'[k].ok
  PROVE  jobs[k] # NoJob /\ jobs[k].ok /\ jobs'[k].image = jobs[k].image
<1>1. \A job \in Job : job # NoJob => /\ [job EXCEPT !.lost = TRUE].image = job.image
                                      /\ [job EXCEPT !.lost = TRUE].ok = job.ok
  BY DEF Job
<1> QED
  BY <1>1 DEF Lose, TypeOK

LEMMA WorldAddsNone ==
  ASSUME TypeInv,
         \/ \E i \in Images : \/ \E c \in Contents : Push(i, c)
                              \/ DeleteTag(i) \/ forget_deleted_images(i)
         \/ \E r \in Repos : \/ \E m \in Modes : Configure(r, m)
                             \/ DeleteRepo(r) \/ forget_repository(r)
         \/ \E S : ResetLedger(S)
  PROVE  AddsNoSuccess
<1> USE DEF TypeInv, history, world
<1>1. UNCHANGED scanned
  BY DEF Push, DeleteTag, forget_deleted_images, Configure, DeleteRepo, forget_repository,
         ResetLedger
<1>2. \A i \in Images : ledger'[i].state = "scanned" => ledger[i].state = "scanned"
  <2>1. \A row \in Row : [row EXCEPT !.state = "baseline"].state = "baseline"
    BY DEF Row, Entry, NoRow
  <2>2. ASSUME NEW S, ResetLedger(S), NEW i \in Images, ledger'[i].state = "scanned"
        PROVE  ledger[i].state = "scanned"
    BY <2>1, <2>2 DEF ResetLedger, TypeOK
  <2>3. ASSUME NEW j \in Images, forget_deleted_images(j), NEW i \in Images,
               ledger'[i].state = "scanned"
        PROVE  ledger[i].state = "scanned"
    BY <2>3 DEF forget_deleted_images, TypeOK, NoRow
  <2>4. ASSUME NEW r \in Repos, forget_repository(r), NEW i \in Images,
               ledger'[i].state = "scanned"
        PROVE  ledger[i].state = "scanned"
    BY <2>4 DEF forget_repository, TypeOK, NoRow
  <2> QED
    BY <2>2, <2>3, <2>4 DEF Push, DeleteTag, Configure, DeleteRepo
<1>3. UNCHANGED jobs \/ \E S : Lose(S)
  BY DEF Push, DeleteTag, forget_deleted_images, Configure, DeleteRepo, forget_repository,
         ResetLedger
<1> QED
  BY <1>1, <1>2, <1>3, LoseAddsNone DEF AddsNoSuccess

LEMMA NewJobAddsNone ==
  ASSUME TypeOK, NEW k \in JobIds, NEW i \in Images, NEW source, NewJob(k, i, source)
  PROVE  /\ UNCHANGED scanned
         /\ \A j \in JobIds : jobs'[j] # NoJob /\ jobs'[j].ok =>
               jobs[j] # NoJob /\ jobs[j].ok /\ jobs'[j].image = jobs[j].image
BY DEF NewJob, TypeOK

LEMMA RequestsAddNone ==
  ASSUME TypeInv, NEW q \in Requests,
         \/ \E i \in Images : Deliver(q, i) \/ Ask(q, i)
         \/ RequestStep(q) \/ EnqueueScanFails(q)
  PROVE  AddsNoSuccess
<1> USE DEF TypeInv, history, world
<1>1. CASE \/ \E i \in Images : Deliver(q, i) \/ Ask(q, i)
           \/ Gate(q) \/ Resolve(q) \/ Flush(q)
  BY <1>1 DEF Deliver, Ask, Gate, Resolve, Flush, AddsNoSuccess
<1>2. CASE CommitScan(q)
  <2>1. \A row \in Row : [row EXCEPT !.state = "queued"].state = "queued"
    BY DEF Row, Entry, NoRow
  <2>2. ASSUME NEW i \in Images, ledger'[i].state = "scanned" PROVE ledger[i].state = "scanned"
    <3>1. ledger'[i] \in {ledger[i], Queued(None), [ledger[i] EXCEPT !.state = "queued"]}
      BY <1>2 DEF CommitScan, TypeOK
    <3>2. Queued(None).state = "queued" /\ ledger[i] \in Row
      BY DEF Queued, TypeOK
    <3> QED
      BY <2>1, <2>2, <3>1, <3>2
  <2>3. \A i \in Images : ledger'[i].state = "scanned" => ledger[i].state = "scanned"
    BY <2>2
  <2> QED
    BY <1>2, <2>3 DEF CommitScan, AddsNoSuccess
<1>3. ASSUME NEW k \in JobIds, req[q].pc = "enqueue",
             NewJob(k, req[q].image, req[q].source), UNCHANGED ledger
      PROVE  AddsNoSuccess
  BY <1>3, Standing, RequestImage, NewJobAddsNone DEF AddsNoSuccess
<1>4. ASSUME NEW k \in JobIds, EnqueueScan(q, k) PROVE AddsNoSuccess
  BY <1>3, <1>4 DEF EnqueueScan
<1>5. CASE EnqueueScanFails(q)
  <2>1. CASE UNCHANGED <<jobs, history>>
    BY <1>5, <2>1 DEF EnqueueScanFails, AddsNoSuccess
  <2> QED
    BY <1>3, <1>5, <2>1 DEF EnqueueScanFails
<1> QED
  BY <1>1, <1>2, <1>4, <1>5 DEF RequestStep

LEMMA WatcherAddsNone ==
  ASSUME TypeInv, WatchStep \/ EnqueueNewFails \/ \E r \in Repos : ListFails(r)
  PROVE  AddsNoSuccess
<1> USE DEF TypeInv, history, world
<1>1. CASE \/ StartCycle \/ ReadKnown \/ FlushNew \/ EndCycle
           \/ \E r \in Repos : ListTarget(r) \/ ListFails(r)
           \/ \E i \in Images : Each(i)
  <2>1. UNCHANGED <<ledger, jobs, scanned>>
    <3>1. CASE StartCycle \/ ReadKnown \/ FlushNew \/ EndCycle
      BY <3>1 DEF StartCycle, ReadKnown, FlushNew, EndCycle
    <3>2. ASSUME NEW r \in Repos, ListTarget(r) \/ ListFails(r)
          PROVE  UNCHANGED <<ledger, jobs, scanned>>
      BY <3>2 DEF ListTarget, ListFails
    <3>3. ASSUME NEW i \in Images, Each(i) PROVE UNCHANGED <<ledger, jobs, scanned>>
      BY <3>3 DEF Each
    <3> QED
      BY <1>1, <3>1, <3>2, <3>3
  <2> QED
    BY <2>1 DEF AddsNoSuccess
<1>2. \A i \in Images : Written(i).state = "scanned" => ledger[i].state = "scanned"
  BY DEF Written, Queued
<1>3. CASE Adopt \/ CommitNew \/ FinishTarget
  <2>1. UNCHANGED <<jobs, scanned>>
    BY <1>3 DEF Adopt, CommitNew, FinishTarget
  <2>2. \A i \in Images : \/ ledger'[i] \in {ledger[i], Written(i)}
                          \/ ledger'[i] = [state |-> "baseline", digest |-> watch.listing[i]]
    BY <1>3 DEF Adopt, CommitNew, FinishTarget
  <2>3. ASSUME NEW i \in Images, ledger'[i].state = "scanned" PROVE ledger[i].state = "scanned"
    <3>1. ledger'[i] # [state |-> "baseline", digest |-> watch.listing[i]]
      BY <2>3
    <3> QED
      BY <1>2, <2>2, <2>3, <3>1
  <2> QED
    BY <2>1, <2>3 DEF AddsNoSuccess
<1>4. ASSUME NEW k \in JobIds, WatchAt("enqueue"), NewJob(k, watch.image, "push"),
             UNCHANGED ledger
      PROVE  AddsNoSuccess
  <2>1. watch.image \in Images
    BY <1>4 DEF WatchOK, Chosen, WatchAt, In
  <2> QED
    BY <1>4, <2>1, NewJobAddsNone DEF AddsNoSuccess
<1>5. CASE (\E k \in JobIds : EnqueueNew(k)) \/ EnqueueNewFails
  <2>1. CASE UNCHANGED <<jobs, history, ledger>>
    BY <2>1 DEF AddsNoSuccess
  <2> QED
    BY <1>4, <1>5, <2>1 DEF EnqueueNew, EnqueueNewFails
<1> QED
  BY <1>1, <1>3, <1>5 DEF WatchStep

LEMMA OverAddsNone ==
  \A job \in Job : job # NoJob => Over(job).ok = FALSE
BY DEF Job, Over

LEMMA CrashAddsNone == ASSUME TypeInv, Crash PROVE AddsNoSuccess
<1> USE DEF TypeInv, history, world
<1>1. ASSUME NEW k \in JobIds, jobs'[k] # NoJob, jobs'[k].ok PROVE jobs'[k] = jobs[k]
  BY <1>1, OverAddsNone, Standing DEF Crash, TypeOK
<1> QED
  BY <1>1 DEF Crash, AddsNoSuccess

\* Only a scan makes a success, and only what a job holds is recorded.
LEMMA JobsKeepEarned ==
  ASSUME EarnedInv, NEW k \in JobIds, JobStep(k) \/ DropJob(k)
  PROVE  JobsEarned' /\ ScannedIsEarned'
<1> USE DEF history, world
<1>0. TypeOK /\ TypeInv
  BY DEF EarnedInv, TypeInv
<1>1. jobs[k] # NoJob
  BY Standing DEF JobStep, StartJob, Scan, RecordRead, RecordWrite, DropJob, JobAt
<1>2. jobs[k] \in Job /\ jobs[k].image \in Images
  BY <1>0, <1>1, JobImage DEF TypeOK
<1>3. JobOver(k) => ~jobs'[k].ok /\ \A j \in JobIds \ {k} : jobs'[j] = jobs[j]
  BY <1>0, <1>1, <1>2, OverAddsNone DEF JobOver, TypeOK
<1>4. CASE StartJob(k) \/ RecordRead(k) \/ DropJob(k)
  <2>1. UNCHANGED <<ledger, scanned>>
    BY <1>4 DEF StartJob, RecordRead, DropJob
  <2>2. CASE JobOver(k)
    BY <1>3, <2>1, <2>2, NoSuccessEarned DEF AddsNoSuccess
  <2>3. CASE ~JobOver(k)
    <3>1. /\ \A j \in JobIds \ {k} : jobs'[j] = jobs[j]
          /\ jobs'[k].ok = jobs[k].ok /\ jobs'[k].image = jobs[k].image
      BY <1>0, <1>1, <1>2, <1>4, <2>3 DEF StartJob, RecordRead, DropJob, TypeOK, Job
    <3> QED
      BY <1>1, <2>1, <3>1, NoSuccessEarned DEF AddsNoSuccess
  <2> QED
    BY <2>2, <2>3
<1>5. ASSUME NEW ok \in BOOLEAN, Scan(k, ok) PROVE JobsEarned' /\ ScannedIsEarned'
  <2>1. /\ \A j \in JobIds \ {k} : jobs'[j] = jobs[j]
        /\ jobs'[k].ok = ok /\ jobs'[k].image = jobs[k].image
    <3>1. jobs' = [jobs EXCEPT ![k] = [jobs[k] EXCEPT !.pc = "record", !.ok = ok]]
      BY <1>0, <1>5 DEF Scan, TypeOK
    <3> QED
      BY <1>0, <1>1, <1>2, <3>1 DEF TypeOK, Job
  <2>2. \A i \in Images : scanned[i] \subseteq scanned'[i]
    BY <1>0, <1>5 DEF Scan, TypeOK
  <2>3. nexus[jobs[k].image] \in scanned'[jobs[k].image]
    BY <1>0, <1>2, <1>5 DEF Scan, TypeOK
  <2>4. ok => HasContent(scanned'[jobs[k].image])
    BY <1>5, <2>3 DEF Scan, HasContent
  <2>5. ScannedIsEarned'
    BY <1>5, <2>2 DEF Scan, ScannedIsEarned, EarnedInv
  <2>6. ASSUME NEW j \in JobIds, jobs'[j] # NoJob, jobs'[j].ok PROVE HasContent(scanned'[jobs'[j].image])
    <3>1. CASE j = k
      BY <2>1, <2>4, <2>6, <3>1 DEF HasContent
    <3>2. CASE j # k
      <4>1. jobs[j] # NoJob /\ jobs[j].ok /\ jobs'[j] = jobs[j]
        BY <2>1, <2>6, <3>2
      <4>2. jobs[j].image \in Images /\ HasContent(scanned[jobs[j].image])
        BY <1>0, <4>1, JobImage DEF JobsEarned, EarnedInv
      <4> QED
        BY <2>2, <4>1, <4>2 DEF HasContent
    <3> QED
      BY <3>1, <3>2
  <2> QED
    BY <2>5, <2>6 DEF JobsEarned, HasContent
<1>6. CASE RecordWrite(k)
  <2>1. UNCHANGED scanned /\ JobOver(k)
    BY <1>6 DEF RecordWrite
  <2>2. ASSUME NEW j \in JobIds, jobs'[j] # NoJob, jobs'[j].ok PROVE HasContent(scanned'[jobs'[j].image])
    <3>1. j # k /\ jobs'[j] = jobs[j]
      BY <1>3, <2>1, <2>2
    <3> QED
      BY <2>1, <2>2, <3>1 DEF JobsEarned, EarnedInv, HasContent
  <2>3. ASSUME NEW i \in Images, ledger'[i].state = "scanned" PROVE HasContent(scanned[i])
    <3>1. CASE ledger'[i] = ledger[i]
      BY <2>3, <3>1 DEF ScannedIsEarned, EarnedInv, HasContent
    <3>2. CASE ledger'[i] # ledger[i]
      <4>1. i = jobs[k].image /\ ledger'[i] = [ledger[i] EXCEPT !.state = Outcome(k)]
        BY <1>0, <1>6, <3>2 DEF RecordWrite, TypeOK
      <4>2. ledger[i] \in Row /\ \A row \in Row : \A st : [row EXCEPT !.state = st].state = st
        BY <1>0 DEF TypeOK, Row, Entry, NoRow
      <4>3. jobs[k].ok
        BY <2>3, <4>1, <4>2 DEF Outcome
      <4> QED
        BY <1>1, <4>1, <4>3 DEF JobsEarned, EarnedInv
    <3> QED
      BY <3>1, <3>2
  <2> QED
    BY <2>1, <2>2, <2>3 DEF JobsEarned, ScannedIsEarned, HasContent
<1> QED
  BY <1>4, <1>5, <1>6 DEF JobStep

LEMMA StepEarned == EarnedInv /\ [Next]_vars => EarnedInv'
<1> SUFFICES ASSUME EarnedInv, [Next]_vars PROVE JobsEarned' /\ ScannedIsEarned'
  BY StepTyped DEF EarnedInv
<1>0. TypeInv
  BY DEF EarnedInv
<1>1. CASE Others
  BY <1>0, <1>1, WorldAddsNone, RequestsAddNone, NoSuccessEarned, JobsKeepEarned DEF Others
<1>2. CASE WatchStep \/ EnqueueNewFails \/ \E r \in Repos : ListFails(r)
  BY <1>0, <1>2, WatcherAddsNone, NoSuccessEarned
<1>3. CASE Crash
  BY <1>0, <1>3, CrashAddsNone, NoSuccessEarned
<1>4. CASE UNCHANGED vars
  BY <1>4, NoSuccessEarned DEF vars, history, AddsNoSuccess
<1> QED
  BY <1>1, <1>2, <1>3, <1>4, StepCases

\* A ledger row says "scanned" only of an image a scanner was pointed at while
\* it held content: no stale read of a job, no commit of the watcher and no
\* insert that lost against another one brings the word into the ledger.
THEOREM ScannedIsEarnedCorrect == Spec => []ScannedIsEarned
<1>1. Init => EarnedInv
  BY InitTyped, InitEarned DEF EarnedInv
<1>2. EarnedInv => ScannedIsEarned
  BY DEF EarnedInv
<1> QED
  BY <1>1, <1>2, StepEarned, PTL DEF Spec

-----------------------------------------------------------------------------
(* Scans are due.  Where nothing is deleted, dropped, or fails, and a scan  *)
(* job records its outcome after its queuer has committed, the pushes of an *)
(* image that are not yet paid for cover what it may still be scanned for:  *)
(* its first row, or the way from the digest on record by way of the one    *)
(* the watcher has listed to the one in Nexus.                              *)

Quiet == /\ PromptCommit
         /\ MaxDeletes = 0 /\ MaxDrops = 0 /\ MaxFaults = 0 /\ MaxCrashes = 0

Differ(x, y) == IF x # y THEN 1 ELSE 0
Moved(x, y)  == IF x # None /\ x # y THEN 1 ELSE 0

At(i, pc)  == watch.pc = pc /\ watch.image = i
Visited(i) == watch.pc \in Visiting /\ watch.repo = RepoOf[i]
Coming(i)  == watch.pc \in Looking /\ watch.repo = RepoOf[i] /\ i \in watch.left
Ahead(i)   == Visited(i) /\ (watch.pc \in {"read", "adopt"} \/ i \in watch.left)

\* A request whose insert of the image was flushed.
Adding(q, i) == /\ req[q].pc \in {"enqueue", "commit"} /\ req[q].seen = NoRow
                /\ req[q].image = i

\* The scan of a first row was queued and its row is not yet committed.
Paid(i) == \/ \E q \in Requests : Adding(q, i) /\ req[q].pc = "commit" /\ req[q].source = "webhook"
           \/ At(i, "commit") /\ session.add[i] # None

Recorded(i) == IF session.digest[i] # None THEN session.digest[i] ELSE ledger[i].digest

Owed(i) ==
    IF RepoOf[i] \notin observed
    THEN IF Visited(i) THEN Differ(watch.listing[i], nexus[i]) ELSE 0
    ELSE IF ledger[i] = NoRow
    THEN (IF Paid(i) THEN 0 ELSE Differ(None, nexus[i]))
            + (IF Visited(i) THEN Moved(watch.listing[i], nexus[i]) ELSE 0)
    ELSE IF Ahead(i)
    THEN Moved(ledger[i].digest, watch.listing[i]) + Moved(watch.listing[i], nexus[i])
    ELSE (IF At(i, "enqueue") THEN 1 ELSE 0) + Moved(Recorded(i), nexus[i])

Covered == \A i \in Images : credit[i] >= Owed(i)

\* Nothing was taken from under anybody.
Calm ==
    /\ cleanup = {}
    /\ watch # Resting => watch.lost \subseteq Repos
    /\ \A q \in Requests : req[q] # Idle => ~req[q].lost
    /\ \A k \in JobIds : jobs[k] # NoJob => ~jobs[k].lost

\* What was delivered, listed or read is there.
Present ==
    /\ \A i \in deliveries : nexus[i] # None
    /\ \A q \in Requests : req[q] # Idle =>
         /\ req[q].source = "webhook" => nexus[req[q].image] # None /\ req[q].seen = NoRow
         /\ req[q].seen # NoRow => ledger[req[q].image] # NoRow
    /\ \A i \in Images : watch # Resting /\ watch.listing[i] # None => nexus[i] # None
    /\ \A k \in JobIds : jobs[k].pc = "write" => ledger[jobs[k].image] # NoRow

\* An image has one inserter at most, and none when it has a row.
OneInserter ==
    \A i \in Images :
        /\ \A q \in Requests : Adding(q, i) =>
             /\ ledger[i] = NoRow /\ session.add[i] = None
             /\ \A p \in Requests : Adding(p, i) => p = q
        /\ session.add[i] # None =>
             /\ ledger[i] = NoRow /\ session.add[i] = watch.listing[i]
             /\ At(i, "enqueue") \/ At(i, "commit")

\* A digest in the session was listed in this cycle; one that replaces another
\* is committed with the scan it is the reason for.
MarkOK(i) ==
    session.digest[i] # None =>
        /\ watch # Resting /\ RepoOf[i] \notin watch.todo /\ RepoOf[i] \in observed
        /\ ledger[i] # NoRow /\ ~Ahead(i)
        /\ ledger[i].digest = None \/ At(i, "enqueue") \/ At(i, "commit")

ChosenOK(i) ==
    /\ At(i, "flush") \/ At(i, "enqueue") \/ At(i, "commit") =>
         i \notin watch.left /\ watch.listing[i] # None
    /\ At(i, "enqueue") \/ At(i, "commit") =>
         IF ledger[i] = NoRow THEN session.add[i] # None ELSE session.digest[i] = watch.listing[i]

ComingOK(i) ==
    Coming(i) => /\ watch.listing[i] # None
                 /\ watch.known[i] # NoRow =>
                      ledger[i] # NoRow /\ ledger[i].digest = watch.known[i].digest

UnseenOK(i) == RepoOf[i] \notin observed => ledger[i].digest = None

\* What the baseline will be made of.
AdoptOK(i) ==
    watch.pc = "adopt" =>
        /\ i \in watch.left <=> watch.repo = RepoOf[i] /\ watch.listing[i] # None
        /\ watch.repo = RepoOf[i] /\ watch.known[i] # NoRow => ledger[i] # NoRow

MarksHold ==
    \A i \in Images : MarkOK(i) /\ ChosenOK(i) /\ ComingOK(i) /\ UnseenOK(i) /\ AdoptOK(i)

Fresh(k, i) == jobs[k].pc \in {"queued", "running", "record"} /\ jobs[k].image = i
Will(k, i)  == \/ Fresh(k, i)
               \/ jobs[k].pc = "write" /\ jobs[k].image = i /\ jobs[k].seen.state = "queued"

\* A queued row has a job that will record an outcome in it.
QueuedHasJob ==
    \A i \in Images :
        /\ Committing(i) => \E k \in JobIds : Fresh(k, i)
        /\ ledger[i].state = "queued" => \E k \in JobIds : Will(k, i)

OneJobOf(i) ==
    /\ \A k1, k2 \in InFlight(i) : k1 = k2
    /\ InFlight(i) # {} => ledger[i].state = "queued" \/ Committing(i)
    /\ Coming(i) /\ watch.known[i] # NoRow /\ watch.known[i].state # "queued"
         => ledger[i].state # "queued"
    /\ At(i, "enqueue") => ledger[i].state # "queued"

OneJob ==
    count["asks"] = 0 =>
        /\ \A q \in Requests : req[q] # Idle => req[q].source = "webhook"
        /\ \A i \in Images : OneJobOf(i)

DueInv == /\ TypeInv /\ ObservedOK /\ Calm /\ Present /\ OneInserter /\ MarksHold
          /\ Covered /\ QueuedHasJob /\ OneJob

-----------------------------------------------------------------------------
LEMMA DueStarts == Init => Calm /\ Present /\ OneInserter /\ MarksHold
                           /\ Covered /\ QueuedHasJob /\ OneJob
<1> SUFFICES ASSUME Init PROVE Calm /\ Present /\ OneInserter /\ MarksHold
                           /\ Covered /\ QueuedHasJob /\ OneJob
  OBVIOUS
<1>. USE DEF Init, Idle, NoJob, Resting, Clean, NoRow
<1>1. Calm /\ Present
  BY DEF Calm, Present
<1>2. OneInserter
  BY DEF OneInserter, Adding
<1>3. MarksHold
  BY DEF MarksHold, MarkOK, ChosenOK, ComingOK, UnseenOK, AdoptOK, At, Coming, Looking
<1>4. Covered
  BY DEF Covered, Owed, Visited, Visiting
<1>5. QueuedHasJob
  BY DEF QueuedHasJob, Committing, WatchAt
<1>6. OneJob
  BY DEF OneJob, OneJobOf, InFlight, Coming, Looking, At
<1>. QED  BY <1>1, <1>2, <1>3, <1>4, <1>5, <1>6

\* What can happen when nothing is deleted, dropped, or fails.
LEMMA QuietSteps ==
  ASSUME Quiet, TypeOK, cleanup = {}, Next
  PROVE  \/ \E i \in Images, c \in Contents : Push(i, c)
         \/ \E r \in Repos, m \in Modes : Configure(r, m)
         \/ \E q \in Requests : (\E i \in Images : Deliver(q, i) \/ Ask(q, i)) \/ RequestStep(q)
         \/ WatchStep
         \/ \E k \in JobIds : JobStep(k)
<1>1. \A b \in {"deletes", "drops", "faults", "crashes"} : count[b] \in Nat
  BY DEF TypeOK
<1>2. \A i \in Images : ~DeleteTag(i) /\ ~forget_deleted_images(i)
  BY <1>1 DEF Quiet, DeleteTag, forget_deleted_images
<1>3. \A r \in Repos : ~DeleteRepo(r) /\ ~forget_repository(r) /\ ~ListFails(r)
  BY <1>1 DEF Quiet, DeleteRepo, forget_repository, ListFails
<1>4. /\ \A q \in Requests : ~EnqueueScanFails(q)
      /\ \A k \in JobIds : ~DropJob(k)
      /\ \A S \in {{i} : i \in Images} \union {In(r) : r \in Repos} \union {Images} : ~ResetLedger(S)
      /\ ~EnqueueNewFails /\ ~Crash
  BY <1>1 DEF Quiet, EnqueueScanFails, EnqueueNewFails, DropJob, ResetLedger, Crash
<1>. QED
  BY <1>2, <1>3, <1>4 DEF Next

\* The watcher is where it was, with what it has read.
WatchAlike ==
    /\ watch' = Resting <=> watch = Resting
    /\ watch'.pc = watch.pc /\ watch'.todo = watch.todo /\ watch'.repo = watch.repo
    /\ watch'.listing = watch.listing /\ watch'.known = watch.known
    /\ watch'.left = watch.left /\ watch'.image = watch.image

LEMMA AlikeMeans ==
  ASSUME WatchAlike, NEW i \in Images
  PROVE  /\ \A pc : At(i, pc)' <=> At(i, pc)
         /\ Visited(i)' <=> Visited(i)
         /\ Coming(i)' <=> Coming(i)
         /\ Ahead(i)' <=> Ahead(i)
BY DEF WatchAlike, At, Visited, Coming, Ahead

LEMMA OwedStays ==
  ASSUME NEW i \in Images, WatchAlike, UNCHANGED <<session, observed, nexus>>,
         ledger'[i] = NoRow <=> ledger[i] = NoRow,
         ledger'[i].digest = ledger[i].digest, Paid(i)' <=> Paid(i)
  PROVE  Owed(i)' = Owed(i)
<1>1. Recorded(i)' = Recorded(i)
  BY DEF Recorded
<1>. QED
  BY <1>1, AlikeMeans DEF Owed, WatchAlike

LEMMA MarksStay ==
  ASSUME MarksHold, WatchAlike, UNCHANGED <<session, observed>>,
         \A i \in Images : /\ ledger'[i].digest = ledger[i].digest
                           /\ ledger[i] # NoRow => ledger'[i] # NoRow
                           /\ session.add[i] # None => ledger'[i] = ledger[i]
                           /\ ledger[i] = NoRow => session.digest[i] = None
  PROVE  MarksHold'
<1> SUFFICES ASSUME NEW i \in Images
             PROVE  (MarkOK(i) /\ ChosenOK(i) /\ ComingOK(i) /\ UnseenOK(i) /\ AdoptOK(i))'
  BY DEF MarksHold
<1>. /\ MarkOK(i) /\ ChosenOK(i) /\ ComingOK(i) /\ UnseenOK(i) /\ AdoptOK(i)
     /\ watch'.listing = watch.listing /\ watch'.known = watch.known /\ watch'.left = watch.left
     /\ watch'.todo = watch.todo /\ (watch' = Resting <=> watch = Resting)
  BY DEF MarksHold, WatchAlike
<1>1. MarkOK(i)'
  BY AlikeMeans DEF MarkOK
<1>2. ChosenOK(i)'
  BY AlikeMeans DEF ChosenOK
<1>3. ComingOK(i)'
  BY AlikeMeans DEF ComingOK
<1>4. UnseenOK(i)'
  BY DEF UnseenOK
<1>5. AdoptOK(i)'
  BY DEF AdoptOK, WatchAlike
<1>. QED  BY <1>1, <1>2, <1>3, <1>4, <1>5

\* Who has queued a scan and not yet committed stays the same.
CommitsStay == \A i \in Images : /\ Committing(i)' <=> Committing(i)
                                 /\ Paid(i)' <=> Paid(i)

LEMMA CommitsKept ==
  ASSUME NEW q \in Requests, \A p \in Requests \ {q} : req'[p] = req[p],
         req[q].pc # "commit", req'[q].pc # "commit", UNCHANGED <<watch, session>>
  PROVE  CommitsStay
BY DEF CommitsStay, Committing, Paid, Adding, At, WatchAt

LEMMA CoveredStays ==
  ASSUME Covered, WatchAlike, UNCHANGED <<session, observed, nexus, credit, ledger>>, CommitsStay
  PROVE  Covered'
BY OwedStays DEF Covered, CommitsStay

LEMMA QueuedStays ==
  ASSUME QueuedHasJob, CommitsStay, UNCHANGED <<ledger, jobs>>
  PROVE  QueuedHasJob'
BY DEF QueuedHasJob, CommitsStay, Fresh, Will

LEMMA OneJobStays ==
  ASSUME OneJob, CommitsStay, WatchAlike, UNCHANGED <<ledger, jobs>>,
         count'["asks"] = 0 =>
            count["asks"] = 0 /\ \A q \in Requests : req'[q] # Idle =>
                                    req'[q].source = "webhook"
  PROVE  OneJob'
<1> SUFFICES ASSUME count'["asks"] = 0, NEW i \in Images PROVE OneJobOf(i)'
  BY DEF OneJob
<1>1. OneJobOf(i) /\ watch'.known = watch.known /\ InFlight(i)' = InFlight(i)
  BY DEF OneJob, WatchAlike, InFlight
<1>. QED
  BY <1>1, AlikeMeans DEF OneJobOf, CommitsStay

LEMMA UnchangedAlike == watch' = watch => WatchAlike
BY DEF WatchAlike

-----------------------------------------------------------------------------
(* Requests that come, move on and end without having queued a scan.       *)

EarlyMove(q) ==
    /\ UNCHANGED <<nexus, ledger, cleanup, watch, session, jobs, observed, credit>>
    /\ deliveries' \subseteq deliveries
    /\ \A p \in Requests \ {q} : req'[p] = req[p]
    /\ req[q].pc # "commit" /\ req'[q].pc # "commit"
    /\ req'[q] # Idle =>
         /\ ~req'[q].lost
         /\ req'[q].source = "webhook" => nexus[req'[q].image] # None /\ req'[q].seen = NoRow
         /\ req'[q].seen # NoRow => ledger[req'[q].image] # NoRow
    /\ \A i \in Images : Adding(q, i)' =>
         ledger[i] = NoRow /\ session.add[i] = None /\ \A p \in Requests \ {q} : ~Adding(p, i)
    /\ \/ count'["asks"] > 0
       \/ /\ count' = count
          /\ req'[q] # Idle => \/ req'[q].source = "webhook"
                               \/ req[q] # Idle /\ req'[q].source = req[q].source

LEMMA GoesOn ==
  ASSUME TypeOK, NEW q \in Requests, req[q] # Idle, NEW pc, Goto(q, pc)
  PROVE  /\ \A p \in Requests \ {q} : req'[p] = req[p]
         /\ req'[q].image = req[q].image /\ req'[q].source = req[q].source
         /\ req'[q].seen = req[q].seen /\ req'[q].lost = req[q].lost
         /\ req'[q].pc = pc
<1>1. \A r \in Request : r # Idle => /\ [r EXCEPT !.pc = pc].image = r.image
                                     /\ [r EXCEPT !.pc = pc].source = r.source
                                     /\ [r EXCEPT !.pc = pc].seen = r.seen
                                     /\ [r EXCEPT !.pc = pc].lost = r.lost
                                     /\ [r EXCEPT !.pc = pc].pc = pc
  BY DEF Request
<1> QED
  BY <1>1 DEF Goto, TypeOK

LEMMA EarlySteps ==
  ASSUME DueInv, NEW q \in Requests,
         (\E i \in Images : Deliver(q, i) \/ Ask(q, i)) \/ Gate(q) \/ Resolve(q) \/ Flush(q)
  PROVE  EarlyMove(q)
<1> USE DEF world, history
<1>0. TypeOK /\ Calm /\ Present /\ OneInserter
  BY DEF DueInv, TypeInv
<1>1. ASSUME NEW i \in Images, Deliver(q, i)
      PROVE  EarlyMove(q)
  <2>1. /\ req[q] = Idle
        /\ req' = [req EXCEPT ![q] = [pc |-> "gate", source |-> "webhook",
                                 image |-> i, seen |-> NoRow, lost |-> FALSE]]
        /\ i \in deliveries /\ deliveries' \subseteq deliveries
        /\ UNCHANGED <<nexus, ledger, cleanup, watch, session, jobs, count, observed, credit>>
    BY <1>1 DEF Deliver
  <2>2. /\ req'[q] = [pc |-> "gate", source |-> "webhook", image |-> i, seen |-> NoRow, lost |-> FALSE]
        /\ \A p \in Requests \ {q} : req'[p] = req[p]
    BY <1>0, <2>1 DEF TypeOK
  <2>3. nexus[i] # None
    BY <1>0, <2>1 DEF Present
  <2>. QED
    BY <2>1, <2>2, <2>3 DEF EarlyMove, Adding, Idle
<1>2. ASSUME NEW i \in Images, Ask(q, i)
      PROVE  EarlyMove(q)
  <2>1. /\ req[q] = Idle
        /\ req' = [req EXCEPT ![q] = [pc |-> "resolve", source |-> "manual",
                                 image |-> i, seen |-> NoRow, lost |-> FALSE]]
        /\ UNCHANGED <<nexus, deliveries, ledger, cleanup, watch, session, jobs, observed, credit>>
    BY <1>2 DEF Ask
  <2>2. /\ req'[q] = [pc |-> "resolve", source |-> "manual", image |-> i, seen |-> NoRow, lost |-> FALSE]
        /\ \A p \in Requests \ {q} : req'[p] = req[p]
    BY <1>0, <2>1 DEF TypeOK
  <2>3. count'["asks"] > 0
    BY <1>0, <1>2 DEF Ask, Used, TypeOK
  <2>. QED
    BY <2>1, <2>2, <2>3 DEF EarlyMove, Adding, Idle
<1>3. ASSUME Leave(q), req[q].pc # "commit",
             UNCHANGED <<nexus, deliveries, ledger, cleanup, watch, session, jobs, count, observed, credit>>
      PROVE  EarlyMove(q)
  <2>1. req'[q] = Idle /\ \A p \in Requests \ {q} : req'[p] = req[p]
    BY <1>0, <1>3 DEF Leave, TypeOK
  <2>. QED
    BY <1>3, <2>1 DEF EarlyMove, Adding, Idle
<1>4. ASSUME NEW pc \in {"resolve", "flush"}, Goto(q, pc), req[q].pc # "commit", req[q] # Idle,
             UNCHANGED <<nexus, deliveries, ledger, cleanup, watch, session, jobs, count, observed, credit>>
      PROVE  EarlyMove(q)
  <2>1. ~req[q].lost
    BY <1>0, <1>4 DEF Calm
  <2>2. /\ req[q].source = "webhook" => nexus[req[q].image] # None /\ req[q].seen = NoRow
        /\ req[q].seen # NoRow => ledger[req[q].image] # NoRow
    BY <1>0, <1>4 DEF Present
  <2>. QED
    BY <1>0, <1>4, <2>1, <2>2, GoesOn DEF EarlyMove, Adding
<1>5. ASSUME Gate(q)
      PROVE  EarlyMove(q)
  BY <1>3, <1>4, <1>5, Standing DEF Gate
<1>6. ASSUME Resolve(q)
      PROVE  EarlyMove(q)
  <2>1. /\ req[q].pc = "resolve" /\ req[q] # Idle
        /\ UNCHANGED <<nexus, deliveries, ledger, cleanup, watch, session, jobs, count, observed, credit>>
    BY <1>6, Standing DEF Resolve
  <2>2. CASE Goto(q, "flush") \/ Leave(q)
    BY <1>3, <1>4, <2>1, <2>2
  <2>3. CASE /\ ledger[req[q].image] # NoRow /\ req[q].source # "webhook"
             /\ req' = [req EXCEPT ![q].pc = "enqueue", ![q].seen = ledger[req[q].image]]
    <3>1. \A r \in Request : \A e : r # Idle =>
              /\ [r EXCEPT !.pc = "enqueue", !.seen = e].image = r.image
              /\ [r EXCEPT !.pc = "enqueue", !.seen = e].source = r.source
              /\ [r EXCEPT !.pc = "enqueue", !.seen = e].lost = r.lost
              /\ [r EXCEPT !.pc = "enqueue", !.seen = e].seen = e
              /\ [r EXCEPT !.pc = "enqueue", !.seen = e].pc = "enqueue"
      BY DEF Request
    <3>2. /\ req'[q].image = req[q].image /\ req'[q].source = req[q].source
          /\ req'[q].lost = req[q].lost
          /\ req'[q].seen = ledger[req[q].image] /\ req'[q].pc = "enqueue"
          /\ \A p \in Requests \ {q} : req'[p] = req[p]
      BY <1>0, <2>1, <2>3, <3>1 DEF TypeOK
    <3>3. ~req[q].lost
      BY <1>0, <2>1 DEF Calm
    <3>. QED
      BY <2>1, <2>3, <3>2, <3>3 DEF EarlyMove, Adding
  <2>. QED
    BY <1>6, <2>2, <2>3 DEF Resolve
<1>7. ASSUME Flush(q)
      PROVE  EarlyMove(q)
  <2>1. /\ req[q].pc = "flush" /\ req[q] # Idle
        /\ UNCHANGED <<nexus, deliveries, ledger, cleanup, watch, session, jobs, count, observed, credit>>
        /\ req[q].image \notin InsertedByOthers(q) \union InsertedByWatcher
    BY <1>7, Standing DEF Flush
  <2>2. CASE Leave(q)
    BY <1>3, <2>1, <2>2
  <2>3. CASE Goto(q, "enqueue") /\ ledger[req[q].image] = NoRow
    <3>1. /\ ~req[q].lost
          /\ req[q].source = "webhook" => nexus[req[q].image] # None /\ req[q].seen = NoRow
          /\ req[q].seen # NoRow => ledger[req[q].image] # NoRow
      BY <1>0, <2>1 DEF Calm, Present
    <3>2. session.add[req[q].image] = None
      BY <1>0, <2>1, RequestImage DEF InsertedByWatcher
    <3>3. \A p \in Requests \ {q} : ~Adding(p, req[q].image)
      BY <2>1 DEF InsertedByOthers, Inserting, Adding
    <3>. QED
      BY <1>0, <2>1, <2>3, <3>1, <3>2, <3>3, GoesOn DEF EarlyMove, Adding
  <2>. QED
    BY <1>7, <2>2, <2>3 DEF Flush
<1>. QED
  BY <1>1, <1>2, <1>5, <1>6, <1>7

LEMMA EarlyKeeps ==
  ASSUME DueInv, NEW q \in Requests, EarlyMove(q)
  PROVE  (Calm /\ Present /\ OneInserter /\ MarksHold /\ Covered /\ QueuedHasJob /\ OneJob)'
<1>0. Calm /\ Present /\ OneInserter /\ MarksHold /\ Covered /\ QueuedHasJob /\ OneJob
      /\ TypeOK
  BY DEF DueInv, TypeInv
<1>1. WatchAlike /\ CommitsStay
  BY CommitsKept, UnchangedAlike DEF EarlyMove
<1>2. Calm'
  BY <1>0 DEF EarlyMove, Calm
<1>3. Present'
  BY <1>0 DEF EarlyMove, Present
<1>4. OneInserter'
  <2>1. \A p \in Requests \ {q}, i \in Images : Adding(p, i)' <=> Adding(p, i)
    BY DEF EarlyMove, Adding
  <2>2. \A i \in Images : \A pc : At(i, pc)' <=> At(i, pc)
    BY DEF EarlyMove, At
  <2>. QED
    BY <1>0, <2>1, <2>2 DEF EarlyMove, OneInserter
<1>5. MarksHold'
  <2>1. \A i \in Images : /\ session.add[i] # None => ledger'[i] = ledger[i]
                          /\ ledger[i] = NoRow => session.digest[i] = None
    BY <1>0 DEF EarlyMove, MarksHold, MarkOK
  <2>. QED
    BY <1>0, <1>1, <2>1, MarksStay DEF EarlyMove
<1>6. Covered'
  BY <1>0, <1>1, CoveredStays DEF EarlyMove
<1>7. QueuedHasJob'
  BY <1>0, <1>1, QueuedStays DEF EarlyMove
<1>8. OneJob'
  <2>1. ASSUME count'["asks"] = 0
        PROVE  count["asks"] = 0 /\ \A p \in Requests : req'[p] # Idle => req'[p].source = "webhook"
    BY <1>0, <2>1 DEF EarlyMove, OneJob
  <2>. QED
    BY <1>0, <1>1, <2>1, OneJobStays DEF EarlyMove
<1>. QED  BY <1>2, <1>3, <1>4, <1>5, <1>6, <1>7, <1>8

-----------------------------------------------------------------------------
(* Requests that queue a scan and commit it.                               *)

\* A webhook request that goes for a scan inserts a first row.
LEMMA WebhookAdds ==
  ASSUME DueInv, NEW q \in Requests, req[q].pc \in {"enqueue", "commit"},
         req[q].source = "webhook"
  PROVE  /\ Adding(q, req[q].image) /\ nexus[req[q].image] # None
         /\ RepoOf[req[q].image] \in observed
<1>1. req[q] # Idle
  BY Standing
<1>. QED
  BY <1>1 DEF DueInv, Present, Adding, ObservedOK

\* While nobody has a scan queued and uncommitted the image has none, if it has
\* no row.
LEMMA NoneInFlight ==
  ASSUME DueInv, count["asks"] = 0, NEW q \in Requests, NEW i \in Images,
         Adding(q, i), req[q].pc # "commit"
  PROVE  InFlight(i) = {}
<1>0. OneInserter /\ MarksHold /\ OneJob
  BY DEF DueInv
<1>1. ledger[i] = NoRow /\ session.add[i] = None /\ \A p \in Requests : Adding(p, i) => p = q
  BY <1>0 DEF OneInserter
<1>2. ~At(i, "commit")
  BY <1>0, <1>1 DEF MarksHold, ChosenOK
<1>3. ASSUME NEW p \in Requests, req[p].pc = "commit", req[p].image = i
      PROVE  FALSE
  <2>1. req[p].source = "webhook"
    BY <1>0, <1>3, Standing DEF OneJob
  <2>2. Adding(p, i)
    BY <1>3, <2>1, WebhookAdds
  <2>. QED  BY <1>1, <1>3, <2>2
<1>4. ~Committing(i)
  BY <1>2, <1>3 DEF Committing, WatchAt, At
<1>. QED
  BY <1>0, <1>1, <1>4 DEF OneJob, OneJobOf, NoRow

LEMMA NewJobIs ==
  ASSUME TypeOK, NEW k \in JobIds, NEW i, NEW source, NewJob(k, i, source)
  PROVE  /\ jobs[k] = NoJob
         /\ jobs'[k] = [pc |-> "queued", image |-> i, ok |-> FALSE, source |-> source,
                        seen |-> NoRow, lost |-> FALSE]
         /\ \A m \in JobIds \ {k} : jobs'[m] = jobs[m]
         /\ UNCHANGED observed
BY DEF NewJob, TypeOK

\* A queued job comes on top of those there are.
LEMMA NewJobAdds ==
  ASSUME TypeOK, NEW k \in JobIds, NEW i \in Images, NEW source, NewJob(k, i, source)
  PROVE  /\ Fresh(k, i)' /\ InFlight(i)' = InFlight(i) \union {k}
         /\ \A j \in Images, m \in JobIds : (Fresh(m, j) => Fresh(m, j)')
                                            /\ (Will(m, j) => Will(m, j)')
         /\ \A j \in Images \ {i} : InFlight(j)' = InFlight(j)
<1>0. /\ jobs[k].pc = "new" /\ jobs'[k].pc = "queued" /\ jobs'[k].image = i
      /\ \A m \in JobIds \ {k} : jobs'[m] = jobs[m]
  BY DEF NewJob, TypeOK, NoJob
<1>1. Fresh(k, i)'
  BY <1>0 DEF Fresh
<1>2. \A j \in Images, m \in JobIds : (Fresh(m, j) => Fresh(m, j)') /\ (Will(m, j) => Will(m, j)')
  BY <1>0 DEF Fresh, Will
<1>3. InFlight(i)' = InFlight(i) \union {k}
  BY <1>0 DEF InFlight
<1>4. \A j \in Images \ {i} : InFlight(j)' = InFlight(j)
  BY <1>0 DEF InFlight
<1>. QED  BY <1>1, <1>2, <1>3, <1>4

LEMMA EnqueueScanKeeps ==
  ASSUME DueInv, NEW q \in Requests, NEW k \in JobIds, EnqueueScan(q, k)
  PROVE  (Calm /\ Present /\ OneInserter /\ MarksHold /\ Covered /\ QueuedHasJob /\ OneJob)'
<1>0. Calm /\ Present /\ OneInserter /\ MarksHold /\ Covered /\ QueuedHasJob /\ OneJob
      /\ TypeOK
  BY DEF DueInv, TypeInv
<1>a. PICK i \in Images : i = req[q].image
  BY <1>0, Standing, RequestImage DEF EnqueueScan, CommitScan
<1>1. /\ req[q].pc = "enqueue" /\ req[q] # Idle /\ i = req[q].image
      /\ UNCHANGED <<nexus, deliveries, target, ledger, cleanup, watch, session, count>>
      /\ NewJob(k, i, req[q].source) /\ Goto(q, "commit")
  BY <1>0, <1>a, Standing DEF EnqueueScan, world
<1>2. /\ \A p \in Requests \ {q} : req'[p] = req[p]
      /\ req'[q].image = i /\ req'[q].source = req[q].source
      /\ req'[q].seen = req[q].seen /\ req'[q].lost = req[q].lost /\ req'[q].pc = "commit"
      /\ req'[q] # Idle
  BY <1>0, <1>1, GoesOn DEF Idle
<1>3. /\ WatchAlike /\ observed' = observed /\ jobs[k] = NoJob
      /\ jobs'[k] = [pc |-> "queued", image |-> i, ok |-> FALSE, source |-> req[q].source,
                     seen |-> NoRow, lost |-> FALSE]
      /\ \A m \in JobIds \ {k} : jobs'[m] = jobs[m]
  BY <1>0, <1>1, UnchangedAlike, NewJobIs
<1>4. \A p \in Requests, j \in Images : Adding(p, j)' <=> Adding(p, j)
  BY <1>1, <1>2 DEF Adding
<1>5. Calm'
  BY <1>0, <1>1, <1>2, <1>3 DEF Calm
<1>6. Present'
  BY <1>0, <1>1, <1>2, <1>3 DEF Present
<1>7. OneInserter'
  <2>1. \A j \in Images : \A pc : At(j, pc)' <=> At(j, pc)
    BY <1>1 DEF At
  <2>. QED  BY <1>0, <1>1, <1>4, <2>1 DEF OneInserter
<1>8. MarksHold'
  <2>1. \A j \in Images : ledger[j] = NoRow => session.digest[j] = None
    BY <1>0 DEF MarksHold, MarkOK
  <2>. QED  BY <1>0, <1>1, <1>3, <2>1, MarksStay
<1>9. Covered'
  <2> SUFFICES ASSUME NEW j \in Images PROVE credit'[j] >= Owed(j)'
    BY DEF Covered
  <2>0. credit[j] \in Int /\ credit[j] >= Owed(j)
    BY <1>0 DEF TypeOK, Covered
  <2>1. CASE j # i \/ req[q].source # "webhook"
    <3>1. Paid(j)' <=> Paid(j)
      BY <1>1, <1>2, <1>4, <2>1 DEF Paid, Adding, At
    <3>2. Owed(j)' = Owed(j)
      BY <1>1, <1>3, <3>1, OwedStays
    <3>3. req[q].source \in {"webhook", "manual"}
      BY <1>0, <1>1, RequestImage
    <3>4. credit'[j] = credit[j]
      BY <1>0, <1>1, <2>1, <3>3 DEF NewJob, TypeOK
    <3>. QED  BY <2>0, <3>2, <3>4
  <2>2. CASE j = i /\ req[q].source = "webhook"
    <3>1. Adding(q, i) /\ nexus[i] # None /\ RepoOf[i] \in observed
      BY <1>1, <2>2, WebhookAdds
    <3>2. ledger[i] = NoRow /\ session.add[i] = None /\ \A p \in Requests : Adding(p, i) => p = q
      BY <1>0, <1>1, <3>1 DEF OneInserter
    <3>3. ~Paid(i)
      BY <1>1, <3>2 DEF Paid
    <3>4. Paid(i)'
      BY <1>2, <1>4, <2>2, <3>1 DEF Paid
    <3>5. credit'[i] = credit[i] - 1
      BY <1>0, <1>1, <2>2 DEF NewJob, TypeOK
    <3>6. /\ Visited(i)' <=> Visited(i)
          /\ watch' = watch /\ nexus' = nexus /\ ledger' = ledger /\ observed' = observed
      BY <1>1, <1>3 DEF Visited
    <3>7. Owed(i) = 1 + IF Visited(i) THEN Moved(watch.listing[i], nexus[i]) ELSE 0
      BY <3>1, <3>2, <3>3 DEF Owed, Differ
    <3>8. Owed(i)' = 0 + IF Visited(i) THEN Moved(watch.listing[i], nexus[i]) ELSE 0
      BY <3>1, <3>2, <3>4, <3>6 DEF Owed, Moved
    <3>. QED  BY <2>0, <2>2, <3>5, <3>7, <3>8 DEF Moved
  <2>. QED  BY <2>1, <2>2
<1>10. QueuedHasJob'
  <2> SUFFICES ASSUME NEW j \in Images
               PROVE  /\ Committing(j)' => \E m \in JobIds : Fresh(m, j)'
                      /\ ledger'[j].state = "queued" => \E m \in JobIds : Will(m, j)'
    BY DEF QueuedHasJob
  <2>1. Committing(j)' => Committing(j) \/ j = i
    BY <1>1, <1>2 DEF Committing, WatchAt
  <2>. QED  BY <1>0, <1>1, <2>1, NewJobAdds DEF QueuedHasJob
<1>11. OneJob'
  <2> SUFFICES ASSUME count["asks"] = 0
               PROVE  /\ \A p \in Requests : req'[p] # Idle => req'[p].source = "webhook"
                      /\ \A j \in Images : OneJobOf(j)'
    BY <1>1 DEF OneJob
  <2>1. \A p \in Requests : req'[p] # Idle => req'[p].source = "webhook"
    BY <1>0, <1>1, <1>2 DEF OneJob
  <2>2. ASSUME NEW j \in Images PROVE OneJobOf(j)'
    <3>1. OneJobOf(j) /\ watch' = watch /\ ledger' = ledger
      BY <1>0, <1>1 DEF OneJob
    <3>2. /\ Coming(j)' <=> Coming(j)
          /\ At(j, "enqueue")' <=> At(j, "enqueue")
      BY <1>1 DEF Coming, At
    <3>3. Committing(i)' /\ (Committing(j) => Committing(j)')
      BY <1>1, <1>2 DEF Committing, WatchAt
    <3>4. CASE j # i
      <4>1. InFlight(j)' = InFlight(j)
        BY <1>0, <1>1, <3>4, NewJobAdds
      <4>. QED  BY <3>1, <3>2, <3>3, <4>1 DEF OneJobOf
    <3>5. CASE j = i
      <4>1. InFlight(i) = {}
        BY <1>0, <1>1, <2>1, NoneInFlight, WebhookAdds DEF OneJob
      <4>2. InFlight(i)' = {k}
        BY <1>0, <1>1, <4>1, NewJobAdds
      <4>. QED  BY <3>1, <3>2, <3>3, <3>5, <4>2 DEF OneJobOf
    <3>. QED  BY <3>4, <3>5
  <2>. QED  BY <2>1, <2>2
<1>. QED  BY <1>5, <1>6, <1>7, <1>8, <1>9, <1>10, <1>11

LEMMA CommitScanKeeps ==
  ASSUME DueInv, NEW q \in Requests, CommitScan(q)
  PROVE  (Calm /\ Present /\ OneInserter /\ MarksHold /\ Covered /\ QueuedHasJob /\ OneJob)'
<1>0. Calm /\ Present /\ OneInserter /\ MarksHold /\ Covered /\ QueuedHasJob /\ OneJob
      /\ TypeOK
  BY DEF DueInv, TypeInv
<1>a. PICK i \in Images : i = req[q].image
  BY <1>0, Standing, RequestImage DEF EnqueueScan, CommitScan
<1>1. /\ req[q].pc = "commit" /\ req[q] # Idle /\ i = req[q].image /\ ~req[q].lost
      /\ UNCHANGED <<nexus, deliveries, target, cleanup, watch, session, jobs, count, observed, credit>>
  BY <1>0, <1>a, Standing DEF CommitScan, world, history, Calm
<1>2. req'[q] = Idle /\ \A p \in Requests \ {q} : req'[p] = req[p]
  BY <1>0 DEF CommitScan, Leave, TypeOK
<1>3. /\ \A j \in Images \ {i} : ledger'[j] = ledger[j]
      /\ IF Adding(q, i) THEN ledger'[i] = Queued(None)
         ELSE /\ ledger'[i].digest = ledger[i].digest /\ ledger[i] # NoRow /\ ledger'[i] # NoRow
              /\ ledger'[i].state = "queued" \/ ledger'[i] = ledger[i]
  <2>1. ledger \in [Images -> Row]
    BY <1>0 DEF TypeOK
  <2>2. /\ ledger' = [ledger EXCEPT ![i] =
                     IF req[q].seen = NoRow THEN Queued(None)
                     ELSE IF req[q].seen.state = "queued" THEN @
                     ELSE [@ EXCEPT !.state = "queued"]]
        /\ Adding(q, i) <=> req[q].seen = NoRow
    BY <1>1 DEF CommitScan, Adding
  <2>3. ~Adding(q, i) => ledger[i] # NoRow
    BY <1>0, <1>1, <2>2 DEF Present
  <2>4. \A e \in Entry : /\ [e EXCEPT !.state = "queued"].digest = e.digest
                         /\ [e EXCEPT !.state = "queued"].state = "queued"
                         /\ [e EXCEPT !.state = "queued"] # NoRow
    BY DEF Entry, NoRow
  <2>5. ledger[i] # NoRow => ledger[i] \in Entry
    BY <1>1, <2>1 DEF Row
  <2>. QED  BY <1>1, <2>1, <2>2, <2>3, <2>4, <2>5
<1>4. Adding(q, i) => /\ ledger[i] = NoRow /\ session.add[i] = None /\ ledger'[i] # NoRow
                      /\ session.digest[i] = None /\ ledger'[i].digest = None
                      /\ ledger'[i].state = "queued"
                      /\ \A p \in Requests : Adding(p, i) => p = q
                      /\ ~At(i, "enqueue") /\ ~At(i, "commit")
                      /\ Coming(i) => watch.known[i] = NoRow
  BY <1>0, <1>1, <1>3 DEF OneInserter, MarksHold, MarkOK, ChosenOK, ComingOK, Queued, NoRow
<1>5. /\ WatchAlike
      /\ \A p \in Requests \ {q}, j \in Images : Adding(p, j)' <=> Adding(p, j)
      /\ \A j \in Images : ~Adding(q, j)'
      /\ \A j \in Images : Committing(j)' => Committing(j)
      /\ \A j \in Images \ {i} : (Committing(j)' <=> Committing(j)) /\ (Paid(j)' <=> Paid(j))
      /\ ~Adding(q, i) => (Paid(i)' <=> Paid(i))
  <2>1. WatchAlike
    BY <1>1, UnchangedAlike
  <2>2. /\ \A p \in Requests \ {q}, j \in Images : Adding(p, j)' <=> Adding(p, j)
        /\ \A j \in Images : ~Adding(q, j)'
    BY <1>1, <1>2 DEF Adding, Idle
  <2>3. /\ \A j \in Images : Committing(j)' => Committing(j)
        /\ \A j \in Images \ {i} : (Committing(j)' <=> Committing(j))
    BY <1>1, <1>2 DEF Committing, WatchAt, Idle
  <2>4. \A j \in Images : j # i \/ ~Adding(q, i) => (Paid(j)' <=> Paid(j))
    BY <1>1, <1>2, <2>2 DEF Paid, Adding, At, Idle
  <2>. QED  BY <2>1, <2>2, <2>3, <2>4
<1>6. Calm'
  BY <1>0, <1>1, <1>2 DEF Calm
<1>7. Present'
  <2>1. \A j \in Images : ledger[j] # NoRow => ledger'[j] # NoRow
    BY <1>3, <1>4
  <2>2. \A p \in Requests \ {q} : req[p] # Idle => req[p].image \in Images
    BY <1>0, RequestImage
  <2>3. \A k \in JobIds : jobs[k].pc = "write" => jobs[k].image \in Images
    BY <1>0, Standing, JobImage
  <2>. QED  BY <1>0, <1>1, <1>2, <2>1, <2>2, <2>3 DEF Present
<1>8. OneInserter'
  <2>1. \A j \in Images : \A pc : At(j, pc)' <=> At(j, pc)
    BY <1>1 DEF At
  <2>. QED  BY <1>0, <1>1, <1>3, <1>4, <1>5, <2>1 DEF OneInserter
<1>9. MarksHold'
  <2>1. \A j \in Images : /\ ledger'[j].digest = ledger[j].digest
                          /\ ledger[j] # NoRow => ledger'[j] # NoRow
                          /\ session.add[j] # None => ledger'[j] = ledger[j]
                          /\ ledger[j] = NoRow => session.digest[j] = None
    BY <1>0, <1>3, <1>4 DEF MarksHold, MarkOK, OneInserter, NoRow
  <2>. QED  BY <1>0, <1>1, <1>5, <2>1, MarksStay
<1>10. Covered'
  <2> SUFFICES ASSUME NEW j \in Images PROVE credit'[j] >= Owed(j)'
    BY DEF Covered
  <2>0. credit[j] \in Int /\ credit[j] >= Owed(j)
    BY <1>0 DEF TypeOK, Covered
  <2>1. CASE j # i \/ ~Adding(q, i)
    <3>1. Owed(j)' = Owed(j)
      BY <1>1, <1>3, <1>5, <2>1, OwedStays
    <3>. QED  BY <1>1, <2>0, <3>1
  <2>2. CASE j = i /\ Adding(q, i)
    <3>1. /\ Visited(i)' <=> Visited(i)
          /\ Ahead(i)' <=> Ahead(i)
          /\ ~At(i, "enqueue")'
          /\ watch' = watch /\ nexus' = nexus /\ observed' = observed
          /\ Ahead(i) => Visited(i)
      BY <1>1, <1>4, <2>2 DEF Visited, Ahead, At
    <3>2. Recorded(i)' = None
      BY <1>1, <1>4, <2>2 DEF Recorded
    <3>3. Owed(i)' =
            IF RepoOf[i] \notin observed
            THEN IF Visited(i) THEN Differ(watch.listing[i], nexus[i]) ELSE 0
            ELSE IF Ahead(i) THEN Moved(watch.listing[i], nexus[i]) ELSE 0
      BY <1>4, <2>2, <3>1, <3>2 DEF Owed, Moved, Differ
    <3>4. Owed(i) =
            IF RepoOf[i] \notin observed
            THEN IF Visited(i) THEN Differ(watch.listing[i], nexus[i]) ELSE 0
            ELSE (IF Paid(i) THEN 0 ELSE Differ(None, nexus[i]))
                   + (IF Visited(i) THEN Moved(watch.listing[i], nexus[i]) ELSE 0)
      BY <1>4, <2>2 DEF Owed
    <3>. QED  BY <1>1, <2>0, <2>2, <3>1, <3>3, <3>4 DEF Moved, Differ
  <2>. QED  BY <2>1, <2>2
<1>11. QueuedHasJob'
  <2>1. \A j \in Images : ledger'[j].state = "queued" => ledger[j].state = "queued" \/ Committing(j)
    BY <1>1, <1>3 DEF Committing
  <2>. QED  BY <1>0, <1>1, <1>5, <2>1 DEF QueuedHasJob, Fresh, Will
<1>12. OneJob'
  <2> SUFFICES ASSUME count["asks"] = 0
               PROVE  /\ \A p \in Requests : req'[p] # Idle => req'[p].source = "webhook"
                      /\ \A j \in Images : OneJobOf(j)'
    BY <1>1 DEF OneJob
  <2>1. \A p \in Requests : req'[p] # Idle => req'[p].source = "webhook"
    BY <1>0, <1>1, <1>2 DEF OneJob
  <2>2. Adding(q, i)
    BY <1>0, <1>1, WebhookAdds DEF OneJob
  <2>3. ASSUME NEW j \in Images PROVE OneJobOf(j)'
    <3>1. OneJobOf(j) /\ watch' = watch /\ InFlight(j)' = InFlight(j)
      BY <1>0, <1>1 DEF OneJob, InFlight
    <3>2. /\ Coming(j)' <=> Coming(j)
          /\ At(j, "enqueue")' <=> At(j, "enqueue")
      BY <1>1 DEF Coming, At
    <3>. QED  BY <1>3, <1>4, <1>5, <2>2, <3>1, <3>2 DEF OneJobOf
  <2>. QED  BY <2>1, <2>3
<1>. QED  BY <1>6, <1>7, <1>8, <1>9, <1>10, <1>11, <1>12

-----------------------------------------------------------------------------
(* The registry, the configuration and the jobs.                           *)

LEMMA PushKeeps ==
  ASSUME DueInv, NEW i \in Images, NEW c \in Contents, Push(i, c)
  PROVE  (Calm /\ Present /\ OneInserter /\ MarksHold /\ Covered /\ QueuedHasJob /\ OneJob)'
<1>0. Calm /\ Present /\ OneInserter /\ MarksHold /\ Covered /\ QueuedHasJob /\ OneJob
      /\ TypeOK
  BY DEF DueInv, TypeInv
<1>1. /\ UNCHANGED <<target, ledger, cleanup, req, watch, session, jobs, observed>>
      /\ nexus'[i] = c /\ c # None /\ nexus[i] # c
      /\ \A j \in Images \ {i} : nexus'[j] = nexus[j]
      /\ deliveries' \subseteq deliveries \union {i}
      /\ credit'[i] = credit[i] + 1 /\ \A j \in Images \ {i} : credit'[j] = credit[j]
      /\ count'["asks"] = count["asks"]
  BY <1>0, ContentsAssumption DEF Push, TypeOK, Digests, Used
<1>2. /\ WatchAlike
      /\ \A j \in Images : (Committing(j)' <=> Committing(j)) /\ (Paid(j)' <=> Paid(j))
      /\ \A p \in Requests, j \in Images : Adding(p, j)' <=> Adding(p, j)
      /\ \A j \in Images : \A pc : At(j, pc)' <=> At(j, pc)
  BY <1>1, UnchangedAlike DEF Committing, Paid, Adding, At, WatchAt
<1>3. Calm'
  BY <1>0, <1>1 DEF Calm
<1>4. Present'
  <2>1. \A j \in Images : nexus[j] # None => nexus'[j] # None
    BY <1>1
  <2>2. \A q \in Requests : req[q] # Idle => req[q].image \in Images
    BY <1>0, RequestImage
  <2>3. deliveries \subseteq Images
    BY <1>0 DEF TypeOK
  <2>. QED  BY <1>0, <1>1, <2>1, <2>2, <2>3 DEF Present
<1>5. OneInserter'
  BY <1>0, <1>1, <1>2 DEF OneInserter
<1>6. MarksHold'
  <2>1. \A j \in Images : /\ session.add[j] # None => ledger'[j] = ledger[j]
                          /\ ledger[j] = NoRow => session.digest[j] = None
    BY <1>0, <1>1 DEF MarksHold, MarkOK
  <2>. QED  BY <1>0, <1>1, <1>2, <2>1, MarksStay
<1>7. Covered'
  <2> SUFFICES ASSUME NEW j \in Images PROVE credit'[j] >= Owed(j)'
    BY DEF Covered
  <2>0. credit[j] \in Int /\ credit[j] >= Owed(j)
    BY <1>0 DEF TypeOK, Covered
  <2>1. /\ Visited(j)' <=> Visited(j)
        /\ Ahead(j)' <=> Ahead(j)
        /\ At(j, "enqueue")' <=> At(j, "enqueue")
        /\ Recorded(j)' = Recorded(j)
        /\ watch' = watch /\ ledger' = ledger /\ observed' = observed
    BY <1>1, <1>2, AlikeMeans DEF Recorded
  <2>2. CASE j # i
    <3>1. Owed(j)' = Owed(j)
      BY <1>1, <1>2, <2>1, <2>2 DEF Owed
    <3>. QED  BY <1>1, <2>0, <2>2, <3>1
  <2>3. CASE j = i
    <3>1. Visited(i) /\ nexus[i] = None => watch.listing[i] = None
      BY <1>0, Standing DEF Present, Visited, Visiting
    <3>2. Owed(i)' <= Owed(i) + 1
      BY <1>1, <1>2, <2>1, <2>3, <3>1 DEF Owed, Moved, Differ
    <3>3. Owed(i)' \in Int /\ Owed(i) \in Int
      BY DEF Owed, Moved, Differ
    <3>. QED  BY <1>1, <2>0, <2>3, <3>2, <3>3
  <2>. QED  BY <2>2, <2>3
<1>8. QueuedHasJob'
  BY <1>0, <1>1, <1>2 DEF QueuedHasJob, Fresh, Will
<1>9. OneJob'
  BY <1>0, <1>1, <1>2, OneJobStays DEF OneJob, CommitsStay
<1>. QED  BY <1>3, <1>4, <1>5, <1>6, <1>7, <1>8, <1>9

\* Deleting a target takes nothing from requests and jobs, and the watcher only
\* its target.
LEMMA ConfigureKeeps ==
  ASSUME DueInv, NEW r \in Repos, NEW m \in Modes, Configure(r, m)
  PROVE  (Calm /\ Present /\ OneInserter /\ MarksHold /\ Covered /\ QueuedHasJob /\ OneJob)'
<1>0. Calm /\ Present /\ OneInserter /\ MarksHold /\ Covered /\ QueuedHasJob /\ OneJob
      /\ TypeOK
  BY DEF DueInv, TypeInv
<1>1. UNCHANGED <<nexus, deliveries, ledger, cleanup, session, count, observed, credit>>
  BY DEF Configure, world, history
<1>2. req' = req /\ jobs' = jobs
  <2>1. CASE Lose({r})
    <3>1. \A q \in Requests : req[q] # Idle => req[q].image \notin {r}
      BY <1>0, RequestImage, NamesAssumption
    <3>2. \A k \in JobIds : jobs[k] # NoJob => jobs[k].image \notin {r}
      BY <1>0, JobImage, NamesAssumption
    <3>3. req' = [q \in Requests |-> req[q]] /\ jobs' = [k \in JobIds |-> jobs[k]]
      BY <2>1, <3>1, <3>2 DEF Lose
    <3>. QED  BY <1>0, <3>3 DEF TypeOK
  <2>. QED  BY <2>1 DEF Configure
<1>3. WatchAlike /\ (watch' # Resting => watch' = watch \/ watch'.lost = watch.lost \union {r})
  <2>1. CASE watch' = watch
    BY <2>1, UnchangedAlike
  <2>2. CASE watch # Resting /\ watch' = [watch EXCEPT !.lost = @ \union {r}]
    <3>1. watch \in Watch \ {Resting}
      BY <1>0, <2>2 DEF TypeOK
    <3>2. watch'.lost = watch.lost \union {r} /\ watch'.pc = watch.pc /\ watch.pc # "idle"
      BY <2>2, <3>1 DEF Watch
    <3>3. /\ watch'.todo = watch.todo /\ watch'.repo = watch.repo
          /\ watch'.listing = watch.listing /\ watch'.known = watch.known
          /\ watch'.left = watch.left /\ watch'.image = watch.image
      BY <2>2, <3>1 DEF Watch
    <3>. QED  BY <2>2, <3>2, <3>3 DEF WatchAlike, Resting
  <2>. QED  BY <2>1, <2>2 DEF Configure, Lose
<1>4. CommitsStay
  BY <1>1, <1>2, <1>3 DEF CommitsStay, Committing, Paid, Adding, At, WatchAt, WatchAlike
<1>5. Calm'
  BY <1>0, <1>1, <1>2, <1>3 DEF Calm, WatchAlike
<1>6. Present'
  BY <1>0, <1>1, <1>2, <1>3 DEF Present, WatchAlike
<1>7. OneInserter'
  BY <1>0, <1>1, <1>2, <1>3, AlikeMeans DEF OneInserter, Adding, WatchAlike
<1>8. MarksHold'
  <2>1. \A j \in Images : /\ session.add[j] # None => ledger'[j] = ledger[j]
                          /\ ledger[j] = NoRow => session.digest[j] = None
    BY <1>0, <1>1 DEF MarksHold, MarkOK
  <2>. QED  BY <1>0, <1>1, <1>3, <2>1, MarksStay
<1>9. Covered'
  BY <1>0, <1>1, <1>3, <1>4, CoveredStays
<1>10. QueuedHasJob'
  BY <1>0, <1>1, <1>2, <1>4, QueuedStays
<1>11. OneJob'
  BY <1>0, <1>1, <1>2, <1>3, <1>4, OneJobStays DEF OneJob
<1>. QED  BY <1>5, <1>6, <1>7, <1>8, <1>9, <1>10, <1>11

\* A job that goes on: while its queuer commits it does not go away, and when
\* it does the row is not queued.
JobMove(k) ==
    /\ UNCHANGED <<nexus, deliveries, cleanup, req, watch, session, observed, credit, count>>
    /\ \A m \in JobIds \ {k} : jobs'[m] = jobs[m]
    /\ ~jobs'[k].lost
    /\ \A j \in Images :
         /\ ledger'[j].digest = ledger[j].digest
         /\ ledger'[j] = NoRow <=> ledger[j] = NoRow
         /\ ledger'[j] # ledger[j] =>
              /\ ledger[j] # NoRow /\ ledger'[j].state # "queued"
              /\ k \in InFlight(j) /\ k \notin InFlight(j)'
         /\ k \in InFlight(j)' => k \in InFlight(j)
         /\ Fresh(k, j) => Fresh(k, j)' \/ ~Committing(j)
         /\ Will(k, j) => Will(k, j)' \/ ledger'[j].state # "queued"
    /\ jobs'[k].pc = "write" => jobs'[k].image \in Images /\ ledger'[jobs'[k].image] # NoRow

LEMMA JobMoveKeeps ==
  ASSUME DueInv, NEW k \in JobIds, JobMove(k)
  PROVE  (Calm /\ Present /\ OneInserter /\ MarksHold /\ Covered /\ QueuedHasJob /\ OneJob)'
<1>0. Calm /\ Present /\ OneInserter /\ MarksHold /\ Covered /\ QueuedHasJob /\ OneJob
      /\ TypeOK
  BY DEF DueInv, TypeInv
<1>1. /\ UNCHANGED <<nexus, deliveries, cleanup, req, watch, session, observed, credit, count>>
      /\ WatchAlike /\ CommitsStay
  BY UnchangedAlike DEF JobMove, CommitsStay, Committing, Paid, Adding, At, WatchAt
<1>2. \A m \in JobIds \ {k}, j \in Images :
          /\ Fresh(m, j) => Fresh(m, j)'
          /\ Will(m, j) => Will(m, j)'
          /\ m \in InFlight(j)' <=> m \in InFlight(j)
  BY DEF JobMove, Fresh, Will, InFlight
<1>3. Calm'
  BY <1>0, <1>1 DEF Calm, JobMove
<1>4. Present'
  <2>1. \A j \in Images : ledger[j] # NoRow => ledger'[j] # NoRow
    BY DEF JobMove
  <2>2. \A q \in Requests : req[q] # Idle => req[q].image \in Images
    BY <1>0, RequestImage
  <2>3. \A m \in JobIds : jobs[m].pc = "write" => jobs[m].image \in Images
    BY <1>0, Standing, JobImage
  <2>4. \A m \in JobIds : jobs'[m].pc = "write" => ledger'[jobs'[m].image] # NoRow
    BY <1>0, <2>1, <2>3 DEF Present, JobMove
  <2>. QED  BY <1>0, <1>1, <2>1, <2>2, <2>4 DEF Present
<1>5. OneInserter'
  BY <1>0, <1>1, AlikeMeans DEF OneInserter, Adding, JobMove
<1>6. MarksHold'
  <2>1. \A j \in Images : /\ session.add[j] # None => ledger'[j] = ledger[j]
                          /\ ledger[j] = NoRow => session.digest[j] = None
                          /\ ledger'[j].digest = ledger[j].digest
                          /\ ledger[j] # NoRow => ledger'[j] # NoRow
    BY <1>0, <1>1 DEF MarksHold, MarkOK, JobMove, OneInserter
  <2>. QED  BY <1>0, <1>1, <2>1, MarksStay
<1>7. Covered'
  <2>1. \A j \in Images : Owed(j)' = Owed(j)
    BY <1>1, OwedStays DEF JobMove, CommitsStay
  <2>. QED  BY <1>0, <1>1, <2>1 DEF Covered
<1>8. QueuedHasJob'
  <2> SUFFICES ASSUME NEW j \in Images
               PROVE  /\ Committing(j)' => \E m \in JobIds : Fresh(m, j)'
                      /\ ledger'[j].state = "queued" => \E m \in JobIds : Will(m, j)'
    BY DEF QueuedHasJob
  <2>1. Committing(j)' => \E m \in JobIds : Fresh(m, j)'
    BY <1>0, <1>1, <1>2 DEF QueuedHasJob, JobMove, CommitsStay
  <2>2. ledger'[j].state = "queued" => \E m \in JobIds : Will(m, j)'
    BY <1>0, <1>2 DEF QueuedHasJob, JobMove
  <2>. QED  BY <2>1, <2>2
<1>9. OneJob'
  <2> SUFFICES ASSUME count["asks"] = 0, NEW j \in Images
               PROVE  OneJobOf(j)'
    BY <1>0, <1>1 DEF OneJob
  <2>1. OneJobOf(j) /\ watch' = watch
    BY <1>0, <1>1 DEF OneJob
  <2>2. InFlight(j)' \subseteq InFlight(j)
    BY <1>2 DEF JobMove, InFlight
  <2>3. /\ Coming(j)' <=> Coming(j)
        /\ At(j, "enqueue")' <=> At(j, "enqueue")
        /\ Committing(j)' <=> Committing(j)
    BY <1>1, AlikeMeans DEF CommitsStay
  <2>4. CASE ledger'[j] = ledger[j]
    BY <2>1, <2>2, <2>3, <2>4 DEF OneJobOf
  <2>5. CASE ledger'[j] # ledger[j]
    <3>1. ledger'[j].state # "queued" /\ k \in InFlight(j) /\ k \notin InFlight(j)'
      BY <2>5 DEF JobMove
    <3>2. InFlight(j)' = {}
      BY <2>1, <2>2, <3>1 DEF OneJobOf
    <3>. QED  BY <2>1, <2>3, <3>1, <3>2 DEF OneJobOf
  <2>. QED  BY <2>4, <2>5
<1>. QED  BY <1>3, <1>4, <1>5, <1>6, <1>7, <1>8, <1>9

LEMMA JobMoves ==
  ASSUME DueInv, Quiet, NEW k \in JobIds, JobStep(k)
  PROVE  JobMove(k)
<1>0. TypeOK /\ Calm /\ Present
  BY DEF DueInv, TypeInv
<1>1. /\ jobs[k] # NoJob /\ jobs[k] \in Job /\ ~jobs[k].lost
      /\ UNCHANGED <<nexus, deliveries, cleanup, req, watch, session, observed, credit, count>>
  BY <1>0, Standing DEF JobStep, StartJob, Scan, RecordRead, RecordWrite, JobAt, world, history,
                        TypeOK, Calm
<1>2. PICK i \in Images : i = jobs[k].image
  BY <1>0, <1>1, JobImage
<1>3. \A job \in Job \ {NoJob} :
        /\ Over(job).pc = "over" /\ ~Over(job).lost
        /\ [job EXCEPT !.pc = "running"].pc = "running"
        /\ [job EXCEPT !.pc = "running"].image = job.image
        /\ [job EXCEPT !.pc = "running"].lost = job.lost
  BY DEF Job, Over
<1>4. \A job \in Job \ {NoJob}, ok \in BOOLEAN :
        /\ [job EXCEPT !.pc = "record", !.ok = ok].pc = "record"
        /\ [job EXCEPT !.pc = "record", !.ok = ok].image = job.image
        /\ [job EXCEPT !.pc = "record", !.ok = ok].lost = job.lost
  BY DEF Job
<1>5. CASE StartJob(k)
  <2>1. /\ ledger' = ledger /\ jobs[k].pc = "queued"
        /\ \A m \in JobIds \ {k} : jobs'[m] = jobs[m]
        /\ jobs'[k].pc = "running" /\ jobs'[k].image = i /\ ~jobs'[k].lost
    BY <1>0, <1>1, <1>2, <1>3, <1>5 DEF StartJob, JobAt, TypeOK
  <2>. QED  BY <1>1, <1>2, <2>1 DEF JobMove, Fresh, Will, InFlight
<1>6. CASE \E ok \in BOOLEAN : Scan(k, ok)
  <2>1. /\ ledger' = ledger /\ jobs[k].pc = "running"
        /\ \A m \in JobIds \ {k} : jobs'[m] = jobs[m]
        /\ jobs'[k].pc = "record" /\ jobs'[k].image = i /\ ~jobs'[k].lost
    BY <1>0, <1>1, <1>2, <1>4, <1>6 DEF Scan, JobAt, TypeOK
  <2>. QED  BY <1>1, <1>2, <2>1 DEF JobMove, Fresh, Will, InFlight
<1>7. CASE RecordRead(k)
  <2>1. /\ ledger' = ledger /\ jobs[k].pc = "record" /\ ~Committing(i)
        /\ \A m \in JobIds \ {k} : jobs'[m] = jobs[m]
    BY <1>0, <1>1, <1>2, <1>7 DEF RecordRead, JobOver, JobAt, TypeOK, Quiet
  <2>2. CASE ledger[i] = NoRow
    <3>1. jobs'[k].pc = "over" /\ ~jobs'[k].lost
      BY <1>0, <1>1, <1>2, <1>3, <1>7, <2>2 DEF RecordRead, JobOver, TypeOK
    <3>. QED  BY <1>1, <1>2, <2>1, <2>2, <3>1 DEF JobMove, Fresh, Will, InFlight, NoRow
  <2>3. CASE ledger[i] # NoRow
    <3>1. jobs'[k].pc = "write" /\ jobs'[k].seen = ledger[i] /\ jobs'[k].image = i /\ ~jobs'[k].lost
      <4>1. jobs'[k] = [jobs[k] EXCEPT !.pc = "write", !.seen = ledger[i]]
        BY <1>0, <1>2, <1>7, <2>3 DEF RecordRead, TypeOK
      <4>. QED  BY <1>1, <1>2, <4>1 DEF Job
    <3>. QED  BY <1>1, <1>2, <2>1, <2>3, <3>1 DEF JobMove, Fresh, Will, InFlight
  <2>. QED  BY <2>2, <2>3
<1>8. CASE RecordWrite(k)
  <2>1. /\ jobs[k].pc = "write" /\ ledger[i] # NoRow /\ ledger[i] \in Entry
        /\ \A m \in JobIds \ {k} : jobs'[m] = jobs[m]
        /\ jobs'[k].pc = "over" /\ ~jobs'[k].lost
    BY <1>0, <1>1, <1>2, <1>3, <1>8 DEF RecordWrite, JobOver, JobAt, TypeOK, Present, Row
  <2>2. Outcome(k) \in {"scanned", "failed"}
    BY DEF Outcome
  <2>3. /\ \A j \in Images \ {i} : ledger'[j] = ledger[j]
        /\ \/ ledger'[i] = ledger[i] /\ jobs[k].seen.state # "queued"
           \/ ledger'[i].state \in {"scanned", "failed"} /\ ledger'[i].digest = ledger[i].digest
              /\ ledger'[i] # NoRow
    <3>1. ledger' = [ledger EXCEPT ![i] = IF jobs[k].seen.state = Outcome(k) THEN ledger[i]
                                           ELSE [ledger[i] EXCEPT !.state = Outcome(k)]]
      BY <1>1, <1>2, <1>8 DEF RecordWrite
    <3>2. ledger'[i] = IF jobs[k].seen.state = Outcome(k) THEN ledger[i]
                       ELSE [ledger[i] EXCEPT !.state = Outcome(k)]
      BY <1>0, <3>1 DEF TypeOK
    <3>3. CASE jobs[k].seen.state = Outcome(k)
      BY <1>0, <2>2, <3>1, <3>2, <3>3 DEF TypeOK
    <3>4. CASE jobs[k].seen.state # Outcome(k)
      <4>1. ledger'[i] = [ledger[i] EXCEPT !.state = Outcome(k)]
        BY <3>2, <3>4
      <4>2. ledger'[i].state = Outcome(k) /\ ledger'[i].digest = ledger[i].digest
        BY <2>1, <4>1 DEF Entry
      <4>3. \A j \in Images \ {i} : ledger'[j] = ledger[j]
        BY <1>0, <3>1 DEF TypeOK
      <4>. QED  BY <2>2, <4>2, <4>3 DEF NoRow
    <3>. QED  BY <3>3, <3>4
  <2>. QED  BY <1>1, <1>2, <2>1, <2>3 DEF JobMove, Fresh, Will, InFlight
<1>. QED  BY <1>5, <1>6, <1>7, <1>8 DEF JobStep

-----------------------------------------------------------------------------
(* The watcher.                                                            *)

\* The way to a content is no longer than by way of another one.
LEMMA MovedBounds ==
  /\ \A x, y : Moved(x, y) \in {0, 1} /\ Differ(x, y) \in {0, 1} /\ Moved(x, y) <= Differ(x, y)
  /\ \A x, y, z : Moved(x, z) <= Moved(x, y) + Moved(y, z)
BY DEF Moved, Differ

LEMMA OwedBounds == \A i \in Images : Owed(i) \in Nat
BY MovedBounds DEF Owed

LEMMA WatcherCalm ==
  ASSUME DueInv, UNCHANGED <<nexus, deliveries, cleanup, req, jobs>>,
         \A j \in Images : ledger[j] # NoRow => ledger'[j] # NoRow,
         watch' # Resting => /\ watch'.lost \subseteq Repos
                             /\ \A j \in Images : watch'.listing[j] # None => nexus[j] # None
  PROVE  Calm' /\ Present'
<1>0. Calm /\ Present /\ TypeOK
  BY DEF DueInv, TypeInv
<1>1. \A q \in Requests : req[q] # Idle => req[q].image \in Images
  BY <1>0, RequestImage
<1>2. \A k \in JobIds : jobs[k].pc = "write" => jobs[k].image \in Images
  BY <1>0, Standing, JobImage
<1>3. Calm'
  BY <1>0 DEF Calm
<1>4. Present'
  BY <1>0, <1>1, <1>2 DEF Present
<1>. QED  BY <1>3, <1>4

\* A cycle, or a target, that is over leaves nothing behind that was not
\* committed: what was listed counts no more.
LEMMA CycleOver ==
  ASSUME DueInv, UNCHANGED <<nexus, ledger, req, jobs, observed, credit, count>>,
         session' = Clean, watch'.pc \in {"idle", "next"}, watch.pc # "commit"
  PROVE  (OneInserter /\ MarksHold /\ Covered /\ QueuedHasJob /\ OneJob)'
<1>0. OneInserter /\ MarksHold /\ Covered /\ QueuedHasJob /\ OneJob /\ TypeOK
  BY DEF DueInv, TypeInv
<1>1. /\ \A j \in Images : session'.add[j] = None /\ session'.digest[j] = None
      /\ \A q \in Requests, j \in Images : Adding(q, j)' <=> Adding(q, j)
      /\ \A j \in Images : /\ ~At(j, "flush")' /\ ~At(j, "enqueue")' /\ ~At(j, "commit")'
                           /\ ~Coming(j)' /\ ~Visited(j)' /\ ~Ahead(j)'
                           /\ Committing(j)' <=> Committing(j)
                           /\ Paid(j)' <=> Paid(j)
  BY DEF Clean, Adding, At, Coming, Looking, Visited, Visiting, Ahead, Committing, Paid, WatchAt
<1>2. OneInserter'
  BY <1>0, <1>1 DEF OneInserter
<1>3. MarksHold'
  BY <1>0, <1>1 DEF MarksHold, MarkOK, ChosenOK, ComingOK, UnseenOK, AdoptOK
<1>4. Covered'
  <2> SUFFICES ASSUME NEW j \in Images PROVE credit'[j] >= Owed(j)'
    BY DEF Covered
  <2>0. credit[j] \in Int /\ credit[j] >= Owed(j)
    BY <1>0 DEF TypeOK, Covered
  <2>1. Owed(j)' = IF RepoOf[j] \notin observed THEN 0
                   ELSE IF ledger[j] = NoRow THEN IF Paid(j) THEN 0 ELSE Differ(None, nexus[j])
                   ELSE Moved(ledger[j].digest, nexus[j])
    BY <1>1, MovedBounds DEF Owed, Recorded
  <2>2. CASE RepoOf[j] \notin observed
    BY <2>0, <2>1, <2>2, OwedBounds
  <2>3. CASE RepoOf[j] \in observed /\ ledger[j] = NoRow
    BY <2>0, <2>1, <2>3, MovedBounds DEF Owed
  <2>4. CASE RepoOf[j] \in observed /\ ledger[j] # NoRow /\ Ahead(j)
    BY <2>0, <2>1, <2>4, MovedBounds DEF Owed
  <2>5. CASE RepoOf[j] \in observed /\ ledger[j] # NoRow /\ ~Ahead(j)
    <3>1. session.digest[j] = None => Recorded(j) = ledger[j].digest
      BY DEF Recorded
    <3>2. session.digest[j] # None => ledger[j].digest = None \/ At(j, "enqueue")
      BY <1>0 DEF MarksHold, MarkOK, At
    <3>3. Moved(ledger[j].digest, nexus[j]) <= Owed(j)
      BY <2>5, <3>1, <3>2, MovedBounds DEF Owed, Moved
    <3>. QED  BY <2>0, <2>1, <2>5, <3>3, MovedBounds, OwedBounds
  <2>. QED  BY <2>2, <2>3, <2>4, <2>5
<1>5. QueuedHasJob'
  BY <1>0, <1>1 DEF QueuedHasJob, Fresh, Will
<1>6. OneJob'
  BY <1>0, <1>1 DEF OneJob, OneJobOf, InFlight
<1>. QED  BY <1>2, <1>3, <1>4, <1>5, <1>6

LEMMA CycleBoundsKeep ==
  ASSUME DueInv, StartCycle \/ EndCycle
  PROVE  (Calm /\ Present /\ OneInserter /\ MarksHold /\ Covered /\ QueuedHasJob /\ OneJob)'
<1>1. /\ UNCHANGED <<nexus, deliveries, cleanup, ledger, req, jobs, observed, credit, count>>
      /\ session' = Clean /\ watch.pc # "commit"
  BY DEF StartCycle, EndCycle, Ended, WatchAt, world, history
<1>2. /\ watch'.pc \in {"idle", "next"}
      /\ watch' # Resting => watch'.lost = {} /\ \A j \in Images : watch'.listing[j] = None
  BY DEF StartCycle, EndCycle, AtNext, Resting
<1>. QED  BY <1>1, <1>2, CycleOver, WatcherCalm

\* Rows are never gone from under the watcher.
LEMMA NoRowGone == ASSUME DueInv, watch # Resting PROVE ~RowGone
BY NamesAssumption DEF DueInv, Calm, RowGone

LEMMA NextFields ==
  ASSUME DueInv, watch # Resting, NextTarget
  PROVE  /\ watch'.pc = "next" /\ watch' # Resting /\ watch'.todo = watch.todo
         /\ watch'.lost \subseteq Repos /\ \A j \in Images : watch'.listing[j] = None
BY DEF NextTarget, AtNext, Resting, DueInv, Calm

\* Nothing is inserted but while a new image is being queued.
LEMMA NothingAdded ==
  ASSUME DueInv, watch.pc \notin {"enqueue", "commit"}
  PROVE  /\ \A j \in Images : session.add[j] = None /\ ~At(j, "enqueue") /\ ~At(j, "commit")
         /\ \A j \in Images : Written(j) =
              IF session.digest[j] = None THEN ledger[j]
              ELSE [state |-> ledger[j].state, digest |-> session.digest[j]]
<1>1. \A j \in Images : session.add[j] = None /\ ~At(j, "enqueue") /\ ~At(j, "commit")
  BY DEF DueInv, OneInserter, At
<1>. QED  BY <1>1 DEF Written, WatchAt

LEMMA ListTargetKeeps ==
  ASSUME DueInv, NEW r \in Repos, ListTarget(r)
  PROVE  (Calm /\ Present /\ OneInserter /\ MarksHold /\ Covered /\ QueuedHasJob /\ OneJob)'
<1>0. Calm /\ Present /\ OneInserter /\ MarksHold /\ Covered /\ QueuedHasJob /\ OneJob
      /\ TypeOK /\ ObservedOK
  BY DEF DueInv, TypeInv
<1>1. /\ UNCHANGED <<nexus, deliveries, target, ledger, cleanup, req, session, jobs, count, observed>>
      /\ watch.pc = "next" /\ r \in watch.todo /\ watch # Resting
  BY Standing DEF ListTarget, WatchAt, world
<1>2. /\ watch'.pc = "read" /\ watch'.todo = watch.todo \ {r} /\ watch'.repo = r
      /\ watch'.listing = nexus /\ watch'.lost = watch.lost /\ watch' # Resting
  BY <1>0, <1>1, WatchFields DEF ListTarget, Watch, Resting
<1>3. \A j \in Images :
        credit'[j] = IF RepoOf[j] = r /\ r \notin observed THEN 0 ELSE credit[j]
  BY <1>0, <1>1 DEF ListTarget, In, ObservedOK
<1>4. \A j \in Images :
        /\ \A pc \in {"flush", "enqueue", "commit"} : ~At(j, pc) /\ ~At(j, pc)'
        /\ ~Coming(j)' /\ ~Visited(j) /\ ~Ahead(j)
        /\ Visited(j)' <=> RepoOf[j] = r
        /\ Ahead(j)' <=> RepoOf[j] = r
        /\ Committing(j)' <=> Committing(j)
        /\ Paid(j)' <=> Paid(j)
        /\ \A q \in Requests : Adding(q, j)' <=> Adding(q, j)
  BY <1>1, <1>2 DEF At, Coming, Looking, Visited, Visiting, Ahead, Committing, Paid, Adding, WatchAt
<1>5. Calm' /\ Present'
  BY <1>0, <1>1, <1>2, WatcherCalm DEF Calm
<1>6. OneInserter'
  BY <1>0, <1>1, <1>4 DEF OneInserter
<1>7. MarksHold'
  BY <1>0, <1>1, <1>2, <1>4 DEF MarksHold, MarkOK, ChosenOK, ComingOK, UnseenOK, AdoptOK
<1>8. Covered'
  <2> SUFFICES ASSUME NEW j \in Images PROVE credit'[j] >= Owed(j)'
    BY DEF Covered
  <2>0. credit[j] \in Int /\ credit[j] >= Owed(j)
    BY <1>0 DEF TypeOK, Covered
  <2>1. CASE RepoOf[j] # r
    <3>1. Owed(j)' = Owed(j)
      BY <1>1, <1>4, <2>1 DEF Owed, Recorded
    <3>. QED  BY <1>3, <2>0, <2>1, <3>1
  <2>2. CASE RepoOf[j] = r
    <3>1. session.digest[j] = None
      BY <1>0, <1>1, <2>2 DEF MarksHold, MarkOK
    <3>2. Owed(j)' = IF r \notin observed THEN 0
                     ELSE IF ledger[j] = NoRow THEN IF Paid(j) THEN 0 ELSE Differ(None, nexus[j])
                     ELSE Moved(ledger[j].digest, nexus[j])
      BY <1>1, <1>2, <1>4, <2>2, MovedBounds DEF Owed, Moved, Differ
    <3>3. r \in observed => Owed(j)' = Owed(j)
      BY <1>4, <2>2, <3>1, <3>2, MovedBounds DEF Owed, Recorded
    <3>. QED  BY <1>3, <2>0, <2>2, <3>2, <3>3
  <2>. QED  BY <2>1, <2>2
<1>9. QueuedHasJob'
  BY <1>0, <1>1, <1>4 DEF QueuedHasJob, Fresh, Will
<1>10. OneJob'
  BY <1>0, <1>1, <1>4 DEF OneJob, OneJobOf, InFlight
<1>. QED  BY <1>5, <1>6, <1>7, <1>8, <1>9, <1>10

LEMMA ReadKnownKeeps ==
  ASSUME DueInv, ReadKnown
  PROVE  (Calm /\ Present /\ OneInserter /\ MarksHold /\ Covered /\ QueuedHasJob /\ OneJob)'
<1>0. Calm /\ Present /\ OneInserter /\ MarksHold /\ Covered /\ QueuedHasJob /\ OneJob
      /\ TypeOK /\ ObservedOK /\ WatchOK
  BY DEF DueInv, TypeInv
<1>1. /\ UNCHANGED <<nexus, deliveries, target, ledger, cleanup, req, session, jobs, count, observed, credit>>
      /\ watch.pc = "read" /\ watch # Resting
  BY Standing DEF ReadKnown, WatchAt, world, history
<1>2. /\ watch'.pc \in {"each", "adopt"} /\ watch'.todo = watch.todo /\ watch'.repo = watch.repo
      /\ watch'.pc = "each" => watch.repo \in watch.base
      /\ watch'.listing = watch.listing /\ watch'.known = ledger /\ watch'.image = watch.image
      /\ watch'.left = {i \in In(watch.repo) : watch.listing[i] # None}
      /\ watch'.lost \subseteq watch.lost /\ watch' # Resting
  BY <1>0, <1>1, WatchFields DEF ReadKnown, Watch, Resting
<1>3. \A j \in Images :
        /\ \A pc \in {"flush", "enqueue", "commit"} : ~At(j, pc) /\ ~At(j, pc)'
        /\ Visited(j)' <=> Visited(j)
        /\ Ahead(j) <=> Visited(j)
        /\ Ahead(j)' => Visited(j)
        /\ Visited(j) /\ ~Ahead(j)' => watch.listing[j] = None
        /\ Coming(j)' => watch.listing[j] # None
        /\ Committing(j)' <=> Committing(j)
        /\ Paid(j)' <=> Paid(j)
        /\ \A q \in Requests : Adding(q, j)' <=> Adding(q, j)
  BY <1>1, <1>2 DEF At, Coming, Looking, Visited, Visiting, Ahead, Committing, Paid, Adding, WatchAt, In
<1>4. Calm' /\ Present'
  BY <1>0, <1>1, <1>2, WatcherCalm DEF Calm, Present
<1>5. OneInserter'
  BY <1>0, <1>1, <1>3 DEF OneInserter
<1>6. MarksHold'
  <2> SUFFICES ASSUME NEW j \in Images
               PROVE  (MarkOK(j) /\ ChosenOK(j) /\ ComingOK(j) /\ UnseenOK(j) /\ AdoptOK(j))'
    BY DEF MarksHold
  <2>0. MarkOK(j) /\ UnseenOK(j)
    BY <1>0 DEF MarksHold
  <2>1. MarkOK(j)'
    BY <1>1, <1>2, <1>3, <2>0 DEF MarkOK
  <2>2. ChosenOK(j)'
    BY <1>3 DEF ChosenOK
  <2>3. ComingOK(j)'
    BY <1>1, <1>2, <1>3 DEF ComingOK
  <2>4. UnseenOK(j)'
    BY <1>1, <2>0 DEF UnseenOK
  <2>5. AdoptOK(j)'
    BY <1>1, <1>2 DEF AdoptOK, In
  <2>. QED  BY <2>1, <2>2, <2>3, <2>4, <2>5
<1>7. Covered'
  <2> SUFFICES ASSUME NEW j \in Images PROVE credit'[j] >= Owed(j)'
    BY DEF Covered
  <2>0. credit[j] \in Int /\ credit[j] >= Owed(j)
    BY <1>0 DEF TypeOK, Covered
  <2>1. CASE ~Visited(j) \/ RepoOf[j] \notin observed \/ ledger[j] = NoRow
    <3>1. Owed(j)' = Owed(j)
      BY <1>1, <1>2, <1>3, <2>1 DEF Owed, Recorded
    <3>. QED  BY <1>1, <2>0, <3>1
  <2>2. CASE Visited(j) /\ RepoOf[j] \in observed /\ ledger[j] # NoRow
    <3>1. session.digest[j] = None
      BY <1>0, <1>3, <2>2 DEF MarksHold, MarkOK
    <3>2. Owed(j) = Moved(ledger[j].digest, watch.listing[j]) + Moved(watch.listing[j], nexus[j])
      BY <1>3, <2>2 DEF Owed
    <3>3. Owed(j)' = Owed(j) \/ Owed(j)' = Moved(ledger[j].digest, nexus[j])
      BY <1>1, <1>2, <1>3, <2>2, <3>1, <3>2, MovedBounds DEF Owed, Recorded
    <3>. QED  BY <1>1, <2>0, <3>2, <3>3, MovedBounds
  <2>. QED  BY <2>1, <2>2
<1>8. QueuedHasJob'
  BY <1>0, <1>1, <1>3 DEF QueuedHasJob, Fresh, Will
<1>9. OneJob'
  <2> SUFFICES ASSUME count["asks"] = 0, NEW j \in Images
               PROVE  OneJobOf(j)'
    BY <1>0, <1>1 DEF OneJob
  <2>1. OneJobOf(j)
    BY <1>0 DEF OneJob
  <2>. QED  BY <1>1, <1>2, <1>3, <2>1 DEF OneJobOf, InFlight
<1>. QED  BY <1>4, <1>5, <1>6, <1>7, <1>8, <1>9

\* What the commit at the end of a target makes of a row.
LEMMA WrittenIs ==
  ASSUME DueInv, NEW j \in Images, watch.pc \notin {"enqueue", "commit"}
  PROVE  /\ Written(j) = NoRow <=> ledger[j] = NoRow
         /\ Written(j).state = ledger[j].state
         /\ session.digest[j] = None => Written(j) = ledger[j]
         /\ ledger[j] # NoRow => Written(j).digest = Recorded(j)
<1>1. /\ session.digest[j] # None => ledger[j] # NoRow
      /\ ledger[j] \in Row
  BY DEF DueInv, TypeInv, TypeOK, MarksHold, MarkOK
<1>2. ledger[j] # NoRow => ledger[j].state # "none"
  BY <1>1 DEF Row, Entry
<1>3. CASE session.digest[j] = None
  BY <1>1, <1>3, NothingAdded DEF Recorded
<1>4. CASE session.digest[j] # None
  <2>1. Written(j) = [state |-> ledger[j].state, digest |-> session.digest[j]]
    BY <1>4, NothingAdded
  <2>. QED  BY <1>1, <1>2, <1>4, <2>1 DEF Recorded, NoRow
<1>. QED  BY <1>3, <1>4

LEMMA FinishTargetKeeps ==
  ASSUME DueInv, FinishTarget
  PROVE  (Calm /\ Present /\ OneInserter /\ MarksHold /\ Covered /\ QueuedHasJob /\ OneJob)'
<1>0. Calm /\ Present /\ OneInserter /\ MarksHold /\ Covered /\ QueuedHasJob /\ OneJob
      /\ TypeOK
  BY DEF DueInv, TypeInv
<1>1. /\ UNCHANGED <<nexus, deliveries, target, cleanup, req, jobs, count, observed, credit>>
      /\ watch.pc = "each" /\ watch # Resting /\ watch.left = {} /\ NextTarget
      /\ \/ ledger' = ledger /\ session' = session
         \/ ledger' = [j \in Images |-> Written(j)] /\ session' = Clean
  BY Standing, NoRowGone DEF FinishTarget, WatchAt, Ended, world, history
<1>2. /\ watch'.pc = "next" /\ watch' # Resting /\ watch'.todo = watch.todo
      /\ watch'.lost \subseteq Repos /\ \A j \in Images : watch'.listing[j] = None
  BY <1>1, NextFields
<1>3. \A j \in Images :
        /\ ledger'[j] = NoRow <=> ledger[j] = NoRow
        /\ ledger'[j].state = ledger[j].state
        /\ ledger[j] # NoRow => Recorded(j)' = Recorded(j)
        /\ session.digest[j] = None => ledger'[j] = ledger[j]
        /\ session'.digest[j] # None => session' = session /\ ledger' = ledger
        /\ session'.add[j] = None /\ session.add[j] = None
  <2>1. CASE ledger' = ledger /\ session' = session
    BY <1>1, <2>1, NothingAdded DEF Recorded
  <2>2. CASE ledger' = [j \in Images |-> Written(j)] /\ session' = Clean
    BY <1>1, <2>2, NothingAdded, WrittenIs DEF Recorded, Clean
  <2>. QED  BY <1>1, <2>1, <2>2
<1>4. \A j \in Images :
        /\ \A pc \in {"flush", "enqueue", "commit"} : ~At(j, pc) /\ ~At(j, pc)'
        /\ ~Coming(j)' /\ ~Visited(j)' /\ ~Ahead(j)' /\ ~Ahead(j)
        /\ Committing(j)' <=> Committing(j)
        /\ Paid(j)' <=> Paid(j)
        /\ \A q \in Requests : Adding(q, j)' <=> Adding(q, j)
  BY <1>1, <1>2 DEF At, Coming, Looking, Visited, Visiting, Ahead, Committing, Paid, Adding, WatchAt
<1>5. Calm' /\ Present'
  BY <1>0, <1>1, <1>2, <1>3, WatcherCalm
<1>6. OneInserter'
  BY <1>0, <1>1, <1>3, <1>4 DEF OneInserter
<1>7. MarksHold'
  <2> SUFFICES ASSUME NEW j \in Images
               PROVE  (MarkOK(j) /\ ChosenOK(j) /\ ComingOK(j) /\ UnseenOK(j) /\ AdoptOK(j))'
    BY DEF MarksHold
  <2>0. MarkOK(j) /\ UnseenOK(j)
    BY <1>0 DEF MarksHold
  <2>1. MarkOK(j)'
    BY <1>1, <1>2, <1>3, <1>4, <2>0 DEF MarkOK
  <2>2. UnseenOK(j)'
    BY <1>1, <1>3, <2>0 DEF UnseenOK, MarkOK
  <2>. QED  BY <1>2, <1>4, <2>1, <2>2 DEF ChosenOK, ComingOK, AdoptOK
<1>8. Covered'
  <2> SUFFICES ASSUME NEW j \in Images PROVE credit'[j] >= Owed(j)'
    BY DEF Covered
  <2>0. credit[j] \in Int /\ credit[j] >= Owed(j)
    BY <1>0 DEF TypeOK, Covered
  <2>1. Owed(j)' = IF RepoOf[j] \notin observed THEN 0
                   ELSE IF ledger[j] = NoRow THEN IF Paid(j) THEN 0 ELSE Differ(None, nexus[j])
                   ELSE Moved(Recorded(j), nexus[j])
    BY <1>1, <1>3, <1>4, MovedBounds DEF Owed
  <2>2. Owed(j)' <= Owed(j) /\ Owed(j)' \in Nat
    BY <1>4, <2>1, MovedBounds DEF Owed
  <2>. QED  BY <1>1, <2>0, <2>2, OwedBounds
<1>9. QueuedHasJob'
  BY <1>0, <1>1, <1>3, <1>4 DEF QueuedHasJob, Fresh, Will
<1>10. OneJob'
  BY <1>0, <1>1, <1>3, <1>4 DEF OneJob, OneJobOf, InFlight
<1>. QED  BY <1>5, <1>6, <1>7, <1>8, <1>9, <1>10

\* An image of the baseline had no row, and nobody is inserting one.
LEMMA AdoptNew ==
  ASSUME DueInv, InsertedByOthers(None) \intersect {i \in watch.left : watch.known[i] = NoRow} = {},
         NEW j \in watch.left, j \in Images, watch.known[j] = NoRow
  PROVE  \A q \in Requests : ~Adding(q, j)
BY NamesAssumption DEF InsertedByOthers, Inserting, Adding

LEMMA AdoptKeeps ==
  ASSUME DueInv, Adopt
  PROVE  (Calm /\ Present /\ OneInserter /\ MarksHold /\ Covered /\ QueuedHasJob /\ OneJob)'
<1>0. Calm /\ Present /\ OneInserter /\ MarksHold /\ Covered /\ QueuedHasJob /\ OneJob
      /\ TypeOK
  BY DEF DueInv, TypeInv
<1>. DEFINE new == {i \in watch.left : watch.known[i] = NoRow}
<1>1. /\ UNCHANGED <<nexus, deliveries, cleanup, req, jobs, count, credit>>
      /\ watch.pc = "adopt" /\ watch # Resting /\ watch.left \subseteq Images
      /\ session' = Clean
  BY <1>0, Standing, WatchFields DEF Adopt, CycleFails, WatchAt, Ended, world, Watch
<1>2. CASE watch' = Resting /\ UNCHANGED <<ledger, target, observed>>
  <2>1. watch'.pc = "idle"
    BY <1>2 DEF Resting
  <2>. QED  BY <1>1, <1>2, <2>1, CycleOver, WatcherCalm
<1>3. CASE /\ \A i \in new : ledger[i] = NoRow
           /\ ledger' = [i \in Images |-> IF i \in new
                     THEN [state |-> "baseline", digest |-> watch.listing[i]] ELSE Written(i)]
           /\ observed' = observed \union {watch.repo}
           /\ NextTarget /\ InsertedByOthers(None) \intersect new = {}
  <2>1. /\ watch'.pc = "next" /\ watch' # Resting /\ watch'.todo = watch.todo
        /\ watch'.lost \subseteq Repos /\ \A j \in Images : watch'.listing[j] = None
    BY <1>1, <1>3, NextFields
  <2>2. \A j \in Images : /\ session'.add[j] = None /\ session'.digest[j] = None
                          /\ session.add[j] = None
    BY <1>1, NothingAdded DEF Clean
  <2>3. \A j \in Images :
          /\ \A pc \in {"flush", "enqueue", "commit"} : ~At(j, pc) /\ ~At(j, pc)'
          /\ ~Coming(j)' /\ ~Visited(j)' /\ ~Ahead(j)'
          /\ Ahead(j) <=> RepoOf[j] = watch.repo
          /\ Visited(j) <=> RepoOf[j] = watch.repo
          /\ Committing(j)' <=> Committing(j)
          /\ Paid(j)' <=> Paid(j)
          /\ \A q \in Requests : Adding(q, j)' <=> Adding(q, j)
    BY <1>1, <2>1, <2>2 DEF At, Coming, Looking, Visited, Visiting, Ahead, Committing, Paid, Adding, WatchAt
  <2>4. \A j \in Images : j \in new =>
          /\ RepoOf[j] = watch.repo /\ watch.listing[j] # None
          /\ ledger[j] = NoRow /\ ledger'[j] # NoRow
          /\ ledger'[j].state = "baseline" /\ ledger'[j].digest = watch.listing[j]
          /\ \A q \in Requests : ~Adding(q, j)
    <3> SUFFICES ASSUME NEW j \in Images, j \in new
                 PROVE  /\ RepoOf[j] = watch.repo /\ watch.listing[j] # None
                        /\ ledger[j] = NoRow /\ ledger'[j] # NoRow
                        /\ ledger'[j].state = "baseline" /\ ledger'[j].digest = watch.listing[j]
                        /\ \A q \in Requests : ~Adding(q, j)
      OBVIOUS
    <3>1. RepoOf[j] = watch.repo /\ watch.listing[j] # None
      BY <1>0, <1>1 DEF MarksHold, AdoptOK
    <3>2. ledger'[j] = [state |-> "baseline", digest |-> watch.listing[j]] /\ ledger[j] = NoRow
      BY <1>3
    <3>3. \A q \in Requests : ~Adding(q, j)
      BY <1>3, AdoptNew
    <3>. QED  BY <3>1, <3>2, <3>3 DEF NoRow
  <2>5. \A j \in Images : j \notin new =>
          /\ ledger'[j] = NoRow <=> ledger[j] = NoRow
          /\ ledger'[j].state = ledger[j].state
          /\ session.digest[j] = None => ledger'[j] = ledger[j]
          /\ ledger[j] # NoRow => ledger'[j].digest = Recorded(j)
    BY <1>1, <1>3, WrittenIs
  <2>6. \A j \in Images : RepoOf[j] = watch.repo =>
          /\ session.digest[j] = None
          /\ ledger[j] = NoRow /\ j \notin new => watch.listing[j] = None
    BY <1>0, <1>1, <2>3 DEF MarksHold, MarkOK, AdoptOK
  <2>7. Calm' /\ Present'
    BY <1>0, <1>1, <2>1, <2>4, <2>5, WatcherCalm
  <2>8. OneInserter'
    BY <1>0, <1>1, <2>2, <2>3, <2>4, <2>5 DEF OneInserter
  <2>9. MarksHold'
    <3>1. \A j \in Images : UnseenOK(j)'
      BY <1>0, <1>3, <2>4, <2>5 DEF MarksHold, MarkOK, UnseenOK
    <3>. QED  BY <2>1, <2>2, <2>3, <3>1 DEF MarksHold, MarkOK, ChosenOK, ComingOK, AdoptOK
  <2>10. Covered'
    <3> SUFFICES ASSUME NEW j \in Images PROVE credit'[j] >= Owed(j)'
      BY DEF Covered
    <3>0. credit[j] \in Int /\ credit[j] >= Owed(j) /\ credit'[j] = credit[j]
      BY <1>0, <1>1 DEF TypeOK, Covered
    <3>1. Recorded(j)' = ledger'[j].digest
      BY <2>2 DEF Recorded
    <3>2. Owed(j)' = IF RepoOf[j] \notin observed' THEN 0
                     ELSE IF ledger'[j] = NoRow THEN IF Paid(j) THEN 0 ELSE Differ(None, nexus[j])
                     ELSE Moved(ledger'[j].digest, nexus[j])
      BY <1>1, <2>3, <3>1, MovedBounds DEF Owed
    <3>3. CASE RepoOf[j] # watch.repo
      <4>1. RepoOf[j] \in observed' <=> RepoOf[j] \in observed
        BY <1>3, <3>3
      <4>2. Owed(j)' <= Owed(j) /\ Owed(j)' \in Nat
        BY <2>3, <2>4, <2>5, <3>2, <3>3, <4>1, MovedBounds DEF Owed
      <4>. QED  BY <3>0, <4>2, OwedBounds
    <3>4. CASE RepoOf[j] = watch.repo /\ j \in new
      <4>1. Owed(j)' = Moved(watch.listing[j], nexus[j])
        BY <1>3, <2>4, <3>2, <3>4
      <4>2. Owed(j) >= Moved(watch.listing[j], nexus[j])
        BY <2>3, <2>4, <3>4, MovedBounds DEF Owed
      <4>. QED  BY <3>0, <4>1, <4>2, MovedBounds, OwedBounds
    <3>5. CASE RepoOf[j] = watch.repo /\ j \notin new /\ ledger[j] = NoRow
      <4>1. Owed(j)' = IF Paid(j) THEN 0 ELSE Differ(None, nexus[j])
        BY <1>3, <2>5, <3>2, <3>5
      <4>2. watch.listing[j] = None
        BY <2>6, <3>5
      <4>3. Owed(j) >= IF Paid(j) THEN 0 ELSE Differ(None, nexus[j])
        BY <2>3, <3>5, <4>2, MovedBounds DEF Owed
      <4>. QED  BY <3>0, <4>1, <4>3, MovedBounds, OwedBounds
    <3>6. CASE RepoOf[j] = watch.repo /\ j \notin new /\ ledger[j] # NoRow
      <4>1. ledger'[j] = ledger[j]
        BY <2>5, <2>6, <3>6
      <4>2. Owed(j)' = Moved(ledger[j].digest, nexus[j])
        BY <1>3, <3>2, <3>6, <4>1
      <4>3. CASE RepoOf[j] \notin observed
        <5>1. ledger[j].digest = None
          BY <1>0, <4>3 DEF MarksHold, UnseenOK
        <5>. QED  BY <3>0, <4>2, <5>1, OwedBounds DEF Moved
      <4>4. CASE RepoOf[j] \in observed
        <5>1. Owed(j) = Moved(ledger[j].digest, watch.listing[j]) + Moved(watch.listing[j], nexus[j])
          BY <2>3, <3>6, <4>4 DEF Owed
        <5>. QED  BY <3>0, <4>2, <5>1, MovedBounds
      <4>. QED  BY <4>3, <4>4
    <3>. QED  BY <3>3, <3>4, <3>5, <3>6
  <2>11. QueuedHasJob'
    BY <1>0, <1>1, <2>3, <2>4, <2>5 DEF QueuedHasJob, Fresh, Will
  <2>12. OneJob'
    <3> SUFFICES ASSUME count["asks"] = 0, NEW j \in Images
                 PROVE  OneJobOf(j)'
      BY <1>0, <1>1 DEF OneJob
    <3>1. OneJobOf(j) /\ InFlight(j)' = InFlight(j)
      BY <1>0, <1>1 DEF OneJob, InFlight
    <3>2. ledger[j].state = "queued" => ledger'[j].state = "queued"
      BY <2>4, <2>5 DEF NoRow
    <3>. QED  BY <2>3, <3>1, <3>2 DEF OneJobOf
  <2>. QED  BY <2>7, <2>8, <2>9, <2>10, <2>11, <2>12
<1>. QED  BY <1>2, <1>3 DEF Adopt, CycleFails

\* One image is looked at; what it may still be scanned for goes over to the
\* scan it is chosen for, or to its digest on record.
LEMMA EachKeeps ==
  ASSUME DueInv, NEW i \in Images, Each(i)
  PROVE  (Calm /\ Present /\ OneInserter /\ MarksHold /\ Covered /\ QueuedHasJob /\ OneJob)'
<1>0. Calm /\ Present /\ OneInserter /\ MarksHold /\ Covered /\ QueuedHasJob /\ OneJob
      /\ TypeOK /\ WatchOK /\ ObservedOK
  BY DEF DueInv, TypeInv
<1>. DEFINE e == watch.known[i]
            d == watch.listing[i]
            marked == e # NoRow /\ e.state # "queued" /\ e.digest # d
<1>1. /\ UNCHANGED <<nexus, deliveries, target, ledger, cleanup, req, jobs, count, observed, credit>>
      /\ watch.pc = "each" /\ watch # Resting /\ i \in watch.left
      /\ session' = IF marked THEN [session EXCEPT !.digest[i] = d] ELSE session
  BY Standing DEF Each, WatchAt, world, history
<1>2. /\ RepoOf[i] = watch.repo /\ watch.repo \in observed /\ RepoOf[i] \notin watch.todo
      /\ d # None
      /\ e # NoRow => ledger[i] # NoRow /\ ledger[i].digest = e.digest
      /\ Coming(i) /\ Ahead(i) /\ Visited(i)
      /\ session.digest[i] = None
  <2>1. RepoOf[i] = watch.repo /\ watch.repo \in observed /\ RepoOf[i] \notin watch.todo
    BY <1>0, <1>1 DEF WatchOK, ObservedOK, Looking, Visiting, In
  <2>2. Coming(i) /\ Ahead(i) /\ Visited(i)
    BY <1>1, <2>1 DEF Coming, Looking, Ahead, Visited, Visiting
  <2>. QED  BY <1>0, <2>1, <2>2 DEF MarksHold, ComingOK, MarkOK
<1>3. /\ watch'.pc = (IF e = NoRow THEN "flush" ELSE IF Repushed(e, d) THEN "enqueue" ELSE "each")
      /\ watch'.todo = watch.todo /\ watch'.repo = watch.repo /\ watch'.listing = watch.listing
      /\ watch'.known = watch.known /\ watch'.left = watch.left \ {i} /\ watch'.image = i
      /\ watch'.lost = watch.lost /\ watch' # Resting
  BY <1>0, <1>1, WatchFields DEF Each, Watch, Resting
<1>4. /\ session'.add = session.add
      /\ \A j \in Images \ {i} : session'.digest[j] = session.digest[j]
      /\ session'.digest[i] = IF marked THEN d ELSE None
  BY <1>0, <1>1, <1>2 DEF TypeOK, Digests
<1>5. \A j \in Images :
        /\ \A pc \in {"flush", "enqueue", "commit"} : ~At(j, pc)
        /\ ~At(j, "commit")'
        /\ j # i => ~At(j, "flush")' /\ ~At(j, "enqueue")'
        /\ Visited(j)' <=> Visited(j)
        /\ Ahead(j)' <=> Ahead(j) /\ j # i
        /\ Coming(j)' <=> Coming(j) /\ j # i
        /\ Committing(j)' <=> Committing(j)
        /\ Paid(j)' <=> Paid(j)
        /\ session.add[j] = None
        /\ \A q \in Requests : Adding(q, j)' <=> Adding(q, j)
  BY <1>1, <1>3, NothingAdded
     DEF At, Coming, Looking, Visited, Visiting, Ahead, Committing, Paid, Adding, WatchAt
<1>6. At(i, "enqueue")' <=> e # NoRow /\ Repushed(e, d)
  BY <1>3 DEF At
<1>7. Calm' /\ Present'
  BY <1>0, <1>1, <1>3, WatcherCalm DEF Calm, Present
<1>8. OneInserter'
  BY <1>0, <1>1, <1>4, <1>5 DEF OneInserter
<1>9. MarksHold'
  <2> SUFFICES ASSUME NEW j \in Images
               PROVE  (MarkOK(j) /\ ChosenOK(j) /\ ComingOK(j) /\ UnseenOK(j) /\ AdoptOK(j))'
    BY DEF MarksHold
  <2>0. MarkOK(j) /\ ChosenOK(j) /\ ComingOK(j) /\ UnseenOK(j)
    BY <1>0 DEF MarksHold
  <2>1. MarkOK(j)'
    <3>1. CASE j # i
      BY <1>1, <1>3, <1>4, <1>5, <2>0, <3>1 DEF MarkOK
    <3>2. CASE j = i
      <4>1. session'.digest[i] # None => marked
        BY <1>4
      <4>2. marked => e.digest = None \/ Repushed(e, d)
        BY DEF Repushed
      <4>. QED  BY <1>1, <1>2, <1>3, <1>5, <1>6, <3>2, <4>1, <4>2 DEF MarkOK
    <3>. QED  BY <3>1, <3>2
  <2>2. ChosenOK(j)'
    <3>1. CASE j # i
      BY <1>5, <3>1 DEF ChosenOK
    <3>2. CASE j = i
      <4>1. At(i, "enqueue")' => session'.digest[i] = d /\ ledger'[i] # NoRow
        BY <1>1, <1>2, <1>4, <1>6 DEF Repushed
      <4>. QED  BY <1>2, <1>3, <1>5, <3>2, <4>1 DEF ChosenOK
    <3>. QED  BY <3>1, <3>2
  <2>3. ComingOK(j)'
    BY <1>1, <1>3, <1>5, <2>0 DEF ComingOK
  <2>4. UnseenOK(j)' /\ AdoptOK(j)'
    BY <1>1, <1>3, <2>0 DEF UnseenOK, AdoptOK
  <2>. QED  BY <2>1, <2>2, <2>3, <2>4
<1>10. Covered'
  <2> SUFFICES ASSUME NEW j \in Images PROVE credit'[j] >= Owed(j)'
    BY DEF Covered
  <2>0. credit[j] \in Int /\ credit[j] >= Owed(j) /\ credit'[j] = credit[j]
    BY <1>0, <1>1 DEF TypeOK, Covered
  <2>1. CASE j # i \/ ledger[j] = NoRow
    <3>1. j # i => Recorded(j)' = Recorded(j)
      BY <1>1, <1>4 DEF Recorded
    <3>2. Owed(j)' = Owed(j)
      BY <1>1, <1>3, <1>5, <2>1, <3>1 DEF Owed
    <3>. QED  BY <2>0, <3>2
  <2>2. CASE j = i /\ ledger[i] # NoRow
    <3>1. Owed(i) = Moved(ledger[i].digest, d) + Moved(d, nexus[i])
      BY <1>2, <2>2 DEF Owed
    <3>2. Owed(i)' = (IF e # NoRow /\ Repushed(e, d) THEN 1 ELSE 0)
                       + Moved(Recorded(i)', nexus[i])
      BY <1>1, <1>2, <1>3, <1>5, <1>6, <2>2 DEF Owed
    <3>3. Recorded(i)' = IF marked THEN d ELSE ledger[i].digest
      BY <1>1, <1>2, <1>4 DEF Recorded
    <3>4. CASE e # NoRow /\ Repushed(e, d)
      <4>1. marked /\ Moved(ledger[i].digest, d) = 1
        BY <1>2, <3>4 DEF Repushed, Moved
      <4>. QED  BY <2>0, <2>2, <3>1, <3>2, <3>3, <3>4, <4>1
    <3>5. CASE ~(e # NoRow /\ Repushed(e, d)) /\ marked
      BY <2>0, <2>2, <3>1, <3>2, <3>3, <3>5, MovedBounds
    <3>6. CASE ~(e # NoRow /\ Repushed(e, d)) /\ ~marked
      <4>1. Moved(ledger[i].digest, nexus[i])
               <= Moved(ledger[i].digest, d) + Moved(d, nexus[i])
        BY MovedBounds
      <4>2. Owed(i)' = Moved(ledger[i].digest, nexus[i])
        BY <3>2, <3>3, <3>6, MovedBounds
      <4>. QED  BY <2>0, <2>2, <3>1, <4>1, <4>2, MovedBounds, OwedBounds
    <3>. QED  BY <3>4, <3>5, <3>6
  <2>. QED  BY <2>1, <2>2
<1>11. QueuedHasJob'
  BY <1>0, <1>1, <1>5 DEF QueuedHasJob, Fresh, Will
<1>12. OneJob'
  <2> SUFFICES ASSUME count["asks"] = 0, NEW j \in Images
               PROVE  OneJobOf(j)'
    BY <1>0, <1>1 DEF OneJob
  <2>1. OneJobOf(j) /\ OneJobOf(i) /\ InFlight(j)' = InFlight(j)
    BY <1>0, <1>1 DEF OneJob, InFlight
  <2>2. At(j, "enqueue")' => ledger[j].state # "queued"
    BY <1>2, <1>5, <1>6, <2>1 DEF OneJobOf, Repushed
  <2>. QED  BY <1>1, <1>3, <1>5, <2>1, <2>2 DEF OneJobOf
<1>. QED  BY <1>7, <1>8, <1>9, <1>10, <1>11, <1>12

LEMMA FlushNewKeeps ==
  ASSUME DueInv, FlushNew
  PROVE  (Calm /\ Present /\ OneInserter /\ MarksHold /\ Covered /\ QueuedHasJob /\ OneJob)'
<1>0. Calm /\ Present /\ OneInserter /\ MarksHold /\ Covered /\ QueuedHasJob /\ OneJob
      /\ TypeOK /\ WatchOK
  BY DEF DueInv, TypeInv
<1>1. /\ UNCHANGED <<nexus, deliveries, target, ledger, cleanup, req, jobs, count, observed, credit>>
      /\ watch.pc = "flush" /\ watch # Resting
  BY Standing DEF FlushNew, WatchAt, world, history
<1>2. PICK i \in Images : i = watch.image
  BY <1>0, <1>1 DEF WatchOK, Chosen, In
<1>3. CASE CycleFails
  <2>1. watch' = Resting /\ watch'.pc = "idle" /\ session' = Clean
    BY <1>3 DEF CycleFails, Resting, Ended
  <2>. QED  BY <1>1, <2>1, CycleOver, WatcherCalm
<1>4. CASE /\ ledger[i] = NoRow
           /\ session' = [session EXCEPT !.add[i] = watch.listing[i]]
           /\ watch' = [watch EXCEPT !.pc = "enqueue"]
           /\ i \notin InsertedByOthers(None)
  <2>1. /\ watch'.pc = "enqueue" /\ watch' # Resting /\ watch'.todo = watch.todo
        /\ watch'.repo = watch.repo /\ watch'.listing = watch.listing
        /\ watch'.known = watch.known /\ watch'.left = watch.left /\ watch'.image = i
        /\ watch'.lost = watch.lost
    BY <1>0, <1>1, <1>2, <1>4, WatchFields DEF Watch, Resting
  <2>2. /\ session'.digest = session.digest /\ session'.add[i] = watch.listing[i]
        /\ \A j \in Images : session.add[j] = None
        /\ \A j \in Images \ {i} : session'.add[j] = None
    BY <1>0, <1>1, <1>4, NothingAdded DEF TypeOK, Digests
  <2>3. i \notin watch.left /\ watch.listing[i] # None /\ \A q \in Requests : ~Adding(q, i)
    <3>1. \A q \in Requests : ~Adding(q, i)
      BY <1>4, NamesAssumption DEF InsertedByOthers, Inserting, Adding
    <3>. QED  BY <1>0, <1>1, <1>2, <3>1 DEF MarksHold, ChosenOK, At
  <2>4. \A j \in Images :
          /\ ~At(j, "enqueue") /\ ~At(j, "commit")
          /\ ~At(j, "flush")' /\ ~At(j, "commit")'
          /\ At(j, "enqueue")' <=> j = i
          /\ Visited(j)' <=> Visited(j)
          /\ Ahead(j)' <=> Ahead(j)
          /\ Coming(j)' <=> Coming(j)
          /\ Committing(j)' <=> Committing(j)
          /\ Paid(j)' <=> Paid(j)
          /\ \A q \in Requests : Adding(q, j)' <=> Adding(q, j)
    BY <1>1, <2>1, <2>2
       DEF At, Coming, Looking, Visited, Visiting, Ahead, Committing, Paid, Adding, WatchAt
  <2>5. Calm' /\ Present'
    BY <1>0, <1>1, <2>1, WatcherCalm DEF Calm, Present
  <2>6. OneInserter'
    BY <1>0, <1>1, <1>4, <2>1, <2>2, <2>3, <2>4 DEF OneInserter
  <2>7. MarksHold'
    <3> SUFFICES ASSUME NEW j \in Images
                 PROVE  (MarkOK(j) /\ ChosenOK(j) /\ ComingOK(j) /\ UnseenOK(j) /\ AdoptOK(j))'
      BY DEF MarksHold
    <3>0. MarkOK(j) /\ ChosenOK(j) /\ ComingOK(j) /\ UnseenOK(j)
      BY <1>0 DEF MarksHold
    <3>1. MarkOK(j)'
      BY <1>1, <2>1, <2>2, <2>4, <3>0 DEF MarkOK
    <3>2. ChosenOK(j)'
      BY <1>1, <1>4, <2>1, <2>2, <2>3, <2>4 DEF ChosenOK
    <3>3. ComingOK(j)' /\ UnseenOK(j)' /\ AdoptOK(j)'
      BY <1>1, <2>1, <2>4, <3>0 DEF ComingOK, UnseenOK, AdoptOK
    <3>. QED  BY <3>1, <3>2, <3>3
  <2>8. Covered'
    <3>1. \A j \in Images : Owed(j)' = Owed(j)
      BY <1>1, <1>4, <2>1, <2>2, <2>4 DEF Owed, Recorded
    <3>. QED  BY <1>0, <1>1, <3>1 DEF Covered
  <2>9. QueuedHasJob'
    BY <1>0, <1>1, <2>4 DEF QueuedHasJob, Fresh, Will
  <2>10. OneJob'
    <3> SUFFICES ASSUME count["asks"] = 0, NEW j \in Images
                 PROVE  OneJobOf(j)'
      BY <1>0, <1>1 DEF OneJob
    <3>1. OneJobOf(j) /\ InFlight(j)' = InFlight(j)
      BY <1>0, <1>1 DEF OneJob, InFlight
    <3>. QED  BY <1>1, <1>4, <2>1, <2>4, <3>1 DEF OneJobOf, NoRow
  <2>. QED  BY <2>5, <2>6, <2>7, <2>8, <2>9, <2>10
<1>. QED  BY <1>2, <1>3, <1>4 DEF FlushNew

LEMMA EnqueueNewKeeps ==
  ASSUME DueInv, NEW k \in JobIds, EnqueueNew(k)
  PROVE  (Calm /\ Present /\ OneInserter /\ MarksHold /\ Covered /\ QueuedHasJob /\ OneJob)'
<1>0. Calm /\ Present /\ OneInserter /\ MarksHold /\ Covered /\ QueuedHasJob /\ OneJob
      /\ TypeOK /\ WatchOK /\ ObservedOK
  BY DEF DueInv, TypeInv
<1>1. PICK i \in Images : i = watch.image
  BY <1>0 DEF WatchOK, Chosen, In, EnqueueNew, WatchAt
<1>2. /\ UNCHANGED <<nexus, deliveries, target, ledger, cleanup, req, session, count>>
      /\ watch.pc = "enqueue" /\ watch # Resting /\ NewJob(k, i, "push")
  BY <1>1, Standing DEF EnqueueNew, WatchAt, world
<1>3. /\ watch'.pc = "commit" /\ watch' # Resting /\ watch'.todo = watch.todo
      /\ watch'.repo = watch.repo /\ watch'.listing = watch.listing
      /\ watch'.known = watch.known /\ watch'.left = watch.left /\ watch'.image = i
      /\ watch'.lost = watch.lost
  BY <1>0, <1>1, <1>2, WatchFields DEF EnqueueNew, Watch, Resting
<1>4. /\ jobs[k].pc = "new" /\ jobs'[k].pc = "queued" /\ ~jobs'[k].lost
      /\ \A m \in JobIds \ {k} : jobs'[m] = jobs[m]
      /\ observed' = observed
      /\ credit'[i] = credit[i] - 1 /\ \A j \in Images \ {i} : credit'[j] = credit[j]
  BY <1>0, <1>2 DEF NewJob, NoJob, TypeOK
<1>5. /\ RepoOf[i] = watch.repo /\ watch.repo \in observed
      /\ i \notin watch.left /\ watch.listing[i] # None /\ nexus[i] # None
      /\ IF ledger[i] = NoRow THEN session.add[i] # None ELSE session.digest[i] = watch.listing[i]
      /\ ledger[i] # NoRow => session.add[i] = None
      /\ session.add[i] # None => \A q \in Requests : ~Adding(q, i)
  <2>1. RepoOf[i] = watch.repo /\ watch.repo \in observed
    BY <1>0, <1>1, <1>2 DEF WatchOK, ObservedOK, Looking, Chosen, In
  <2>2. At(i, "enqueue")
    BY <1>1, <1>2 DEF At
  <2>3. i \notin watch.left /\ watch.listing[i] # None
    BY <1>0, <2>2 DEF MarksHold, ChosenOK
  <2>. QED  BY <1>0, <1>2, <2>1, <2>2, <2>3 DEF MarksHold, ChosenOK, Present, OneInserter
<1>6. \A j \in Images :
        /\ At(j, "enqueue") <=> j = i
        /\ ~At(j, "flush") /\ ~At(j, "commit")
        /\ ~At(j, "enqueue")' /\ ~At(j, "flush")'
        /\ At(j, "commit")' <=> j = i
        /\ Visited(j)' <=> Visited(j)
        /\ Ahead(j)' <=> Ahead(j)
        /\ Coming(j)' <=> Coming(j)
        /\ Committing(j)' <=> (Committing(j) \/ j = i)
        /\ \A q \in Requests : Adding(q, j)' <=> Adding(q, j)
  BY <1>1, <1>2, <1>3
     DEF At, Coming, Looking, Visited, Visiting, Ahead, Committing, Adding, WatchAt
<1>a. \A j \in Images : Paid(j)' <=> (Paid(j) \/ (j = i /\ session.add[i] # None))
  BY <1>2, <1>6 DEF Paid
<1>7. Calm'
  BY <1>0, <1>2, <1>3, <1>4 DEF Calm
<1>8. Present'
  BY <1>0, <1>2, <1>3, <1>4 DEF Present
<1>9. OneInserter'
  BY <1>0, <1>2, <1>3, <1>6 DEF OneInserter
<1>10. MarksHold'
  <2> SUFFICES ASSUME NEW j \in Images
               PROVE  (MarkOK(j) /\ ChosenOK(j) /\ ComingOK(j) /\ UnseenOK(j) /\ AdoptOK(j))'
    BY DEF MarksHold
  <2>0. MarkOK(j) /\ ChosenOK(j) /\ ComingOK(j) /\ UnseenOK(j)
    BY <1>0 DEF MarksHold
  <2>1. MarkOK(j)' /\ ChosenOK(j)'
    BY <1>2, <1>3, <1>4, <1>6, <2>0 DEF MarkOK, ChosenOK
  <2>2. ComingOK(j)' /\ UnseenOK(j)' /\ AdoptOK(j)'
    BY <1>2, <1>3, <1>4, <1>6, <2>0 DEF ComingOK, UnseenOK, AdoptOK
  <2>. QED  BY <2>1, <2>2
<1>11. Covered'
  <2> SUFFICES ASSUME NEW j \in Images PROVE credit'[j] >= Owed(j)'
    BY DEF Covered
  <2>0. credit[j] \in Int /\ credit[j] >= Owed(j)
    BY <1>0 DEF TypeOK, Covered
  <2>1. Recorded(j)' = Recorded(j)
    BY <1>2 DEF Recorded
  <2>2. CASE j # i
    <3>1. Owed(j)' = Owed(j)
      BY <1>2, <1>3, <1>4, <1>6, <1>a, <2>1, <2>2 DEF Owed
    <3>. QED  BY <1>4, <2>0, <2>2, <3>1
  <2>3. CASE j = i /\ ledger[i] = NoRow
    <3>1. ~Paid(i) /\ Paid(i)'
      BY <1>5, <1>6, <1>a, <2>3 DEF Paid
    <3>2. Owed(i) = 1 + IF Visited(i) THEN Moved(watch.listing[i], nexus[i]) ELSE 0
      BY <1>5, <2>3, <3>1 DEF Owed, Differ
    <3>3. Owed(i)' = 0 + IF Visited(i) THEN Moved(watch.listing[i], nexus[i]) ELSE 0
      BY <1>2, <1>3, <1>4, <1>5, <1>6, <2>3, <3>1 DEF Owed, Moved
    <3>. QED  BY <1>4, <2>0, <2>3, <3>2, <3>3, MovedBounds
  <2>4. CASE j = i /\ ledger[i] # NoRow
    <3>1. ~Ahead(i)
      BY <1>2, <1>5 DEF Ahead
    <3>2. Owed(i) = 1 + Moved(Recorded(i), nexus[i])
      BY <1>5, <1>6, <2>4, <3>1 DEF Owed
    <3>3. Owed(i)' = 0 + Moved(Recorded(i), nexus[i])
      BY <1>2, <1>4, <1>5, <1>6, <2>1, <2>4, <3>1 DEF Owed
    <3>. QED  BY <1>4, <2>0, <2>4, <3>2, <3>3, MovedBounds
  <2>. QED  BY <2>2, <2>3, <2>4
<1>12. QueuedHasJob'
  <2> SUFFICES ASSUME NEW j \in Images
               PROVE  /\ Committing(j)' => \E m \in JobIds : Fresh(m, j)'
                      /\ ledger'[j].state = "queued" => \E m \in JobIds : Will(m, j)'
    BY DEF QueuedHasJob
  <2>. QED  BY <1>0, <1>2, <1>6, NewJobAdds DEF QueuedHasJob
<1>13. OneJob'
  <2> SUFFICES ASSUME count["asks"] = 0, NEW j \in Images
               PROVE  OneJobOf(j)'
    BY <1>0, <1>2 DEF OneJob
  <2>1. OneJobOf(j) /\ OneJobOf(i)
    BY <1>0 DEF OneJob
  <2>2. CASE j # i
    <3>1. InFlight(j)' = InFlight(j)
      BY <1>0, <1>2, <2>2, NewJobAdds
    <3>. QED  BY <1>2, <1>3, <1>6, <2>1, <2>2, <3>1 DEF OneJobOf
  <2>3. CASE j = i
    <3>1. ASSUME NEW q \in Requests, req[q].pc = "commit", req[q].image = i PROVE FALSE
      <4>1. req[q].source = "webhook"
        BY <1>0, <3>1, Standing DEF OneJob
      <4>2. Adding(q, i)
        BY <3>1, <4>1, WebhookAdds
      <4>. QED  BY <1>0, <1>5, <4>2 DEF OneInserter
    <3>2. ~Committing(i)
      BY <1>2, <3>1 DEF Committing, WatchAt
    <3>3. InFlight(i) = {}
      BY <1>6, <2>1, <3>2 DEF OneJobOf
    <3>4. InFlight(i)' = {k}
      BY <1>0, <1>2, <3>3, NewJobAdds
    <3>. QED  BY <1>2, <1>3, <1>6, <2>1, <2>3, <3>4 DEF OneJobOf
  <2>. QED  BY <2>2, <2>3
<1>. QED  BY <1>7, <1>8, <1>9, <1>10, <1>11, <1>12, <1>13

LEMMA CommitNewKeeps ==
  ASSUME DueInv, CommitNew
  PROVE  (Calm /\ Present /\ OneInserter /\ MarksHold /\ Covered /\ QueuedHasJob /\ OneJob)'
<1>0. Calm /\ Present /\ OneInserter /\ MarksHold /\ Covered /\ QueuedHasJob /\ OneJob
      /\ TypeOK /\ WatchOK /\ ObservedOK
  BY DEF DueInv, TypeInv
<1>1. PICK i \in Images : i = watch.image
  BY <1>0 DEF WatchOK, Chosen, In, CommitNew, WatchAt
<1>2. /\ UNCHANGED <<nexus, deliveries, target, cleanup, req, jobs, count, observed, credit>>
      /\ watch.pc = "commit" /\ watch # Resting
      /\ ledger' = [j \in Images |-> Written(j)] /\ session' = Clean
      /\ watch' = [watch EXCEPT !.pc = "each"]
  BY Standing, NoRowGone DEF CommitNew, WatchAt, Ended, world, history
<1>3. /\ watch'.pc = "each" /\ watch' # Resting /\ watch'.todo = watch.todo
      /\ watch'.repo = watch.repo /\ watch'.listing = watch.listing
      /\ watch'.known = watch.known /\ watch'.left = watch.left
      /\ watch'.lost = watch.lost
  BY <1>0, <1>2, WatchFields DEF Watch, Resting
<1>4. /\ RepoOf[i] = watch.repo /\ watch.repo \in observed
      /\ i \notin watch.left /\ watch.listing[i] # None
      /\ IF ledger[i] = NoRow THEN session.add[i] = watch.listing[i]
         ELSE session.digest[i] = watch.listing[i]
      /\ \A j \in Images \ {i} : session.add[j] = None
      /\ \A q \in Requests : ~Adding(q, i)
      /\ \A j \in Images : session'.add[j] = None /\ session'.digest[j] = None
  <2>1. RepoOf[i] = watch.repo /\ watch.repo \in observed
    BY <1>0, <1>1, <1>2 DEF WatchOK, ObservedOK, Looking, Chosen, In
  <2>2. At(i, "commit") /\ \A j \in Images \ {i} : ~At(j, "commit") /\ ~At(j, "enqueue")
    BY <1>1, <1>2 DEF At
  <2>3. /\ i \notin watch.left /\ watch.listing[i] # None
        /\ IF ledger[i] = NoRow THEN session.add[i] # None
           ELSE session.digest[i] = watch.listing[i]
    BY <1>0, <2>2 DEF MarksHold, ChosenOK
  <2>4. \A j \in Images : session'.add[j] = None /\ session'.digest[j] = None
    BY <1>2 DEF Clean
  <2>. QED  BY <1>0, <2>1, <2>2, <2>3, <2>4 DEF OneInserter
<1>5. ledger'[i] # NoRow /\ ledger'[i].state = "queued" /\ ledger'[i].digest = watch.listing[i]
  <2>1. ledger'[i] = [state |-> "queued", digest |-> watch.listing[i]]
    BY <1>0, <1>1, <1>2, <1>4 DEF Written, Queued, WatchAt, OneInserter
  <2>. QED  BY <2>1 DEF NoRow
<1>6. \A j \in Images \ {i} :
        /\ ledger'[j] = NoRow <=> ledger[j] = NoRow
        /\ ledger'[j].state = ledger[j].state
        /\ session.digest[j] = None => ledger'[j] = ledger[j]
        /\ ledger[j] # NoRow => ledger'[j].digest = Recorded(j)
  <2> SUFFICES ASSUME NEW j \in Images \ {i}
               PROVE  /\ ledger'[j] = NoRow <=> ledger[j] = NoRow
                      /\ ledger'[j].state = ledger[j].state
                      /\ session.digest[j] = None => ledger'[j] = ledger[j]
                      /\ ledger[j] # NoRow => ledger'[j].digest = Recorded(j)
    OBVIOUS
  <2>1. session.digest[j] # None => ledger[j] # NoRow /\ ledger[j].state # "none"
    BY <1>0 DEF MarksHold, MarkOK, TypeOK, Row, Entry
  <2>2. ledger'[j] = IF session.digest[j] = None THEN ledger[j]
                     ELSE [state |-> ledger[j].state, digest |-> session.digest[j]]
    BY <1>1, <1>2, <1>4 DEF Written, WatchAt
  <2>. QED  BY <2>1, <2>2 DEF Recorded, NoRow
<1>7. \A j \in Images :
        /\ At(j, "commit") <=> j = i
        /\ ~At(j, "enqueue") /\ ~At(j, "flush")
        /\ ~At(j, "enqueue")' /\ ~At(j, "flush")' /\ ~At(j, "commit")'
        /\ Visited(j)' <=> Visited(j)
        /\ Ahead(j)' <=> Ahead(j)
        /\ Coming(j)' <=> Coming(j)
        /\ Coming(j) => Ahead(j) /\ j # i
        /\ Committing(j)' => Committing(j)
        /\ j # i => (Committing(j)' <=> Committing(j)) /\ (Paid(j)' <=> Paid(j))
        /\ \A q \in Requests : Adding(q, j)' <=> Adding(q, j)
  BY <1>1, <1>2, <1>3, <1>4
     DEF At, Coming, Looking, Visited, Visiting, Ahead, Committing, Paid, Adding, WatchAt
<1>8. Calm' /\ Present'
  BY <1>0, <1>2, <1>3, <1>5, <1>6, WatcherCalm DEF Calm, Present
<1>9. OneInserter'
  BY <1>0, <1>2, <1>4, <1>6, <1>7 DEF OneInserter
<1>10. MarksHold'
  <2> SUFFICES ASSUME NEW j \in Images
               PROVE  (MarkOK(j) /\ ChosenOK(j) /\ ComingOK(j) /\ UnseenOK(j) /\ AdoptOK(j))'
    BY DEF MarksHold
  <2>0. MarkOK(j) /\ ComingOK(j) /\ UnseenOK(j)
    BY <1>0 DEF MarksHold
  <2>1. MarkOK(j)' /\ ChosenOK(j)' /\ AdoptOK(j)'
    BY <1>3, <1>4, <1>7 DEF MarkOK, ChosenOK, AdoptOK
  <2>2. ComingOK(j)'
    BY <1>3, <1>6, <1>7, <2>0 DEF ComingOK, MarkOK
  <2>3. UnseenOK(j)'
    BY <1>2, <1>4, <1>6, <2>0 DEF UnseenOK, MarkOK
  <2>. QED  BY <2>1, <2>2, <2>3
<1>11. Covered'
  <2> SUFFICES ASSUME NEW j \in Images PROVE credit'[j] >= Owed(j)'
    BY DEF Covered
  <2>0. credit[j] \in Int /\ credit[j] >= Owed(j) /\ credit'[j] = credit[j]
    BY <1>0, <1>2 DEF TypeOK, Covered
  <2>1. Recorded(j)' = ledger'[j].digest
    BY <1>4 DEF Recorded
  <2>2. CASE j # i
    <3>1. Ahead(j) /\ ledger[j] # NoRow => ledger'[j] = ledger[j]
      BY <1>0, <1>6, <2>2 DEF MarksHold, MarkOK
    <3>2. Owed(j)' = Owed(j)
      BY <1>2, <1>3, <1>6, <1>7, <2>1, <2>2, <3>1 DEF Owed
    <3>. QED  BY <2>0, <3>2
  <2>3. CASE j = i
    <3>1. Visited(i) /\ ~Ahead(i) /\ RepoOf[i] \in observed
      BY <1>2, <1>4 DEF Visited, Visiting, Ahead
    <3>2. Owed(i)' = Moved(watch.listing[i], nexus[i])
      BY <1>2, <1>5, <1>7, <2>1, <2>3, <3>1, MovedBounds DEF Owed
    <3>3. ledger[i] = NoRow => Paid(i)
      BY <1>4, <1>7 DEF Paid
    <3>4. ledger[i] # NoRow => Recorded(i) = watch.listing[i]
      BY <1>4 DEF Recorded
    <3>5. Owed(i) = Moved(watch.listing[i], nexus[i])
      BY <1>7, <3>1, <3>3, <3>4, MovedBounds DEF Owed
    <3>. QED  BY <2>0, <2>3, <3>2, <3>5
  <2>. QED  BY <2>2, <2>3
<1>12. QueuedHasJob'
  <2>1. \A j \in Images : ledger'[j].state = "queued" => ledger[j].state = "queued" \/ Committing(j)
    BY <1>1, <1>2, <1>6 DEF Committing, WatchAt
  <2>. QED  BY <1>0, <1>2, <1>7, <2>1 DEF QueuedHasJob, Fresh, Will
<1>13. OneJob'
  <2> SUFFICES ASSUME count["asks"] = 0, NEW j \in Images
               PROVE  OneJobOf(j)'
    BY <1>0, <1>2 DEF OneJob
  <2>1. OneJobOf(j) /\ InFlight(j)' = InFlight(j)
    BY <1>0, <1>2 DEF OneJob, InFlight
  <2>. QED  BY <1>3, <1>5, <1>6, <1>7, <2>1 DEF OneJobOf
<1>. QED  BY <1>8, <1>9, <1>10, <1>11, <1>12, <1>13

-----------------------------------------------------------------------------
LEMMA StepDue ==
  ASSUME Quiet, DueInv, NoScanBeforeBaseline, [Next]_vars
  PROVE  DueInv' /\ NoScanBeforeBaseline'
<1>1. ObservedInv'
  BY StepObserved DEF DueInv, ObservedInv
<1>2. (Calm /\ Present /\ OneInserter /\ MarksHold /\ Covered /\ QueuedHasJob /\ OneJob)'
  <2>1. CASE Next
    <3>1. ASSUME NEW q \in Requests, RequestStep(q)
          PROVE  (Calm /\ Present /\ OneInserter /\ MarksHold /\ Covered /\ QueuedHasJob /\ OneJob)'
      BY <3>1, EarlySteps, EarlyKeeps, EnqueueScanKeeps, CommitScanKeeps DEF RequestStep
    <3>2. ASSUME NEW q \in Requests, NEW i \in Images, Deliver(q, i) \/ Ask(q, i)
          PROVE  (Calm /\ Present /\ OneInserter /\ MarksHold /\ Covered /\ QueuedHasJob /\ OneJob)'
      BY <3>2, EarlySteps, EarlyKeeps
    <3>3. CASE WatchStep
      BY <3>3, CycleBoundsKeep, ReadKnownKeeps, AdoptKeeps, FlushNewKeeps, CommitNewKeeps,
         FinishTargetKeeps, ListTargetKeeps, EachKeeps, EnqueueNewKeeps DEF WatchStep
    <3>4. ASSUME NEW k \in JobIds, JobStep(k)
          PROVE  (Calm /\ Present /\ OneInserter /\ MarksHold /\ Covered /\ QueuedHasJob /\ OneJob)'
      BY <3>4, JobMoves, JobMoveKeeps
    <3>5. TypeOK /\ cleanup = {}
      BY DEF DueInv, TypeInv, Calm
    <3>. QED  BY <2>1, <3>1, <3>2, <3>3, <3>4, <3>5, QuietSteps, PushKeeps, ConfigureKeeps
  <2>2. CASE UNCHANGED vars
    <3>1. UNCHANGED <<nexus, deliveries, target, ledger, cleanup, req, watch, session, jobs,
                      count, observed, credit>>
      BY <2>2 DEF vars, world, history
    <3>2. Calm' /\ Present'
      BY <3>1 DEF DueInv, Calm, Present
    <3>3. WatchAlike /\ CommitsStay
      BY <3>1 DEF WatchAlike, CommitsStay, Committing, Paid, Adding, At, WatchAt
    <3>4. OneInserter'
      BY <3>1 DEF DueInv, OneInserter, Adding, At
    <3>5. MarksHold'
      BY <3>1 DEF DueInv, MarksHold, MarkOK, ChosenOK, ComingOK, UnseenOK, AdoptOK, At, Ahead,
                  Visited, Coming
    <3>6. Covered' /\ QueuedHasJob'
      BY <3>1, <3>3, CoveredStays, QueuedStays DEF DueInv
    <3>7. OneJob'
      BY <3>1, <3>3, OneJobStays DEF DueInv, OneJob
    <3>. QED  BY <3>2, <3>4, <3>5, <3>6, <3>7
  <2>. QED  BY <2>1, <2>2
<1>. QED  BY <1>1, <1>2 DEF DueInv, ObservedInv

LEMMA DueHolds == DueInv => ScansAreDue
<1> SUFFICES ASSUME DueInv PROVE ScansAreDue
  OBVIOUS
<1>1. NoUnpromptedScan
  <2> SUFFICES ASSUME NEW i \in Images PROVE credit[i] >= 0
    BY DEF NoUnpromptedScan
  <2>1. credit[i] \in Int /\ credit[i] >= Owed(i)
    BY DEF DueInv, TypeInv, TypeOK, Covered
  <2>. QED  BY <2>1, OwedBounds
<1>2. QueuedInFlight
  BY DEF DueInv, QueuedHasJob, QueuedInFlight, InFlight, Will, Fresh
<1>3. OneScanAtATime
  <2> SUFFICES ASSUME count["asks"] = 0, NEW i \in Images
               PROVE  Cardinality(InFlight(i)) <= 1
    BY DEF OneScanAtATime
  <2>1. \A k1, k2 \in InFlight(i) : k1 = k2
    BY DEF DueInv, OneJob, OneJobOf
  <2>2. CASE InFlight(i) = {}
    BY <2>2, FS_EmptySet
  <2>3. ASSUME NEW k \in InFlight(i)
        PROVE  Cardinality(InFlight(i)) <= 1
    <3>1. InFlight(i) = {k}
      BY <2>1
    <3>2. Cardinality({k}) = 1
      BY FS_Singleton
    <3>3. Cardinality(InFlight(i)) = 1
      BY <3>1, <3>2
    <3>. QED  BY <3>3
  <2>. QED  BY <2>2, <2>3
<1>. QED  BY <1>1, <1>2, <1>3 DEF ScansAreDue

\* Where nothing is deleted, dropped or fails, and jobs record their outcome
\* after their queuer's commit: for every scan nobody asked for there was a push,
\* a queued row has its scan, and while nobody asks no image has two.
THEOREM ScansAreDueCorrect == Quiet => (Spec => []ScansAreDue)
<1> SUFFICES ASSUME Quiet PROVE Spec => []ScansAreDue
  OBVIOUS
<1>1. Init => DueInv /\ NoScanBeforeBaseline
  BY InitTyped, InitObserved, DueStarts DEF DueInv
<1>2. (DueInv /\ NoScanBeforeBaseline) /\ [Next]_vars => (DueInv /\ NoScanBeforeBaseline)'
  BY StepDue
<1>. QED  BY <1>1, <1>2, DueHolds, PTL DEF Spec
=============================================================================
