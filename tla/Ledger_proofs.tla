---------------------------- MODULE Ledger_proofs ----------------------------
(***************************************************************************)
(* What the two settings of MCLedger keep: "hostile" by the theorems about *)
(* ScanLedger itself, "prompt" by those about its instance.                *)
(***************************************************************************)
EXTENDS MCLedger, ScanLedger_proofs

Due == INSTANCE ScanLedger_proofs WITH
    Contents <- {c1, c2}, Requests <- {q1, q2}, Sources <- {"webhook", "manual"},
    JobIds <- {k1, k2}, PromptCommit <- TRUE, MaxPushes <- 2, MaxAsks <- 1,
    MaxDeletes <- 0, MaxDrops <- 0, MaxFaults <- 0, MaxCrashes <- 0

\* Its assumptions hold.
LEMMA PromptMeets ==
  /\ RepoOf \in [Images -> Repos]
  /\ Due!None \notin {c1, c2}
  /\ {"webhook", "manual"} \subseteq {"webhook", "manual"}
  /\ {2, 1, 0, 0, 0, 0} \subseteq Nat
  /\ Modes \subseteq {"none", "off", "on"}
  /\ Images \intersect Repos = {} /\ Due!None \notin {q1, q2}
BY ImagesAssumption, ModesAssumption, NamesAssumption, PromptNames DEF None, Due!None

\* Prompt and Due are one system: every definition says the same of both.
LEMMA SameInit == Prompt!Init => Due!Init
BY DEF Prompt!Init, Due!Init, Prompt!None, Due!None, Prompt!NoRow, Due!NoRow,
   Prompt!Idle, Due!Idle, Prompt!Resting, Due!Resting, Prompt!Clean, Due!Clean,
   Prompt!NoJob, Due!NoJob

LEMMA SameNext == Prompt!Next => Due!Next
<1>. USE DEF Prompt!None, Due!None, Prompt!NoRow, Due!NoRow, Prompt!Idle, Due!Idle,
   Prompt!Resting, Due!Resting, Prompt!NoJob, Due!NoJob, Prompt!Clean, Due!Clean,
   Prompt!Queued, Due!Queued, Prompt!world, Due!world, Prompt!history, Due!history,
   Prompt!In, Due!In, Prompt!Used, Due!Used, Prompt!Lose, Due!Lose, Prompt!Goto,
   Due!Goto, Prompt!Leave, Due!Leave, Prompt!NewJob, Due!NewJob, Prompt!WatchAt,
   Due!WatchAt, Prompt!AtNext, Due!AtNext, Prompt!NextTarget, Due!NextTarget,
   Prompt!Ended, Due!Ended, Prompt!CycleFails, Due!CycleFails, Prompt!Inserting,
   Due!Inserting, Prompt!InsertedByOthers, Due!InsertedByOthers,
   Prompt!InsertedByWatcher, Due!InsertedByWatcher
<1>1. \A i \in Images, c \in {c1, c2} : Prompt!Push(i, c) => Due!Push(i, c)
  BY DEF Prompt!Push, Due!Push
<1>2. \A i \in Images : Prompt!DeleteTag(i) => Due!DeleteTag(i)
  BY DEF Prompt!DeleteTag, Due!DeleteTag
<1>3. \A i \in Images : Prompt!forget_deleted_images(i) => Due!forget_deleted_images(i)
  BY DEF Prompt!forget_deleted_images, Due!forget_deleted_images
<1>4. \A r \in Repos, m \in Modes : Prompt!Configure(r, m) => Due!Configure(r, m)
  BY DEF Prompt!Configure, Due!Configure
<1>5. \A r \in Repos : Prompt!DeleteRepo(r) => Due!DeleteRepo(r)
  BY DEF Prompt!DeleteRepo, Due!DeleteRepo
<1>6. \A r \in Repos : Prompt!forget_repository(r) => Due!forget_repository(r)
  BY DEF Prompt!forget_repository, Due!forget_repository
<1>7. \A r \in Repos : Prompt!ListFails(r) => Due!ListFails(r)
  BY DEF Prompt!ListFails, Due!ListFails
<1>8. \A q \in {q1, q2}, i \in Images : Prompt!Deliver(q, i) => Due!Deliver(q, i)
  BY DEF Prompt!Deliver, Due!Deliver
<1>9. \A q \in {q1, q2}, i \in Images : Prompt!Ask(q, i) => Due!Ask(q, i)
  BY DEF Prompt!Ask, Due!Ask
<1>10. \A q \in {q1, q2} : Prompt!Gate(q) => Due!Gate(q)
  BY DEF Prompt!Gate, Due!Gate
<1>11. \A q \in {q1, q2} : Prompt!Resolve(q) => Due!Resolve(q)
  BY DEF Prompt!Resolve, Due!Resolve
<1>12. \A q \in {q1, q2} : Prompt!Flush(q) => Due!Flush(q)
  BY DEF Prompt!Flush, Due!Flush
<1>13. \A q \in {q1, q2} : Prompt!CommitScan(q) => Due!CommitScan(q)
  BY DEF Prompt!CommitScan, Due!CommitScan
<1>14. \A q \in {q1, q2}, k \in {k1, k2} : Prompt!EnqueueScan(q, k) => Due!EnqueueScan(q, k)
  BY DEF Prompt!EnqueueScan, Due!EnqueueScan
<1>15. \A q \in {q1, q2} : Prompt!EnqueueScanFails(q) => Due!EnqueueScanFails(q)
  BY DEF Prompt!EnqueueScanFails, Due!EnqueueScanFails
<1>16. Prompt!StartCycle => Due!StartCycle
  BY DEF Prompt!StartCycle, Due!StartCycle
<1>17. Prompt!ReadKnown => Due!ReadKnown
  BY DEF Prompt!ReadKnown, Due!ReadKnown
<1>18. Prompt!Adopt => Due!Adopt
  BY DEF Prompt!Adopt, Due!Adopt, Prompt!RowGone, Due!RowGone, Prompt!Written,
     Due!Written
<1>19. Prompt!FlushNew => Due!FlushNew
  BY DEF Prompt!FlushNew, Due!FlushNew
<1>20. Prompt!CommitNew => Due!CommitNew
  BY DEF Prompt!CommitNew, Due!CommitNew, Prompt!RowGone, Due!RowGone, Prompt!Written,
     Due!Written
<1>21. Prompt!FinishTarget => Due!FinishTarget
  BY DEF Prompt!FinishTarget, Due!FinishTarget, Prompt!RowGone, Due!RowGone,
     Prompt!Written, Due!Written
<1>22. Prompt!EndCycle => Due!EndCycle
  BY DEF Prompt!EndCycle, Due!EndCycle
<1>23. \A r \in Repos : Prompt!ListTarget(r) => Due!ListTarget(r)
  BY DEF Prompt!ListTarget, Due!ListTarget
<1>24. \A i \in Images : Prompt!Each(i) => Due!Each(i)
  BY DEF Prompt!Each, Due!Each, Prompt!Repushed, Due!Repushed
<1>25. \A k \in {k1, k2} : Prompt!EnqueueNew(k) => Due!EnqueueNew(k)
  BY DEF Prompt!EnqueueNew, Due!EnqueueNew
<1>26. Prompt!EnqueueNewFails => Due!EnqueueNewFails
  BY DEF Prompt!EnqueueNewFails, Due!EnqueueNewFails
<1>27. \A k \in {k1, k2} : Prompt!StartJob(k) => Due!StartJob(k)
  BY DEF Prompt!StartJob, Due!StartJob, Prompt!JobAt, Due!JobAt
<1>28. \A k \in {k1, k2}, ok \in BOOLEAN : Prompt!Scan(k, ok) => Due!Scan(k, ok)
  BY DEF Prompt!Scan, Due!Scan, Prompt!JobAt, Due!JobAt
<1>29. \A k \in {k1, k2} : Prompt!RecordRead(k) => Due!RecordRead(k)
  BY DEF Prompt!RecordRead, Due!RecordRead, Prompt!JobAt, Due!JobAt,
     Prompt!Committing, Due!Committing, Prompt!JobOver, Due!JobOver, Prompt!Over,
     Due!Over
<1>30. \A k \in {k1, k2} : Prompt!RecordWrite(k) => Due!RecordWrite(k)
  BY DEF Prompt!RecordWrite, Due!RecordWrite, Prompt!JobAt, Due!JobAt, Prompt!JobOver,
     Due!JobOver, Prompt!Over, Due!Over, Prompt!Outcome, Due!Outcome
<1>31. \A k \in {k1, k2} : Prompt!DropJob(k) => Due!DropJob(k)
  BY DEF Prompt!DropJob, Due!DropJob, Prompt!JobOver, Due!JobOver, Prompt!Over,
     Due!Over
<1>32. \A S \in SUBSET Images : Prompt!ResetLedger(S) => Due!ResetLedger(S)
  BY DEF Prompt!ResetLedger, Due!ResetLedger
<1>33. Prompt!Crash => Due!Crash
  BY DEF Prompt!Crash, Due!Crash, Prompt!Over, Due!Over
<1>. QED
  BY <1>1, <1>2, <1>3, <1>4, <1>5, <1>6, <1>7, <1>8, <1>9, <1>10, <1>11, <1>12, <1>13,
     <1>14, <1>15, <1>16, <1>17, <1>18, <1>19, <1>20, <1>21, <1>22, <1>23, <1>24,
     <1>25, <1>26, <1>27, <1>28, <1>29, <1>30, <1>31, <1>32, <1>33 DEF Prompt!Next,
     Due!Next, Prompt!RequestStep, Due!RequestStep, Prompt!WatchStep, Due!WatchStep,
     Prompt!JobStep, Due!JobStep

LEMMA SameTypes == Due!TypeOK => Prompt!TypeOK
<1>. USE DEF Prompt!None, Due!None, Prompt!NoRow, Due!NoRow, Prompt!Idle, Due!Idle,
   Prompt!Resting, Due!Resting, Prompt!NoJob, Due!NoJob, Prompt!Digests, Due!Digests,
   Prompt!Entry, Due!Entry, Prompt!Row, Due!Row
<1>1. Due!Request = Prompt!Request
  BY DEF Prompt!Request, Due!Request
<1>2. Due!Job = Prompt!Job
  BY DEF Prompt!Job, Due!Job
<1>3. Due!Watch = Prompt!Watch
  BY DEF Prompt!Watch, Due!Watch
<1>. QED
  BY <1>1, <1>2, <1>3 DEF Prompt!TypeOK, Due!TypeOK

LEMMA SameDue == Due!ScansAreDue => Prompt!ScansAreDue
BY DEF Prompt!ScansAreDue, Due!ScansAreDue, Prompt!NoUnpromptedScan,
   Due!NoUnpromptedScan, Prompt!QueuedInFlight, Due!QueuedInFlight, Prompt!InFlight,
   Due!InFlight, Prompt!Cardinality, Due!Cardinality, Prompt!OneScanAtATime, Due!OneScanAtATime

-----------------------------------------------------------------------------
(* Both settings.                                                          *)

HostileInv == ObservedInv /\ EarnedInv
PromptInv  == Due!DueInv /\ Due!NoScanBeforeBaseline /\ Due!EarnedInv

LedgerInv == IF setting = "hostile" THEN HostileInv ELSE PromptInv

LEMMA LedgerStarts == Either => LedgerInv
<1>1. setting = "hostile" /\ Init => LedgerInv
  BY InitTyped, InitObserved, InitEarned DEF LedgerInv, HostileInv, ObservedInv, EarnedInv
<1>2. setting = "prompt" /\ Prompt!Init => LedgerInv
  BY SameInit, PromptMeets, Due!InitTyped, Due!InitObserved, Due!InitEarned, Due!DueStarts
     DEF LedgerInv, PromptInv, Due!DueInv, Due!EarnedInv
<1>. QED  BY <1>1, <1>2 DEF Either

LedgerNext == /\ UNCHANGED setting
              /\ \/ setting = "hostile" /\ Next
                 \/ setting = "prompt" /\ Prompt!Next

LEMMA LedgerStep == LedgerInv /\ [LedgerNext]_<<setting, vars>> => LedgerInv'
<1> SUFFICES ASSUME LedgerInv, [LedgerNext]_<<setting, vars>>
             PROVE  LedgerInv'
  OBVIOUS
<1>1. setting' = setting
  BY DEF LedgerNext
<1>2. CASE setting = "hostile"
  <2>1. [Next]_vars
    BY <1>2 DEF LedgerNext
  <2>. QED  BY <1>1, <1>2, <2>1, StepObserved, StepEarned DEF LedgerInv, HostileInv
<1>3. CASE setting # "hostile"
  <2>1. [Due!Next]_Due!vars
    BY <1>3, SameNext DEF LedgerNext, vars, Due!vars, world, Due!world, history, Due!history
  <2>2. Due!Quiet
    BY DEF Due!Quiet
  <2>. QED  BY <1>1, <1>3, <2>1, <2>2, PromptMeets, Due!StepDue, Due!StepEarned DEF LedgerInv, PromptInv
<1>. QED  BY <1>2, <1>3

(***************************************************************************)
(* Both settings keep the types of the ledger, of the pollers, the         *)
(* requests and the jobs.                                                  *)
(***************************************************************************)
THEOREM LedgersTypedCorrect == LedgerSpec => []LedgersTyped
<1>1. LedgerInv => LedgersTyped
  BY SameTypes DEF LedgerInv, HostileInv, ObservedInv, PromptInv, LedgersTyped, TypeInv, Due!DueInv, Due!TypeInv
<1>. QED  BY <1>1, LedgerStarts, LedgerStep, PTL DEF LedgerSpec, LedgerNext

(***************************************************************************)
(* In the setting where nothing is deleted, dropped or fails and a queuer  *)
(* commits before its job records an outcome, every scan nobody asked for  *)
(* has a push of its own, a queued row has its scan, and while nobody asks *)
(* no image has two: ScansAreDueCorrect, for the instance.                 *)
(***************************************************************************)
THEOREM PromptScansAreDueCorrect == LedgerSpec => []PromptScansAreDue
<1>1. LedgerInv => PromptScansAreDue
  BY SameDue, PromptMeets, Due!DueHolds DEF LedgerInv, PromptInv, PromptScansAreDue
<1>. QED  BY <1>1, LedgerStarts, LedgerStep, PTL DEF LedgerSpec, LedgerNext

(***************************************************************************)
(* In both settings a row says "scanned" only of an image a scanner was    *)
(* pointed at while it held content (modules/nexus/events.py).             *)
(***************************************************************************)
THEOREM LedgersEarnedCorrect == LedgerSpec => []ScannedIsEarned
<1>1. Due!ScannedIsEarned => ScannedIsEarned
  BY DEF ScannedIsEarned, Due!ScannedIsEarned, None, Due!None
<1>2. LedgerInv => ScannedIsEarned
  BY <1>1 DEF LedgerInv, HostileInv, EarnedInv, PromptInv, Due!EarnedInv
<1>. QED  BY <1>2, LedgerStarts, LedgerStep, PTL DEF LedgerSpec, LedgerNext

(***************************************************************************)
(* Where the hostile setting's jobs are among the prompt one's, neither    *)
(* scans on its own in a repository that was never baselined               *)
(* (modules/nexus/events.py, main.py).                                     *)
(***************************************************************************)
THEOREM LedgersBaselinedCorrect ==
    JobIds \subseteq {k1, k2} => (LedgerSpec => []NoScanBeforeBaseline)
<1> SUFFICES ASSUME JobIds \subseteq {k1, k2} PROVE LedgerSpec => []NoScanBeforeBaseline
  OBVIOUS
<1>1. Due!NoScanBeforeBaseline => NoScanBeforeBaseline
  BY DEF NoScanBeforeBaseline, Due!NoScanBeforeBaseline, Unprompted, Due!Unprompted,
         NoJob, Due!NoJob, None, Due!None
<1>2. LedgerInv => NoScanBeforeBaseline
  BY <1>1 DEF LedgerInv, HostileInv, ObservedInv, PromptInv
<1>. QED  BY <1>2, LedgerStarts, LedgerStep, PTL DEF LedgerSpec, LedgerNext
=============================================================================
