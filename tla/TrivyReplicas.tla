---------------------------- MODULE TrivyReplicas ----------------------------
(***************************************************************************)
(* Scans against a database that is being replaced (modules/nexus/):       *)
(* scan_image's semaphore and running reports in persistence.py, the pool  *)
(* of replica directories and its TRIVY_LOCK in trivy.py, the scanner      *)
(* processes of base.py's exec_scanner, and the writers of the canonical   *)
(* database, which take the same lock: _install_trivy_db and Trivy's own   *)
(* downloader (db/update.py) and the offline import (db/offline.py).       *)
(* A copy runs in a thread and a scan in a process: both outlive a         *)
(* cancelled job.                                                          *)
(***************************************************************************)
EXTENDS Naturals, Sequences, FiniteSets

CONSTANTS Scans,        \* scan jobs
          Writers,      \* update and import jobs
          Slots,        \* SCANNER_MAX_CONCURRENCY, as the slots 1..Slots
          Nobody,       \* the lock is free
          MaxBuilds,    \* bound on the databases installed
          MaxRestarts   \* bound on the restarts of the backend

ASSUME PoolAssumption == Slots \in Nat \ {0} /\ MaxBuilds \in Nat \ {0} /\ MaxRestarts \in Nat
ASSUME NobodyAssumption == Nobody \notin Scans \union Writers /\ Scans \intersect Writers = {}

VARIABLES free,       \* the queue of slots
          lock,       \* who holds TRIVY_LOCK
          scan,       \* each scan job: its stage and the slot it checked out
          writer,     \* each writer's stage
          canonical,  \* the database: its build, and whether its files are whole
          replica,    \* what each slot holds, and the modification time seen on it
          abandoned,  \* slots a thread still copies into though its job is gone
          orphans,    \* slots a scanner without a job still reads
          restarts

replicaVars == <<free, lock, scan, writer, canonical, replica, abandoned, orphans, restarts>>

SlotIds == 1..Slots
AllSlots == [i \in SlotIds |-> i]
Fresh == [stage |-> "new", slot |-> 0]
NoReplica == [build |-> 0, whole |-> FALSE, time |-> 0]

ReplicasInit ==
    /\ free = AllSlots
    /\ lock = Nobody
    /\ scan = [j \in Scans |-> Fresh]
    /\ writer = [w \in Writers |-> "idle"]
    /\ canonical = [build |-> 1, whole |-> TRUE]
    /\ replica = [s \in SlotIds |-> NoReplica]
    /\ abandoned = {}
    /\ orphans = {}
    /\ restarts = 0

Busy == {j \in Scans : scan[j].stage \in {"slot", "lock", "copying", "scanning"}}
ScanTo(j, stage) == scan' = [scan EXCEPT ![j].stage = stage]

\* The semaphore in front of the pool admits as many jobs as there are slots.
ScanImage(j) ==
    /\ scan[j].stage = "new" /\ Cardinality(Busy) < Slots
    /\ ScanTo(j, "slot")
    /\ UNCHANGED <<free, lock, writer, canonical, replica, abandoned, orphans, restarts>>

(* A copy carries the time of the original, so only an older replica is     *)
(* stale.  A copy that stopped half way carries the time it stopped, which  *)
(* is after the build it was copying.                                       *)
ReplicaStale(s) == replica[s].time < canonical.build

CheckoutReplica(j) ==
    /\ scan[j].stage = "slot" /\ free # <<>>
    /\ free' = Tail(free)
    /\ scan' = [scan EXCEPT ![j] = [stage |-> IF ReplicaStale(Head(free)) THEN "lock" ELSE "scanning",
                                    slot |-> Head(free)]]
    /\ UNCHANGED <<lock, writer, canonical, replica, abandoned, orphans, restarts>>

\* Under the lock the question is asked again; the copy starts from nothing.
Begun == [build |-> canonical.build, whole |-> FALSE, time |-> 0]

RefreshReplica(j) ==
    /\ scan[j].stage = "lock" /\ lock = Nobody
    /\ IF ReplicaStale(scan[j].slot)
       THEN /\ lock' = j /\ ScanTo(j, "copying")
            /\ replica' = [replica EXCEPT ![scan[j].slot] = Begun]
       ELSE ScanTo(j, "scanning") /\ UNCHANGED <<lock, replica>>
    /\ UNCHANGED <<free, writer, canonical, abandoned, orphans, restarts>>

\* What a thread leaves behind: a copy of what is there to be copied, a
\* mixture when that was written since the copy began.
Copying == {scan[j].slot : j \in {i \in Scans : scan[i].stage = "copying"}}
Writing == {w \in Writers : writer[w] = "writing"}
CopyInto(s) == [build |-> canonical.build, time |-> canonical.build,
                whole |-> canonical.whole /\ replica[s].build = canonical.build /\ Writing = {}]
HalfCopy == [build |-> canonical.build, whole |-> FALSE, time |-> canonical.build]
Interrupted == {NoReplica, HalfCopy}

RefreshDone(j) ==
    /\ scan[j].stage = "copying"
    /\ replica' = [replica EXCEPT ![scan[j].slot] = CopyInto(scan[j].slot)]
    /\ lock' = Nobody /\ ScanTo(j, "scanning")
    /\ UNCHANGED <<free, writer, canonical, abandoned, orphans, restarts>>

\* The copy raises (a full disk): the slot is put back and the scan fails.
RefreshFails(j) ==
    /\ scan[j].stage = "copying"
    /\ \E left \in Interrupted : replica' = [replica EXCEPT ![scan[j].slot] = left]
    /\ lock' = Nobody
    /\ free' = Append(free, scan[j].slot)
    /\ scan' = [scan EXCEPT ![j] = [stage |-> "ended", slot |-> 0]]
    /\ UNCHANGED <<writer, canonical, abandoned, orphans, restarts>>

\* The scanner exits, times out and is killed, or prints what cannot be parsed.
CheckinReplica(j) ==
    /\ scan[j].stage = "scanning"
    /\ free' = Append(free, scan[j].slot)
    /\ scan' = [scan EXCEPT ![j] = [stage |-> "ended", slot |-> 0]]
    /\ UNCHANGED <<lock, writer, canonical, replica, abandoned, orphans, restarts>>

(* A cancelled job: CancelledError passes the checkout's except Exception,  *)
(* so a slot taken but not yet scanning is not put back; it releases the    *)
(* lock while the thread copies on; and a scan's slot is put back while     *)
(* its process runs on.                                                     *)
ReturnedOnCancel(j) == scan[j].stage = "scanning"

CancelScan(j) ==
    /\ j \in Busy
    /\ free' = IF ReturnedOnCancel(j) THEN Append(free, scan[j].slot) ELSE free
    /\ lock' = IF lock = j THEN Nobody ELSE lock
    /\ abandoned' = IF scan[j].stage = "copying" THEN abandoned \union {scan[j].slot} ELSE abandoned
    /\ orphans' = IF scan[j].stage = "scanning" THEN orphans \union {scan[j].slot} ELSE orphans
    /\ scan' = [scan EXCEPT ![j] = [stage |-> "ended", slot |-> 0]]
    /\ UNCHANGED <<writer, canonical, replica, restarts>>

\* The thread of a cancelled checkout ends, with or without the lock.
AbandonedCopyEnds(s) ==
    /\ s \in abandoned /\ abandoned' = abandoned \ {s}
    /\ replica' = [replica EXCEPT ![s] = CopyInto(s)]
    /\ UNCHANGED <<free, lock, scan, writer, canonical, orphans, restarts>>

OrphanExits(s) ==
    /\ s \in orphans /\ orphans' = orphans \ {s}
    /\ UNCHANGED <<free, lock, scan, writer, canonical, replica, abandoned, restarts>>

\* Another image is asked for.
AskScan(j) ==
    /\ scan[j].stage = "ended"
    /\ scan' = [scan EXCEPT ![j] = Fresh]
    /\ UNCHANGED <<free, lock, writer, canonical, replica, abandoned, orphans, restarts>>

\* An archive has been pulled, the offline import has found one, or Trivy's
\* own downloader is about to start: each takes the lock around its writes.
LockForWrite(w) == lock = Nobody

BeginWrite(w) ==
    /\ writer[w] = "idle" /\ canonical.build < MaxBuilds /\ LockForWrite(w)
    /\ lock' = w
    /\ writer' = [writer EXCEPT ![w] = "writing"]
    /\ UNCHANGED <<free, scan, canonical, replica, abandoned, orphans, restarts>>

\* The extraction succeeds, or fails on the way with some files overwritten;
\* Trivy's own downloader may also leave everything as it was.
EndWrite(w) ==
    /\ writer[w] = "writing"
    /\ canonical' \in {[build |-> canonical.build + 1, whole |-> TRUE],
                       [build |-> canonical.build + 1, whole |-> FALSE], canonical}
    /\ lock' = IF lock = w THEN Nobody ELSE lock
    /\ writer' = [writer EXCEPT ![w] = "idle"]
    /\ UNCHANGED <<free, scan, replica, abandoned, orphans, restarts>>

\* The container restarts: threads, processes, queue and lock are gone.
Restart ==
    /\ restarts < MaxRestarts /\ restarts' = restarts + 1
    /\ free' = AllSlots /\ lock' = Nobody
    /\ scan' = [j \in Scans |-> Fresh]
    /\ canonical' \in IF Writing = {} THEN {canonical} ELSE {canonical, [canonical EXCEPT !.whole = FALSE]}
    /\ writer' = [w \in Writers |-> "idle"]
    /\ \E left \in Interrupted : replica' = [s \in SlotIds |-> IF s \in Copying \union abandoned THEN left ELSE replica[s]]
    /\ abandoned' = {} /\ orphans' = {}

ReplicasNext ==
    \/ \E j \in Scans :
         \/ ScanImage(j) \/ CheckoutReplica(j) \/ RefreshReplica(j) \/ RefreshDone(j) \/ RefreshFails(j)
         \/ CheckinReplica(j) \/ CancelScan(j) \/ AskScan(j)
    \/ \E w \in Writers : BeginWrite(w) \/ EndWrite(w)
    \/ \E s \in SlotIds : AbandonedCopyEnds(s) \/ OrphanExits(s)
    \/ Restart

ReplicasSpec == ReplicasInit /\ [][ReplicasNext]_replicaVars
-----------------------------------------------------------------------------
ReplicasTyped ==
    /\ free \in Seq(SlotIds) /\ lock \in {Nobody} \union Scans \union Writers
    /\ \A j \in Scans :
         /\ scan[j].stage \in {"new", "slot", "lock", "copying", "scanning", "ended"}
         /\ scan[j].slot \in 0..Slots
         /\ scan[j].slot = 0 <=> scan[j].stage \in {"new", "slot", "ended"}
    /\ writer \in [Writers -> {"idle", "writing"}]
    /\ canonical \in [build : 0..MaxBuilds, whole : BOOLEAN]
    /\ replica \in [SlotIds -> [build : 0..MaxBuilds, whole : BOOLEAN, time : 0..MaxBuilds]]
    /\ abandoned \subseteq SlotIds /\ orphans \subseteq SlotIds /\ restarts \in 0..MaxRestarts

Held == {j \in Scans : scan[j].slot # 0}

(* trivy.py:38-46 -- "each scan checks out one of a small pool of private   *)
(* replicas": no two jobs hold a slot, no slot is held and free, and no     *)
(* scan reads a replica that a thread is still copying into, even one whose *)
(* job was cancelled.                                                       *)
ReplicaIsPrivate ==
    /\ \A i, j \in Held : i # j => scan[i].slot # scan[j].slot
    /\ \A j \in Held, n \in DOMAIN free : free[n] # scan[j].slot
    /\ \A m, n \in DOMAIN free : m # n => free[m] # free[n]
    /\ \A j \in Held : scan[j].stage = "scanning" => scan[j].slot \notin Copying \union abandoned

(* base.py:32-42, update.py:343, offline.py:104-107 -- the canonical        *)
(* database is never written by two jobs at once, nor while a job's         *)
(* checkout is copying it.                                                  *)
WritesExcludeCopies ==
    \A w \in Writers : writer[w] = "writing" =>
        /\ \A v \in Writers \ {w} : writer[v] # "writing"
        /\ \A j \in Scans : scan[j].stage # "copying"

(* No scan, copy or write works on files another one is working on.         *)
FilesAreExclusive == ReplicaIsPrivate /\ WritesExcludeCopies
=============================================================================
