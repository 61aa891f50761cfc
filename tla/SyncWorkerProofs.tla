--------------------------- MODULE SyncWorkerProofs ---------------------------
(***************************************************************************)
(* Theorems about SyncWorker for every set of processes, rows, keys, runs  *)
(* and sources, and every budget.                                          *)
(***************************************************************************)
EXTENDS SyncWorker, FiniteSetTheorems, TLAPS

(* What every statement of queue.ts preserves, whoever issues it.           *)
QueueInv == QueueTypeOK /\ OneLiveRowPerKey

-----------------------------------------------------------------------------
(* An insert that finds no live row of its key leaves one live row of it.   *)
LEMMA EnqueuePreserves ==
  ASSUME QueueInv, NEW k \in Keys, NEW pr \in Nat, NEW F \in SUBSET JobIds,
         Enqueue(k, pr, F)
  PROVE  QueueInv'
<1>1. CASE LiveRows(k) # {}
  BY <1>1 DEF Enqueue, QueueInv, QueueTypeOK, OneLiveRowPerKey
<1>2. CASE LiveRows(k) = {}
  <2> DEFINE new == CHOOSE i \in F : TRUE
  <2>1. new \in JobIds /\ F # {}
    BY <1>2 DEF Enqueue
  <2>2. jobs' = [jobs EXCEPT ![new] = [NoRow EXCEPT !.status = "pending", !.key = k,
                                                    !.priority = pr, !.due = TRUE]]
    BY <1>2 DEF Enqueue
  <2>3. QueueTypeOK'
    BY <2>1, <2>2 DEF QueueInv, QueueTypeOK, Row, NoRow
  <2>4. \A i \in JobIds : i # new => jobs'[i] = jobs[i]
    BY <2>1, <2>2 DEF QueueInv, QueueTypeOK
  <2>5. jobs'[new].key = k
    BY <2>1, <2>2 DEF QueueInv, QueueTypeOK, NoRow
  <2>6. OneLiveRowPerKey'
    BY <1>2, <2>1, <2>4, <2>5 DEF OneLiveRowPerKey, LiveRows, QueueInv
  <2> QED BY <2>3, <2>6 DEF QueueInv
<1> QED BY <1>1, <1>2

(* Rewriting one row keeps the table deduplicated when the row ends out of  *)
(* the index, or was in it already, or the index has room for it.           *)
LEMMA UnlockedPreserves ==
  ASSUME QueueInv, NEW i \in JobIds, NEW st \in {"pending", "done", "dead"},
         NEW att \in Nat, NEW due \in BOOLEAN,
         jobs' = Unlocked(i, st, att, due),
         st = "pending" => IndexAllows(i, jobs[i].key)
  PROVE  QueueInv'
<1> DEFINE row == [jobs[i] EXCEPT !.status = st, !.attempts = att, !.due = due,
                                  !.lockedBy = NoOne, !.age = 0]
<1>a. jobs' = [jobs EXCEPT ![i] = row]
  BY DEF Unlocked
<1>b. row \in Row
  <2>1. jobs[i] \in Row
    BY DEF QueueInv, QueueTypeOK
  <2>2. st \in {"absent", "pending", "running", "done", "dead"}
    OBVIOUS
  <2> QED BY <2>1, <2>2 DEF Row
<1>1. QueueTypeOK'
  <2> HIDE DEF row
  <2> QED BY <1>a, <1>b DEF QueueInv, QueueTypeOK
<1>2. \A j \in JobIds : jobs'[j].key = jobs[j].key
  BY DEF QueueInv, QueueTypeOK, Row, Unlocked
<1>3. \A j \in JobIds : j # i => jobs'[j].status = jobs[j].status
  BY DEF QueueInv, QueueTypeOK, Row, Unlocked
<1>4. jobs'[i].status = st
  BY DEF QueueInv, QueueTypeOK, Row, Unlocked
<1>5. OneLiveRowPerKey'
  BY <1>2, <1>3, <1>4 DEF OneLiveRowPerKey, QueueInv, IndexAllows, LiveRows, Live
<1> QED BY <1>1, <1>5 DEF QueueInv

LEMMA RequeuePreserves ==
  ASSUME QueueInv, NEW i \in JobIds, NEW att \in Nat, Requeue(i, att)
  PROVE  QueueInv'
<1>1. CASE IndexAllows(i, jobs[i].key)
  BY <1>1, UnlockedPreserves DEF Requeue
<1>2. CASE ~IndexAllows(i, jobs[i].key)
  BY <1>2 DEF Requeue, QueueInv, QueueTypeOK, OneLiveRowPerKey
<1> QED BY <1>1, <1>2

LEMMA CompletePreserves ==
  ASSUME QueueInv, NEW i \in JobIds, Complete(i)
  PROVE  QueueInv'
<1>1. jobs[i].attempts \in Nat
  BY DEF QueueInv, QueueTypeOK, Row
<1> QED BY <1>1, UnlockedPreserves DEF Complete

LEMMA DeferPreserves ==
  ASSUME QueueInv, NEW i \in JobIds, Defer(i)
  PROVE  QueueInv'
<1>1. Refund(jobs[i].attempts) \in Nat
  BY DEF QueueInv, QueueTypeOK, Row, Refund
<1> QED BY <1>1, RequeuePreserves DEF Defer

LEMMA FailPreserves ==
  ASSUME QueueInv, NEW i \in JobIds, NEW att \in Nat, Fail(i, att)
  PROVE  QueueInv'
<1>1. jobs[i].attempts \in Nat
  BY DEF QueueInv, QueueTypeOK, Row
<1>2. CASE att >= MaxAttempts
  BY <1>1, <1>2, UnlockedPreserves DEF Fail
<1>3. CASE ~(att >= MaxAttempts)
  BY <1>1, <1>3, RequeuePreserves DEF Fail
<1> QED BY <1>2, <1>3

(* A step that keeps every key and makes no row live that was not, keeps    *)
(* the table deduplicated.                                                  *)
LEMMA NoNewLiveRow ==
  ASSUME QueueInv, QueueTypeOK',
         \A i \in JobIds : /\ jobs'[i].key = jobs[i].key
                           /\ jobs'[i].status \in Live => jobs[i].status \in Live
  PROVE  QueueInv'
BY DEF QueueInv, OneLiveRowPerKey

LEMMA ClaimPreserves ==
  ASSUME QueueInv, NEW i \in JobIds, NEW p \in Procs, NEW s, Claim(i, p, s)
  PROVE  QueueInv'
<1> DEFINE row == [jobs[i] EXCEPT !.status = "running", !.attempts = jobs[i].attempts + 1,
                                  !.lockedBy = p, !.age = 0]
<1>a. jobs' = [jobs EXCEPT ![i] = row]
  BY DEF Claim
<1>b. row \in Row
  <2>1. jobs[i] \in Row
    BY DEF QueueInv, QueueTypeOK
  <2>2. jobs[i].attempts + 1 \in Nat
    BY <2>1 DEF Row
  <2> DEFINE n == jobs[i].attempts + 1
  <2>3. n \in Nat => [jobs[i] EXCEPT !.status = "running", !.attempts = n,
                                    !.lockedBy = p, !.age = 0] \in Row
    <3> HIDE DEF n
    <3> QED BY <2>1 DEF Row
  <2> QED BY <2>2, <2>3
<1>1. QueueTypeOK'
  <2> HIDE DEF row
  <2> QED BY <1>a, <1>b DEF QueueInv, QueueTypeOK
<1>2. \A j \in JobIds : /\ jobs'[j].key = jobs[j].key
                        /\ jobs'[j].status \in Live => jobs[j].status \in Live
  BY DEF Claim, Claimable, QueueInv, QueueTypeOK, Row, Live
<1> QED BY <1>1, <1>2, NoNewLiveRow

LEMMA ReclaimPreserves ==
  ASSUME QueueInv, NEW t \in Nat, ReclaimStale(t)
  PROVE  QueueInv'
<1>1. QueueTypeOK'
  BY DEF ReclaimStale, QueueInv, QueueTypeOK, Row
<1>2. \A j \in JobIds : /\ jobs'[j].key = jobs[j].key
                        /\ jobs'[j].status \in Live => jobs[j].status \in Live
  BY DEF ReclaimStale, Stale, QueueInv, QueueTypeOK, Row, Live
<1> QED BY <1>1, <1>2, NoNewLiveRow

LEMMA AgePreserves ==
  ASSUME QueueInv, AgeRunningRows
  PROVE  QueueInv'
<1>1. QueueTypeOK'
  BY DEF AgeRunningRows, QueueInv, QueueTypeOK, Row
<1>2. \A j \in JobIds : /\ jobs'[j].key = jobs[j].key
                        /\ jobs'[j].status \in Live => jobs[j].status \in Live
  BY DEF AgeRunningRows, QueueInv, QueueTypeOK, Row, Live
<1> QED BY <1>1, <1>2, NoNewLiveRow

LEMMA RunAfterPreserves ==
  ASSUME QueueInv, NEW i \in JobIds, RunAfterPasses(i)
  PROVE  QueueInv'
<1> DEFINE row == [jobs[i] EXCEPT !.due = TRUE]
<1>a. jobs' = [jobs EXCEPT ![i] = row]
  BY DEF RunAfterPasses
<1>b. row \in Row
  <2>1. jobs[i] \in Row
    BY DEF QueueInv, QueueTypeOK
  <2> QED BY <2>1 DEF Row
<1>1. QueueTypeOK'
  <2> HIDE DEF row
  <2> QED BY <1>a, <1>b DEF QueueInv, QueueTypeOK
<1>2. \A j \in JobIds : /\ jobs'[j].key = jobs[j].key
                        /\ jobs'[j].status \in Live => jobs[j].status \in Live
  BY DEF RunAfterPasses, QueueInv, QueueTypeOK, Row, Live
<1> QED BY <1>1, <1>2, NoNewLiveRow

(* Every dead row at once, or none.                                         *)
LEMMA RetryPreserves ==
  ASSUME QueueInv, RetryDead
  PROVE  QueueInv'
<1> DEFINE Allowed(i) == /\ LiveRows(jobs[i].key) = {}
                         /\ \A j \in DeadRows \ {i} : jobs[j].key # jobs[i].key
           Revived(i) == [jobs[i] EXCEPT !.status = "pending", !.attempts = 0, !.due = TRUE]
<1>1. CASE \A i \in DeadRows : Allowed(i)
  <2>1. jobs' = [i \in JobIds |-> IF i \in DeadRows THEN Revived(i) ELSE jobs[i]]
    BY <1>1 DEF RetryDead
  <2>2. QueueTypeOK'
    BY <2>1 DEF QueueInv, QueueTypeOK, Row
  <2>3. \A i \in JobIds : jobs'[i].key = jobs[i].key
    BY <2>1 DEF QueueInv, QueueTypeOK, Row
  <2>4. \A i \in JobIds : jobs'[i].status \in Live =>
                            jobs[i].status \in Live \/ i \in DeadRows
    BY <2>1 DEF DeadRows
  <2>5. OneLiveRowPerKey'
    <3> SUFFICES ASSUME NEW i \in JobIds, NEW j \in JobIds,
                        jobs'[i].status \in Live, jobs'[j].status \in Live,
                        jobs'[i].key = jobs'[j].key
                 PROVE  i = j
      BY DEF OneLiveRowPerKey
    <3>1. jobs[i].key = jobs[j].key
      BY <2>3
    <3>2. CASE i \in DeadRows
      BY <1>1, <2>4, <3>1, <3>2 DEF LiveRows
    <3>3. CASE j \in DeadRows
      BY <1>1, <2>4, <3>1, <3>3 DEF LiveRows
    <3>4. CASE i \notin DeadRows /\ j \notin DeadRows
      BY <2>4, <3>1, <3>4 DEF QueueInv, OneLiveRowPerKey
    <3> QED BY <3>2, <3>3, <3>4
  <2> QED BY <2>2, <2>5 DEF QueueInv
<1>2. CASE ~(\A i \in DeadRows : Allowed(i))
  BY <1>2 DEF RetryDead, QueueInv, QueueTypeOK, OneLiveRowPerKey
<1> QED BY <1>1, <1>2

-----------------------------------------------------------------------------
(* The types of what the worker keeps beside the table.                     *)
WorkerTypeOK ==
  /\ lock \in Procs \cup {NoOne}
  /\ pc \in [Procs -> {"down", "locked", "up", "draining", "released"}]
  /\ paused \in [Procs -> SUBSET Sources]
  /\ runs \in [RunIds -> Run]
  /\ budget \in [Events -> Nat]

(* A handler at work belongs to a process and holds a claimed job.          *)
RunsAreClaims ==
  \A r \in RunIds : Handling(r) => /\ runs[r].proc \in Procs
                                   /\ runs[r].id \in JobIds

TypeInv == QueueInv /\ WorkerTypeOK /\ RunsAreClaims

LEMMA FreeIsRun == Free \in Run
BY DEF Free, Run

LEMMA SpendTypes ==
  ASSUME WorkerTypeOK, NEW e, Spend(e)
  PROVE  budget' \in [Events -> Nat]
<1>1. e \in Events => budget[e] - 1 \in Nat
  BY DEF WorkerTypeOK, Spend
<1> QED BY <1>1 DEF WorkerTypeOK, Spend

LEMMA LeavesLaneTypes ==
  ASSUME WorkerTypeOK, RunsAreClaims, NEW r \in RunIds, LeavesLane(r)
  PROVE  runs' \in [RunIds -> Run] /\ RunsAreClaims'
<1>1. runs' \in [RunIds -> Run]
  BY FreeIsRun DEF LeavesLane, WorkerTypeOK
<1>2. \A q \in RunIds : runs'[q] = IF q = r THEN Free ELSE runs[q]
  BY DEF LeavesLane, WorkerTypeOK
<1> QED BY <1>1, <1>2 DEF RunsAreClaims, Handling, Free

LEMMA GoneTypes ==
  ASSUME WorkerTypeOK, RunsAreClaims, NEW p \in Procs, Gone(p)
  PROVE  /\ lock' \in Procs \cup {NoOne}
         /\ pc' \in [Procs -> {"down", "locked", "up", "draining", "released"}]
         /\ paused' \in [Procs -> SUBSET Sources]
         /\ runs' \in [RunIds -> Run]
         /\ RunsAreClaims'
<1>1. runs' \in [RunIds -> Run]
  BY FreeIsRun DEF Gone, WorkerTypeOK
<1>2. \A q \in RunIds : runs'[q] = Free \/ runs'[q] = runs[q]
  BY DEF Gone, WorkerTypeOK
<1>3. RunsAreClaims'
  BY <1>2 DEF RunsAreClaims, Handling, Free
<1> QED BY <1>1, <1>3 DEF Gone, WorkerTypeOK

(* The whole step: one case per action.                                     *)
LEMMA TypeStep == TypeInv /\ [Next]_vars => TypeInv'
<1> SUFFICES ASSUME TypeInv, [Next]_vars PROVE TypeInv'
  OBVIOUS
<1> USE DEF TypeInv
<1>0. CASE UNCHANGED vars
  BY <1>0 DEF vars, QueueInv, QueueTypeOK, OneLiveRowPerKey, WorkerTypeOK,
              RunsAreClaims, Handling
<1>1. ASSUME NEW p \in Procs, AcquireLock(p) PROVE TypeInv'
  BY <1>1 DEF AcquireLock, QueueInv, QueueTypeOK, OneLiveRowPerKey, WorkerTypeOK,
              RunsAreClaims, Handling
<1>2. ASSUME NEW p \in Procs, ReclaimAbandoned(p) PROVE TypeInv'
  <2>1. QueueInv'
    BY <1>2, ReclaimPreserves DEF ReclaimAbandoned
  <2> QED BY <1>2, <2>1 DEF ReclaimAbandoned, WorkerTypeOK, RunsAreClaims, Handling
<1>3. ASSUME NEW p \in Procs, Sigterm(p) PROVE TypeInv'
  <2>1. budget' \in [Events -> Nat]
    BY <1>3, SpendTypes DEF Sigterm
  <2> QED BY <1>3, <2>1 DEF Sigterm, QueueInv, QueueTypeOK, OneLiveRowPerKey, WorkerTypeOK,
                            RunsAreClaims, Handling
<1>4. ASSUME NEW p \in Procs, Release(p) PROVE TypeInv'
  BY <1>4 DEF Release, QueueInv, QueueTypeOK, OneLiveRowPerKey, WorkerTypeOK,
              RunsAreClaims, Handling
<1>5. ASSUME NEW p \in Procs, Gone(p), budget' \in [Events -> Nat] PROVE TypeInv'
  <2>1. QueueInv'
    BY <1>5 DEF Gone, QueueInv, QueueTypeOK, OneLiveRowPerKey
  <2> QED BY <1>5, <2>1, GoneTypes DEF WorkerTypeOK
<1>6. ASSUME NEW p \in Procs, Exit(p) PROVE TypeInv'
  BY <1>6, <1>5 DEF Exit, WorkerTypeOK
<1>7. ASSUME NEW p \in Procs, Crash(p) PROVE TypeInv'
  BY <1>7, <1>5, SpendTypes DEF Crash
<1>8. ASSUME NEW p \in Procs, LockDropped(p) PROVE TypeInv'
  <2>1. budget' \in [Events -> Nat]
    BY <1>8, SpendTypes DEF LockDropped
  <2> QED BY <1>8, <2>1 DEF LockDropped, QueueInv, QueueTypeOK, OneLiveRowPerKey,
                            WorkerTypeOK, RunsAreClaims, Handling
<1>9. ASSUME NEW p \in Procs, ReclaimStaleRows(p) PROVE TypeInv'
  <2>1. QueueInv'
    BY <1>9, ReclaimPreserves, QueueAssumption DEF ReclaimStaleRows
  <2> QED BY <1>9, <2>1 DEF ReclaimStaleRows, WorkerTypeOK, RunsAreClaims, Handling
<1>10. ASSUME NEW k \in Keys, NEW pr \in Nat, Enqueue(k, pr, FreshIds),
              UNCHANGED <<lock, pc, paused, runs, budget>>
       PROVE  TypeInv'
  <2>1. QueueInv'
    BY <1>10, EnqueuePreserves DEF FreshIds
  <2> QED BY <1>10, <2>1 DEF WorkerTypeOK, RunsAreClaims, Handling
<1>11. ASSUME NEW p \in Procs, NEW k \in Keys, EnqueueDueJobs(p, k) PROVE TypeInv'
  BY <1>11, <1>10, QueueAssumption DEF EnqueueDueJobs
<1>12. ASSUME NEW k \in Keys, TriggerJob(k) PROVE TypeInv'
  BY <1>12, <1>10 DEF TriggerJob
<1>13. ASSUME NEW r \in RunIds, NEW k \in Keys, FanOut(r, k) PROVE TypeInv'
  BY <1>13, <1>10, QueueAssumption DEF FanOut
<1>14. CASE RetryDeadJobs
  <2>1. QueueInv' /\ budget' \in [Events -> Nat]
    BY <1>14, RetryPreserves, SpendTypes DEF RetryDeadJobs
  <2> QED BY <1>14, <2>1 DEF RetryDeadJobs, WorkerTypeOK, RunsAreClaims, Handling
<1>15. ASSUME NEW p \in Procs, NEW s \in Sources, SeesCircuitOpen(p, s) PROVE TypeInv'
  <2>1. budget' \in [Events -> Nat]
    BY <1>15, SpendTypes DEF SeesCircuitOpen
  <2> QED BY <1>15, <2>1 DEF SeesCircuitOpen, QueueInv, QueueTypeOK, OneLiveRowPerKey,
                             WorkerTypeOK, RunsAreClaims, Handling
<1>16. ASSUME NEW p \in Procs, NEW s \in Sources, SeesCircuitClosed(p, s) PROVE TypeInv'
  BY <1>16 DEF SeesCircuitClosed, QueueInv, QueueTypeOK, OneLiveRowPerKey,
               WorkerTypeOK, RunsAreClaims, Handling
<1>17. ASSUME NEW p \in Procs, NEW s \in Sources, NEW i \in JobIds, ClaimNext(p, s, i)
       PROVE  TypeInv'
  <2>1. QueueInv'
    BY <1>17, ClaimPreserves DEF ClaimNext
  <2> DEFINE new == CHOOSE r \in FreeRuns : TRUE
             run == [stage |-> "handling", proc |-> p, id |-> i, key |-> jobs[i].key,
                     att |-> jobs[i].attempts + 1, age |-> 0]
  <2>2. new \in RunIds /\ runs' = [runs EXCEPT ![new] = run]
    BY <1>17 DEF ClaimNext, FreeRuns
  <2>3. run \in Run
    BY DEF QueueInv, QueueTypeOK, Row, Run
  <2> HIDE DEF new, run
  <2>4. runs' \in [RunIds -> Run]
    BY <2>2, <2>3 DEF WorkerTypeOK
  <2>5. \A q \in RunIds : runs'[q] = IF q = new THEN run ELSE runs[q]
    BY <2>2 DEF WorkerTypeOK
  <2>6. RunsAreClaims'
    BY <2>5 DEF RunsAreClaims, Handling, run
  <2> QED BY <1>17, <2>1, <2>4, <2>6 DEF ClaimNext, WorkerTypeOK
<1>18. ASSUME NEW r \in RunIds, HandlerReturns(r) PROVE TypeInv'
  <2>1. QueueInv'
    BY <1>18, CompletePreserves DEF HandlerReturns, RunsAreClaims
  <2> QED BY <1>18, <2>1, LeavesLaneTypes DEF HandlerReturns, WorkerTypeOK
<1>19. ASSUME NEW r \in RunIds, Handling(r), Fail(runs[r].id, runs[r].att)
       PROVE  QueueInv'
  <2>1. runs[r].att \in Nat
    BY DEF WorkerTypeOK, Run
  <2> QED BY <1>19, <2>1, FailPreserves DEF RunsAreClaims
<1>20. ASSUME NEW r \in RunIds, HandlerThrows(r) PROVE TypeInv'
  <2>1. QueueInv'
    BY <1>20, <1>19 DEF HandlerThrows
  <2> QED BY <1>20, <2>1, LeavesLaneTypes DEF HandlerThrows, WorkerTypeOK
<1>21. ASSUME NEW r \in RunIds, HandlerDeferred(r) PROVE TypeInv'
  <2>1. QueueInv' /\ budget' \in [Events -> Nat]
    BY <1>21, DeferPreserves, SpendTypes DEF HandlerDeferred, RunsAreClaims
  <2> QED BY <1>21, <2>1, LeavesLaneTypes DEF HandlerDeferred, WorkerTypeOK
<1>22. ASSUME NEW r \in RunIds, WatchdogFires(r) PROVE TypeInv'
  <2>1. QueueInv'
    BY <1>22, <1>19 DEF WatchdogFires
  <2>2. budget' \in [Events -> Nat]
    BY <1>22, SpendTypes DEF WatchdogFires, WorkerTypeOK
  <2>3. CASE LeavesLane(r)
    BY <1>22, <2>1, <2>2, <2>3, LeavesLaneTypes DEF WatchdogFires, WorkerTypeOK
  <2>4. CASE runs' = [runs EXCEPT ![r].stage = "zombie"]
    <3>1. runs' \in [RunIds -> Run]
      BY <2>4 DEF WorkerTypeOK, Run
    <3>2. \A q \in RunIds : q # r => runs'[q] = runs[q]
      BY <2>4 DEF WorkerTypeOK
    <3>3. runs'[r].stage = "zombie"
      BY <2>4 DEF WorkerTypeOK, Run
    <3>4. RunsAreClaims'
      BY <3>2, <3>3 DEF RunsAreClaims, Handling
    <3> QED BY <1>22, <2>1, <2>2, <3>1, <3>4 DEF WatchdogFires, WorkerTypeOK
  <2> QED BY <1>22, <2>3, <2>4 DEF WatchdogFires
<1>23. ASSUME NEW r \in RunIds, SettleLost(r) PROVE TypeInv'
  <2>1. QueueInv' /\ budget' \in [Events -> Nat]
    BY <1>23, SpendTypes DEF SettleLost, QueueInv, QueueTypeOK, OneLiveRowPerKey
  <2> QED BY <1>23, <2>1, LeavesLaneTypes DEF SettleLost, WorkerTypeOK
<1>24. ASSUME NEW r \in RunIds, ZombieEnds(r) PROVE TypeInv'
  <2>1. QueueInv'
    BY <1>24 DEF ZombieEnds, QueueInv, QueueTypeOK, OneLiveRowPerKey
  <2> QED BY <1>24, <2>1, LeavesLaneTypes DEF ZombieEnds, WorkerTypeOK
<1>25. ASSUME NEW i \in JobIds, RunAfterElapses(i) PROVE TypeInv'
  <2>1. QueueInv'
    BY <1>25, RunAfterPreserves DEF RunAfterElapses
  <2> QED BY <1>25, <2>1 DEF RunAfterElapses, WorkerTypeOK, RunsAreClaims, Handling
<1>26. CASE Tick
  <2>1. QueueInv'
    BY <1>26, AgePreserves DEF Tick
  <2>2. budget' \in [Events -> Nat]
    BY <1>26 DEF Tick, WorkerTypeOK, Events
  <2>3. \A q \in RunIds : runs'[q] \in Run
    <3> TAKE q \in RunIds
    <3>1. runs[q] \in Run /\ runs[q].age + 1 \in Nat
      BY DEF WorkerTypeOK, Run
    <3> DEFINE n == runs[q].age + 1
               older == [runs[q] EXCEPT !.age = n]
    <3>2. runs'[q] = older \/ runs'[q] = runs[q]
      BY <1>26 DEF Tick, WorkerTypeOK
    <3>3. older \in Run
      <4>1. n \in Nat
        BY <3>1
      <4> HIDE DEF n
      <4> QED BY <3>1, <4>1 DEF Run
    <3> QED BY <3>1, <3>2, <3>3
  <2>4. \A q \in RunIds : /\ runs'[q].stage = runs[q].stage
                          /\ runs'[q].proc = runs[q].proc
                          /\ runs'[q].id = runs[q].id
    BY <1>26 DEF Tick, WorkerTypeOK, Run
  <2>5. runs' \in [RunIds -> Run]
    BY <1>26, <2>3 DEF Tick
  <2>6. RunsAreClaims'
    BY <2>4 DEF RunsAreClaims, Handling
  <2> QED BY <1>26, <2>1, <2>2, <2>5, <2>6 DEF Tick, WorkerTypeOK
<1> QED
  BY <1>0, <1>1, <1>2, <1>3, <1>4, <1>6, <1>7, <1>8, <1>9, <1>11, <1>12, <1>13, <1>14,
     <1>15, <1>16, <1>17, <1>18, <1>20, <1>21, <1>22, <1>23, <1>24, <1>25, <1>26
     DEF Next, ProcessStep, RunStep

LEMMA TypeInit == Init => TypeInv
<1> SUFFICES ASSUME Init PROVE TypeInv
  OBVIOUS
<1>1. QueueTypeOK
  BY DEF Init, QueueInit, QueueTypeOK, NoRow, Row
<1>2. OneLiveRowPerKey
  BY DEF Init, QueueInit, OneLiveRowPerKey, NoRow, Live
<1>3. WorkerTypeOK
  BY FreeIsRun, WorkerAssumption DEF Init, WorkerTypeOK
<1>4. RunsAreClaims
  BY DEF Init, RunsAreClaims, Handling, Free
<1> QED BY <1>1, <1>2, <1>3, <1>4 DEF TypeInv, QueueInv

LEMMA TypeInvariance == Spec => []TypeInv
BY TypeInit, TypeStep, PTL DEF Spec

(* Every variable keeps its type, for any number of processes, rows, runs   *)
(* and disturbances.                                                        *)
THEOREM TypeCorrect == Spec => []TypeOK
<1>1. TypeInv => TypeOK
  BY DEF TypeInv, QueueInv, WorkerTypeOK, TypeOK
<1> QED BY <1>1, TypeInvariance, PTL

(* The partial unique index does its work: whatever stale copies of a job   *)
(* settle late, whatever is reclaimed, retried or enqueued, no two live     *)
(* rows share a key.                                                        *)
THEOREM Deduplicated == Spec => []OneLiveRowPerKey
<1>1. TypeInv => OneLiveRowPerKey
  BY DEF TypeInv, QueueInv
<1> QED BY <1>1, TypeInvariance, PTL

-----------------------------------------------------------------------------
(* While the worker is undisturbed, holding the lock, being a worker and    *)
(* having handlers are the same thing, and every handler still holds the    *)
(* row it claimed, as old as itself and short of the stale threshold.       *)
HolderOnly ==
  \A p \in Procs : /\ pc[p] \in {"down", "locked", "up"}
                   /\ pc[p] # "down" => lock = p

NoZombies == \A r \in RunIds : runs[r].stage # "zombie"

Holds(r) == /\ pc[runs[r].proc] = "up"
            /\ jobs[runs[r].id].status = "running"
            /\ jobs[runs[r].id].lockedBy = runs[r].proc
            /\ jobs[runs[r].id].attempts = runs[r].att
            /\ jobs[runs[r].id].key = runs[r].key
            /\ jobs[runs[r].id].age = runs[r].age
            /\ runs[r].age < StaleAge

OneRunPerRow ==
  \A r1, r2 \in RunIds : Handling(r1) /\ Handling(r2) /\ runs[r1].id = runs[r2].id => r1 = r2

Exclusive == /\ HolderOnly
             /\ NoZombies
             /\ \A r \in RunIds : Handling(r) => Holds(r)
             /\ OneRunPerRow

BudgetBound == \A e \in Events : budget[e] <= Budget[e]

IInv == TypeInv /\ BudgetBound /\ (Undisturbed => Exclusive)

LEMMA SpendShrinks ==
  ASSUME WorkerTypeOK, BudgetBound, NEW e \in Events, Spend(e)
  PROVE  /\ BudgetBound'
         /\ budget'[e] # Budget[e]
         /\ Undisturbed' => Undisturbed
<1>1. \A f \in Events : budget[f] \in Nat /\ Budget[f] \in Nat
  BY WorkerAssumption DEF WorkerTypeOK
<1>2. \A f \in Events : budget'[f] = IF f = e THEN budget[f] - 1 ELSE budget[f]
  BY DEF Spend, WorkerTypeOK
<1>3. \A f \in Events : budget'[f] <= budget[f]
  BY <1>1, <1>2
<1>4. budget[e] <= Budget[e] /\ budget'[e] < budget[e]
  BY <1>1, <1>2 DEF BudgetBound
<1>5. budget'[e] # Budget[e]
  BY <1>1, <1>2, <1>4
<1>6. BudgetBound'
  <2> SUFFICES ASSUME NEW f \in Events PROVE budget'[f] <= Budget[f]
    BY DEF BudgetBound
  <2> QED BY <1>1, <1>2, <1>3 DEF BudgetBound
<1>7. {"stop", "drop", "slow"} \subseteq Events
  BY DEF Events
<1>8. Undisturbed' => Undisturbed
  BY <1>1, <1>2, <1>5, <1>7 DEF Undisturbed
<1> QED BY <1>5, <1>6, <1>8

(* A step that leaves processes and runs alone, and the rows of handlers at *)
(* work, keeps the worker exclusive.                                        *)
LEMMA HeldRowsKept ==
  ASSUME TypeInv, Exclusive, UNCHANGED <<lock, pc, runs>>,
         \A r \in RunIds : Handling(r) => jobs'[runs[r].id] = jobs[runs[r].id]
  PROVE  Exclusive'
BY DEF Exclusive, HolderOnly, NoZombies, Holds, OneRunPerRow, Handling

(* So does one that ends a run and touches no row but that run's.           *)
LEMMA SettledRowOnly ==
  ASSUME TypeInv, Exclusive, UNCHANGED <<lock, pc>>, NEW r \in RunIds, Handling(r),
         LeavesLane(r), \A i \in JobIds : i # runs[r].id => jobs'[i] = jobs[i]
  PROVE  Exclusive'
<1>1. \A q \in RunIds : runs'[q] = IF q = r THEN Free ELSE runs[q]
  BY DEF LeavesLane, TypeInv, WorkerTypeOK
<1>2. \A q \in RunIds : Handling(q)' => q # r /\ Handling(q) /\ runs'[q] = runs[q]
  BY <1>1 DEF Handling, Free
<1>3. \A q \in RunIds : Handling(q)' => jobs'[runs[q].id] = jobs[runs[q].id]
  BY <1>2 DEF Exclusive, OneRunPerRow, TypeInv, RunsAreClaims
<1>4. \A q \in RunIds : Handling(q)' => Holds(q)'
  BY <1>2, <1>3 DEF Exclusive, Holds
<1>5. OneRunPerRow'
  BY <1>2 DEF Exclusive, OneRunPerRow
<1>6. NoZombies' /\ HolderOnly'
  BY <1>1 DEF Exclusive, NoZombies, HolderOnly, Free
<1> QED BY <1>4, <1>5, <1>6 DEF Exclusive

LEMMA UnlockedTouchesOne ==
  ASSUME QueueTypeOK, NEW i \in JobIds, NEW st, NEW att, NEW due,
         jobs' = Unlocked(i, st, att, due) \/ jobs' = jobs
  PROVE  \A j \in JobIds : j # i => jobs'[j] = jobs[j]
BY DEF Unlocked, QueueTypeOK

LEMMA RequeueTouchesOne ==
  ASSUME QueueTypeOK, NEW i \in JobIds, NEW att, Requeue(i, att)
  PROVE  \A j \in JobIds : j # i => jobs'[j] = jobs[j]
BY UnlockedTouchesOne DEF Requeue

LEMMA FailTouchesOne ==
  ASSUME QueueTypeOK, NEW i \in JobIds, NEW att, Fail(i, att)
  PROVE  \A j \in JobIds : j # i => jobs'[j] = jobs[j]
BY UnlockedTouchesOne, RequeueTouchesOne DEF Fail

LEMMA EnqueueSparesHeldRows ==
  ASSUME TypeInv, NEW k \in Keys, NEW pr \in Nat, Enqueue(k, pr, FreshIds)
  PROVE  \A r \in RunIds : Handling(r) => jobs'[runs[r].id] = jobs[runs[r].id]
<1> DEFINE new == CHOOSE i \in FreshIds : TRUE
<1>1. CASE LiveRows(k) # {}
  BY <1>1 DEF Enqueue
<1>2. CASE LiveRows(k) = {}
  <2>1. new \in FreshIds
    BY <1>2 DEF Enqueue
  <2>2. \A i \in JobIds : i # new => jobs'[i] = jobs[i]
    BY <1>2, <2>1 DEF Enqueue, TypeInv, QueueInv, QueueTypeOK
  <2> QED BY <2>1, <2>2 DEF FreshIds, Referenced, TypeInv, RunsAreClaims
<1> QED BY <1>1, <1>2

LEMMA ExclusiveStep == IInv /\ [Next]_vars => IInv'
<1> SUFFICES ASSUME IInv, [Next]_vars PROVE BudgetBound' /\ (Undisturbed' => Exclusive')
  BY TypeStep DEF IInv
<1> DEFINE Goal == BudgetBound' /\ (Undisturbed' => Exclusive')
<1>a. TypeInv /\ BudgetBound /\ QueueTypeOK /\ WorkerTypeOK /\ RunsAreClaims
  BY DEF IInv, TypeInv, QueueInv
<1>b. budget' = budget => BudgetBound' /\ (Undisturbed' => Exclusive)
  BY DEF IInv, BudgetBound, Undisturbed
<1>c. ASSUME NEW e \in Events, Spend(e)
      PROVE  BudgetBound' /\ (Undisturbed' => Exclusive /\ budget'[e] = budget[e] - 1
                                              /\ e \notin {"stop", "drop", "slow"})
  <2>1. BudgetBound' /\ budget'[e] # Budget[e] /\ (Undisturbed' => Undisturbed)
    BY <1>a, <1>c, SpendShrinks
  <2> QED BY <1>a, <1>c, <2>1 DEF Undisturbed, IInv, Spend, WorkerTypeOK
<1>d. "stop" \in Events /\ "drop" \in Events /\ "slow" \in Events /\ "crash" \in Events
      /\ "lost" \in Events /\ "defer" \in Events /\ "retry" \in Events
      /\ "pause" \in Events /\ "zombie" \in Events
  BY DEF Events
<1>0. CASE UNCHANGED vars
  BY <1>0, <1>a, <1>b, HeldRowsKept DEF vars
<1>1. ASSUME NEW p \in Procs, AcquireLock(p) PROVE Goal
  <2> SUFFICES ASSUME Exclusive PROVE Exclusive'
    BY <1>1, <1>b DEF AcquireLock
  <2>1. \A q \in Procs : pc[q] = "down"
    BY <1>1, QueueAssumption DEF AcquireLock, Exclusive, HolderOnly
  <2>2. \A r \in RunIds : ~Handling(r)
    BY <1>a, <2>1 DEF Exclusive, Holds, RunsAreClaims
  <2>3. HolderOnly'
    BY <1>1, <1>a, <2>1 DEF AcquireLock, HolderOnly, WorkerTypeOK
  <2> QED BY <1>1, <2>2, <2>3 DEF AcquireLock, Exclusive, NoZombies, OneRunPerRow, Handling
<1>2. ASSUME NEW p \in Procs, ReclaimAbandoned(p) PROVE Goal
  <2> SUFFICES ASSUME Exclusive PROVE Exclusive'
    BY <1>2, <1>b DEF ReclaimAbandoned
  <2>1. \A r \in RunIds : ~Handling(r)
    <3> SUFFICES ASSUME NEW r \in RunIds, Handling(r) PROVE FALSE
      OBVIOUS
    <3>1. runs[r].proc \in Procs /\ pc[runs[r].proc] = "up"
      BY <1>a DEF RunsAreClaims, Exclusive, Holds
    <3>2. lock = p /\ lock = runs[r].proc /\ pc[p] = "locked"
      BY <1>2, <3>1 DEF ReclaimAbandoned, Exclusive, HolderOnly
    <3> QED BY <3>1, <3>2
  <2>2. HolderOnly'
    BY <1>2, <1>a DEF ReclaimAbandoned, Exclusive, HolderOnly, WorkerTypeOK
  <2> QED BY <1>2, <2>1, <2>2 DEF ReclaimAbandoned, Exclusive, NoZombies, OneRunPerRow, Handling
<1>3. ASSUME NEW p \in Procs, Sigterm(p) PROVE Goal
  BY <1>3, <1>c, <1>d DEF Sigterm
<1>4. ASSUME NEW p \in Procs, Release(p) PROVE Goal
  BY <1>4, <1>b DEF Release, Exclusive, HolderOnly
<1>5. ASSUME NEW p \in Procs, Exit(p) PROVE Goal
  BY <1>5, <1>b DEF Exit, Exclusive, HolderOnly
<1>6. ASSUME NEW p \in Procs, Crash(p) PROVE Goal
  <2> SUFFICES ASSUME Exclusive PROVE Exclusive'
    BY <1>6, <1>c, <1>d DEF Crash
  <2>1. Gone(p)
    BY <1>6 DEF Crash
  <2>2. \A q \in RunIds : runs'[q] = IF runs[q].proc = p THEN Free ELSE runs[q]
    BY <2>1 DEF Gone
  <2>3. \A q \in RunIds : Handling(q)' =>
                            runs[q].proc # p /\ Handling(q) /\ runs'[q] = runs[q]
    BY <2>2 DEF Handling, Free
  <2>4. \A q \in Procs : q # p => pc'[q] = pc[q]
    BY <1>a, <2>1 DEF Gone, WorkerTypeOK
  <2>5. \A q \in RunIds : Handling(q)' => Holds(q)'
    BY <1>a, <2>1, <2>3, <2>4 DEF Exclusive, Holds, RunsAreClaims, Gone
  <2>6. OneRunPerRow' /\ NoZombies'
    BY <2>2, <2>3 DEF Exclusive, OneRunPerRow, NoZombies, Free
  <2>7. HolderOnly'
    BY <1>a, <2>1, <2>4 DEF Exclusive, HolderOnly, Gone, WorkerTypeOK
  <2> QED BY <2>5, <2>6, <2>7 DEF Exclusive
<1>7. ASSUME NEW p \in Procs, LockDropped(p) PROVE Goal
  BY <1>7, <1>c, <1>d DEF LockDropped
<1>8. ASSUME NEW p \in Procs, ReclaimStaleRows(p) PROVE Goal
  <2> SUFFICES ASSUME Exclusive PROVE Exclusive'
    BY <1>8, <1>b DEF ReclaimStaleRows
  <2>1. \A r \in RunIds : Handling(r) => ~Stale(runs[r].id, StaleAge)
    BY <1>a, QueueAssumption DEF Exclusive, Holds, Stale, WorkerTypeOK, Run
  <2>2. \A r \in RunIds : Handling(r) => jobs'[runs[r].id] = jobs[runs[r].id]
    BY <1>8, <1>a, <2>1 DEF ReclaimStaleRows, ReclaimStale, RunsAreClaims
  <2> QED BY <1>8, <1>a, <2>2, HeldRowsKept DEF ReclaimStaleRows
<1>9. ASSUME NEW k \in Keys, NEW pr \in Nat, Enqueue(k, pr, FreshIds),
             UNCHANGED <<lock, pc, paused, runs, budget>>
      PROVE  Goal
  BY <1>9, <1>a, <1>b, EnqueueSparesHeldRows, HeldRowsKept
<1>10. ASSUME NEW p \in Procs, NEW k \in Keys, EnqueueDueJobs(p, k) PROVE Goal
  BY <1>10, <1>9, QueueAssumption DEF EnqueueDueJobs
<1>11. ASSUME NEW k \in Keys, TriggerJob(k) PROVE Goal
  BY <1>11, <1>9 DEF TriggerJob
<1>12. ASSUME NEW r \in RunIds, NEW k \in Keys, FanOut(r, k) PROVE Goal
  BY <1>12, <1>9, QueueAssumption DEF FanOut
<1>13. CASE RetryDeadJobs
  <2> SUFFICES ASSUME Exclusive PROVE Exclusive'
    BY <1>13, <1>c, <1>d DEF RetryDeadJobs
  <2>1. \A r \in RunIds : Handling(r) => runs[r].id \in JobIds \ DeadRows
    BY <1>a DEF Exclusive, Holds, DeadRows, RunsAreClaims
  <2>2. \A i \in JobIds \ DeadRows : jobs'[i] = jobs[i]
    BY <1>13 DEF RetryDeadJobs, RetryDead
  <2> QED BY <1>13, <1>a, <2>1, <2>2, HeldRowsKept DEF RetryDeadJobs
<1>14. ASSUME NEW p \in Procs, NEW s \in Sources, SeesCircuitOpen(p, s) PROVE Goal
  BY <1>14, <1>a, <1>c, <1>d, HeldRowsKept DEF SeesCircuitOpen
<1>15. ASSUME NEW p \in Procs, NEW s \in Sources, SeesCircuitClosed(p, s) PROVE Goal
  BY <1>15, <1>a, <1>b, HeldRowsKept DEF SeesCircuitClosed
<1>16. ASSUME NEW p \in Procs, NEW s \in Sources, NEW i \in JobIds, ClaimNext(p, s, i)
       PROVE  Goal
  <2> SUFFICES ASSUME Exclusive PROVE Exclusive'
    BY <1>16, <1>b DEF ClaimNext
  <2>1. PICK n \in RunIds, c \in Run :
          /\ runs' = [runs EXCEPT ![n] = c]
          /\ c.stage = "handling" /\ c.proc = p /\ c.id = i /\ c.key = jobs[i].key
          /\ c.att = jobs[i].attempts + 1 /\ c.age = 0
    <3> DEFINE new == [stage |-> "handling", proc |-> p, id |-> i, key |-> jobs[i].key,
                       att |-> jobs[i].attempts + 1, age |-> 0]
    <3>1. (CHOOSE r \in FreeRuns : TRUE) \in RunIds
      BY <1>16 DEF ClaimNext, FreeRuns
    <3>2. new \in Run
      BY <1>a DEF QueueTypeOK, Row, Run
    <3> QED BY <1>16, <3>1, <3>2 DEF ClaimNext
  <2>2. \A q \in RunIds : Handling(q) => runs[q].id # i
    BY <1>16 DEF ClaimNext, Claim, Claimable, Exclusive, Holds
  <2>3. jobs'[i] = [jobs[i] EXCEPT !.status = "running", !.attempts = jobs[i].attempts + 1,
                                   !.lockedBy = p, !.age = 0]
    BY <1>16, <1>a DEF ClaimNext, Claim, QueueTypeOK
  <2>4. \A j \in JobIds : j # i => jobs'[j] = jobs[j]
    BY <1>16, <1>a DEF ClaimNext, Claim, QueueTypeOK
  <2>5. pc[p] = "up" /\ UNCHANGED <<pc, lock>>
    BY <1>16 DEF ClaimNext, Serving, Exclusive, HolderOnly
  <2>6. /\ jobs'[i].status = "running" /\ jobs'[i].lockedBy = p /\ jobs'[i].age = 0
        /\ jobs'[i].attempts = jobs[i].attempts + 1 /\ jobs'[i].key = jobs[i].key
    BY <2>3, <1>a DEF QueueTypeOK, Row
  <2>7. runs'[n] = c /\ \A q \in RunIds : q # n => runs'[q] = runs[q]
    BY <2>1, <1>a DEF WorkerTypeOK
  <2>8. Holds(n)'
    BY <2>1, <2>5, <2>6, <2>7, QueueAssumption DEF Holds
  <2>9. ASSUME NEW q \in RunIds, Handling(q)', q # n PROVE Holds(q)'
    <3>1. runs'[q] = runs[q] /\ Handling(q)
      BY <2>7, <2>9 DEF Handling
    <3>2. jobs'[runs[q].id] = jobs[runs[q].id]
      BY <1>a, <2>2, <2>4, <3>1 DEF RunsAreClaims
    <3> QED BY <2>5, <3>1, <3>2 DEF Exclusive, Holds
  <2>10. \A q \in RunIds : Handling(q)' => Holds(q)'
    BY <2>8, <2>9
  <2>11. OneRunPerRow'
    BY <2>1, <2>2, <2>7 DEF Exclusive, OneRunPerRow, Handling
  <2>12. NoZombies' /\ HolderOnly'
    BY <2>1, <2>5, <2>7 DEF Exclusive, NoZombies, HolderOnly
  <2> QED BY <2>10, <2>11, <2>12 DEF Exclusive
<1>17. ASSUME NEW r \in RunIds, HandlerReturns(r) PROVE Goal
  <2> SUFFICES ASSUME Exclusive PROVE Exclusive'
    BY <1>17, <1>b DEF HandlerReturns
  <2>1. \A j \in JobIds : j # runs[r].id => jobs'[j] = jobs[j]
    BY <1>17, <1>a, UnlockedTouchesOne DEF HandlerReturns, Complete, RunsAreClaims
  <2> QED BY <1>17, <1>a, <2>1, SettledRowOnly DEF HandlerReturns
<1>18. ASSUME NEW r \in RunIds, HandlerThrows(r) PROVE Goal
  <2> SUFFICES ASSUME Exclusive PROVE Exclusive'
    BY <1>18, <1>b DEF HandlerThrows
  <2>1. \A j \in JobIds : j # runs[r].id => jobs'[j] = jobs[j]
    BY <1>18, <1>a, FailTouchesOne DEF HandlerThrows, RunsAreClaims
  <2> QED BY <1>18, <1>a, <2>1, SettledRowOnly DEF HandlerThrows
<1>19. ASSUME NEW r \in RunIds, HandlerDeferred(r) PROVE Goal
  <2> SUFFICES ASSUME Exclusive PROVE Exclusive'
    BY <1>19, <1>c, <1>d DEF HandlerDeferred
  <2>1. \A j \in JobIds : j # runs[r].id => jobs'[j] = jobs[j]
    BY <1>19, <1>a, RequeueTouchesOne DEF HandlerDeferred, Defer, RunsAreClaims
  <2> QED BY <1>19, <1>a, <2>1, SettledRowOnly DEF HandlerDeferred
<1>20. ASSUME NEW r \in RunIds, WatchdogFires(r) PROVE Goal
  <2>1. ~Exclusive
    BY <1>20, <1>a, QueueAssumption, WorkerAssumption
       DEF WatchdogFires, Exclusive, Holds, WorkerTypeOK, Run
  <2>2. CASE UNCHANGED budget
    BY <1>b, <2>1, <2>2
  <2>3. CASE Spend("zombie")
    BY <1>c, <1>d, <2>1, <2>3
  <2> QED BY <1>20, <2>2, <2>3 DEF WatchdogFires
<1>21. ASSUME NEW r \in RunIds, SettleLost(r) PROVE Goal
  <2> SUFFICES ASSUME Exclusive PROVE Exclusive'
    BY <1>21, <1>c, <1>d DEF SettleLost
  <2> QED BY <1>21, <1>a, SettledRowOnly DEF SettleLost
<1>22. ASSUME NEW r \in RunIds, ZombieEnds(r) PROVE Goal
  BY <1>22, <1>b DEF ZombieEnds, Exclusive, NoZombies
<1>23. ASSUME NEW i \in JobIds, RunAfterElapses(i) PROVE Goal
  <2> SUFFICES ASSUME Exclusive PROVE Exclusive'
    BY <1>23, <1>b DEF RunAfterElapses
  <2>1. \A j \in JobIds : j # i => jobs'[j] = jobs[j]
    BY <1>23, <1>a DEF RunAfterElapses, RunAfterPasses, QueueTypeOK
  <2>2. \A r \in RunIds : Handling(r) => runs[r].id # i
    BY <1>23 DEF RunAfterElapses, RunAfterPasses, Exclusive, Holds
  <2>3. \A r \in RunIds : Handling(r) => jobs'[runs[r].id] = jobs[runs[r].id]
    BY <1>a, <2>1, <2>2 DEF RunsAreClaims
  <2> QED BY <1>23, <1>a, <2>3, HeldRowsKept DEF RunAfterElapses
<1>24. CASE Tick
  <2>1. BudgetBound'
    <3>1. \A e \in Events : budget[e] \in Nat /\ Budget[e] \in Nat /\ budget[e] <= Budget[e]
      BY <1>a, WorkerAssumption DEF WorkerTypeOK, BudgetBound
    <3>2. \A e \in Events : budget'[e] = budget[e] \/ budget'[e] = 0
      BY <1>24, <1>a DEF Tick, WorkerTypeOK
    <3> QED BY <3>1, <3>2 DEF BudgetBound
  <2>2. ASSUME Undisturbed' PROVE ~Overstays /\ Exclusive
    <3>1. ~Overstays
      <4> SUFFICES ASSUME Overstays PROVE FALSE
        OBVIOUS
      <4>1. Budget["slow"] > 0 /\ budget'["slow"] = 0
        BY <1>24, <1>a, <1>d DEF Tick, WorkerTypeOK
      <4> QED BY <2>2, <4>1 DEF Undisturbed
    <3>2. budget' = budget
      BY <1>24, <3>1 DEF Tick
    <3> QED BY <1>b, <2>2, <3>1, <3>2
  <2>3. ASSUME ~Overstays, Exclusive PROVE Exclusive'
    <3>1. \A r \in RunIds : runs[r] \in Run
      BY <1>a DEF WorkerTypeOK
    <3>2. \A r \in RunIds : /\ runs'[r].stage = runs[r].stage
                            /\ runs'[r].proc = runs[r].proc
                            /\ runs'[r].id = runs[r].id
                            /\ runs'[r].key = runs[r].key
                            /\ runs'[r].att = runs[r].att
      BY <1>24, <3>1 DEF Tick, Run
    <3>3. \A r \in RunIds : Handling(r) => runs[r].age \in Nat /\ runs[r].age + 1 < StaleAge
      BY <2>3, <3>1, QueueAssumption DEF Overstays, Run
    <3>4. \A r \in RunIds : Handling(r) => runs'[r].age = runs[r].age + 1
      BY <1>24, <3>1, <3>3, QueueAssumption, WorkerAssumption DEF Tick, Run
    <3>5. \A i \in JobIds : /\ jobs'[i].status = jobs[i].status
                            /\ jobs'[i].lockedBy = jobs[i].lockedBy
                            /\ jobs'[i].attempts = jobs[i].attempts
                            /\ jobs'[i].key = jobs[i].key
      BY <1>24, <1>a DEF Tick, AgeRunningRows, QueueTypeOK, Row
    <3>6. \A i \in JobIds : jobs[i].status = "running" /\ jobs[i].age < StaleAge
                              => jobs'[i].age = jobs[i].age + 1
      BY <1>24, <1>a DEF Tick, AgeRunningRows, QueueTypeOK, Row
    <3>7. \A r \in RunIds : Handling(r)' => Handling(r)
      BY <3>2 DEF Handling
    <3>8. \A r \in RunIds : Handling(r)' => Holds(r)'
      <4> SUFFICES ASSUME NEW r \in RunIds, Handling(r) PROVE Holds(r)'
        BY <3>7
      <4>1. Holds(r) /\ runs[r].id \in JobIds
        BY <1>a, <2>3 DEF Exclusive, RunsAreClaims
      <4>2. pc' = pc
        BY <1>24 DEF Tick
      <4>3. jobs'[runs[r].id].age = runs'[r].age /\ runs'[r].age < StaleAge
        BY <3>3, <3>4, <3>6, <4>1 DEF Holds
      <4> QED BY <3>2, <3>5, <4>1, <4>2, <4>3 DEF Holds
    <3>9. OneRunPerRow' /\ NoZombies'
      BY <2>3, <3>2, <3>7 DEF Exclusive, OneRunPerRow, NoZombies
    <3>10. HolderOnly'
      BY <1>24, <2>3 DEF Tick, Exclusive, HolderOnly
    <3> QED BY <3>8, <3>9, <3>10 DEF Exclusive
  <2> QED BY <2>1, <2>2, <2>3
<1> QED
  BY <1>0, <1>1, <1>2, <1>3, <1>4, <1>5, <1>6, <1>7, <1>8, <1>10, <1>11, <1>12, <1>13,
     <1>14, <1>15, <1>16, <1>17, <1>18, <1>19, <1>20, <1>21, <1>22, <1>23, <1>24
     DEF Next, ProcessStep, RunStep

LEMMA ExclusiveInit == Init => IInv
<1> SUFFICES ASSUME Init PROVE IInv
  OBVIOUS
<1>1. TypeInv
  BY TypeInit
<1>2. BudgetBound
  BY WorkerAssumption DEF Init, BudgetBound
<1>3. Exclusive
  BY DEF Init, Exclusive, HolderOnly, NoZombies, OneRunPerRow, Handling, Free
<1> QED BY <1>1, <1>2, <1>3 DEF IInv

LEMMA ExclusiveInvariance == Spec => []IInv
BY ExclusiveInit, ExclusiveStep, PTL DEF Spec

(* As long as no process was told to stop, no lock connection dropped and   *)
(* no handler reached the stale threshold, each handler at work still holds *)
(* the row it claimed, however many processes crash and boot again.         *)
THEOREM ClaimsAreHeld == Spec => []HandlerHoldsItsRow
<1>1. IInv => HandlerHoldsItsRow
  BY DEF IInv, HandlerHoldsItsRow, Exclusive, Holds
<1> QED BY <1>1, ExclusiveInvariance, PTL

(* Under the same conditions no two handlers execute for one key at once.   *)
THEOREM NeverOverlaps == Spec => []NoOverlapUndisturbed
<1>1. IInv => NoOverlapUndisturbed
  <2> SUFFICES ASSUME IInv, Undisturbed, NEW r1 \in RunIds, NEW r2 \in RunIds,
                      Executing(r1), Executing(r2), runs[r1].key = runs[r2].key
               PROVE  r1 = r2
    BY DEF NoOverlapUndisturbed, NoOverlap
  <2>1. Handling(r1) /\ Handling(r2)
    BY DEF IInv, Exclusive, NoZombies, Executing, Handling
  <2>2. runs[r1].id = runs[r2].id
    BY <2>1 DEF IInv, TypeInv, QueueInv, OneLiveRowPerKey, RunsAreClaims, Exclusive, Holds, Live
  <2> QED BY <2>1, <2>2 DEF IInv, Exclusive, OneRunPerRow
<1> QED BY <1>1, ExclusiveInvariance, PTL

(* Under the same conditions at most one process has jobs in hand.          *)
THEOREM OneWorker == Spec => []OneWorkerAtATime
<1>1. IInv => OneWorkerAtATime
  <2> SUFFICES ASSUME IInv, Undisturbed, NEW r1 \in RunIds, NEW r2 \in RunIds,
                      Handling(r1), Handling(r2)
               PROVE  runs[r1].proc = runs[r2].proc
    BY DEF OneWorkerAtATime
  <2>1. \A r \in {r1, r2} : runs[r].proc \in Procs /\ pc[runs[r].proc] = "up"
    BY DEF IInv, TypeInv, RunsAreClaims, Exclusive, Holds
  <2> QED BY <2>1 DEF IInv, Exclusive, HolderOnly
<1> QED BY <1>1, ExclusiveInvariance, PTL

-----------------------------------------------------------------------------
(* What a step may do to the runs.  Only a claim starts one; every other    *)
(* step leaves a run in its lane, or takes it out of it.                    *)
SameRun(r) == /\ Handling(r)
              /\ runs'[r].proc = runs[r].proc
              /\ runs'[r].id = runs[r].id
              /\ runs'[r].key = runs[r].key

NoRunStarts == \A r \in RunIds : Handling(r)' => SameRun(r)

RunStarts(n, p, i) ==
  /\ n \in RunIds /\ ~Handling(n)
  /\ Handling(n)' /\ runs'[n].proc = p /\ runs'[n].id = i /\ runs'[n].key = jobs[i].key
  /\ \A r \in RunIds : r # n => runs'[r] = runs[r]

LEMMA UnchangedRuns ==
  ASSUME UNCHANGED runs
  PROVE  NoRunStarts
BY DEF NoRunStarts, SameRun, Handling

LEMMA LeavingStartsNone ==
  ASSUME TypeInv, NEW r \in RunIds, LeavesLane(r)
  PROVE  NoRunStarts
BY DEF TypeInv, WorkerTypeOK, LeavesLane, NoRunStarts, SameRun, Handling, Free

LEMMA GoneStartsNone ==
  ASSUME TypeInv, NEW p \in Procs, Gone(p)
  PROVE  NoRunStarts
BY DEF TypeInv, WorkerTypeOK, Gone, NoRunStarts, SameRun, Handling, Free

LEMMA ClaimStartsOne ==
  ASSUME TypeInv, NEW p \in Procs, NEW s \in Sources, NEW i \in JobIds, ClaimNext(p, s, i)
  PROVE  \E n \in RunIds : RunStarts(n, p, i)
<1> DEFINE n == CHOOSE r \in FreeRuns : TRUE
           c == [stage |-> "handling", proc |-> p, id |-> i, key |-> jobs[i].key,
                 att |-> jobs[i].attempts + 1, age |-> 0]
<1>1. n \in FreeRuns
  BY DEF ClaimNext
<1>2. n \in RunIds /\ ~Handling(n)
  BY <1>1 DEF FreeRuns, Handling
<1>3. runs' = [runs EXCEPT ![n] = c]
  BY DEF ClaimNext
<1>4. runs'[n] = c /\ \A r \in RunIds : r # n => runs'[r] = runs[r]
  BY <1>2, <1>3 DEF TypeInv, WorkerTypeOK
<1>5. c.stage = "handling" /\ c.proc = p /\ c.id = i /\ c.key = jobs[i].key
  OBVIOUS
<1> HIDE DEF n, c
<1> QED BY <1>2, <1>4, <1>5 DEF RunStarts, Handling

LEMMA OnlyClaimsStartRuns ==
  ASSUME TypeInv, [Next]_vars
  PROVE  \/ NoRunStarts
         \/ \E p \in Procs, s \in Sources, i \in JobIds : ClaimNext(p, s, i)
<1>1. CASE UNCHANGED vars
  BY <1>1, UnchangedRuns DEF vars
<1>2. ASSUME NEW p \in Procs, ProcessStep(p),
             ~\E s \in Sources, i \in JobIds : ClaimNext(p, s, i)
      PROVE  NoRunStarts
  <2>1. CASE Exit(p) \/ Crash(p)
    BY <2>1, GoneStartsNone DEF Exit, Crash
  <2>2. CASE ~(Exit(p) \/ Crash(p))
    BY <1>2, <2>2, UnchangedRuns
       DEF ProcessStep, AcquireLock, ReclaimAbandoned, Sigterm, Release, LockDropped,
           ReclaimStaleRows, EnqueueDueJobs, SeesCircuitOpen, SeesCircuitClosed
  <2> QED BY <2>1, <2>2
<1>3. ASSUME NEW r \in RunIds, RunStep(r) PROVE NoRunStarts
  <2>1. CASE LeavesLane(r)
    BY <2>1, LeavingStartsNone
  <2>2. CASE runs' = [runs EXCEPT ![r].stage = "zombie"]
    BY <2>2 DEF TypeInv, WorkerTypeOK, Run, NoRunStarts, SameRun, Handling
  <2>3. CASE UNCHANGED runs
    BY <2>3, UnchangedRuns
  <2> QED
    BY <1>3, <2>1, <2>2, <2>3
       DEF RunStep, HandlerReturns, HandlerThrows, HandlerDeferred, WatchdogFires,
           SettleLost, ZombieEnds, FanOut
<1>4. CASE Tick
  <2>1. \A r \in RunIds : runs[r] \in Run
    BY DEF TypeInv, WorkerTypeOK
  <2>2. \A r \in RunIds : /\ runs'[r].stage = runs[r].stage
                          /\ runs'[r].proc = runs[r].proc
                          /\ runs'[r].id = runs[r].id
                          /\ runs'[r].key = runs[r].key
    BY <1>4, <2>1 DEF Tick, Run
  <2> QED BY <2>2 DEF NoRunStarts, SameRun, Handling
<1>5. CASE RetryDeadJobs \/ (\E k \in Keys : TriggerJob(k))
           \/ (\E i \in JobIds : RunAfterElapses(i))
  BY <1>5, UnchangedRuns DEF RetryDeadJobs, TriggerJob, RunAfterElapses
<1> QED BY <1>1, <1>2, <1>3, <1>4, <1>5 DEF Next

-----------------------------------------------------------------------------
(* The lanes, bounded.  Concurrency bounds each lane's set of runs whether  *)
(* or not there are finitely many run identities.                           *)
LaneInv ==
  \A p \in Procs, s \in Sources : /\ IsFiniteSet(Lane(p, s))
                                  /\ Cardinality(Lane(p, s)) <= Concurrency[s]

LEMMA LaneInit == Init => LaneInv
<1> SUFFICES ASSUME Init, NEW p \in Procs, NEW s \in Sources
             PROVE  IsFiniteSet(Lane(p, s)) /\ Cardinality(Lane(p, s)) <= Concurrency[s]
  BY DEF LaneInv
<1>1. Lane(p, s) = {}
  BY DEF Init, Lane, Handling, Free
<1>2. Concurrency[s] \in Nat
  BY WorkerAssumption
<1> QED BY <1>1, <1>2, FS_EmptySet

LEMMA LaneStep == TypeInv /\ LaneInv /\ [Next]_vars => LaneInv'
<1> SUFFICES ASSUME TypeInv, LaneInv, [Next]_vars, NEW p \in Procs, NEW s \in Sources
             PROVE  IsFiniteSet(Lane(p, s)') /\ Cardinality(Lane(p, s)') <= Concurrency[s]
  BY DEF LaneInv
<1>1. /\ IsFiniteSet(Lane(p, s)) /\ Cardinality(Lane(p, s)) <= Concurrency[s]
      /\ Concurrency[s] \in Nat
  BY WorkerAssumption DEF LaneInv
<1>2. ASSUME Lane(p, s)' \subseteq Lane(p, s)
      PROVE  IsFiniteSet(Lane(p, s)') /\ Cardinality(Lane(p, s)') <= Concurrency[s]
  <2>1. IsFiniteSet(Lane(p, s)') /\ Cardinality(Lane(p, s)') <= Cardinality(Lane(p, s))
    BY <1>1, <1>2, FS_Subset
  <2>2. Cardinality(Lane(p, s)') \in Nat /\ Cardinality(Lane(p, s)) \in Nat
    BY <1>1, <2>1, FS_CardinalityType
  <2> QED BY <1>1, <2>1, <2>2
<1>3. CASE NoRunStarts
  BY <1>2, <1>3 DEF NoRunStarts, SameRun, Lane
<1>4. ASSUME NEW q \in Procs, NEW t \in Sources, NEW i \in JobIds, ClaimNext(q, t, i)
      PROVE  IsFiniteSet(Lane(p, s)') /\ Cardinality(Lane(p, s)') <= Concurrency[s]
  <2>1. PICK n \in RunIds : RunStarts(n, q, i)
    BY <1>4, ClaimStartsOne
  <2>2. SourceOf[jobs[i].key] = t /\ LaneHasRoom(q, t)
    BY <1>4 DEF ClaimNext, Claim, Claimable
  <2>3. \A r \in RunIds : r # n => (r \in Lane(p, s)' <=> r \in Lane(p, s))
    BY <2>1 DEF RunStarts, Lane, Handling
  <2>4. CASE p = q /\ s = t
    <3>1. Lane(p, s)' = Lane(p, s) \cup {n} /\ n \notin Lane(p, s)
      BY <2>1, <2>2, <2>3, <2>4 DEF RunStarts, Lane
    <3>2. Cardinality(Lane(p, s)) \in Nat /\ Cardinality(Lane(p, s)) < Concurrency[s]
      BY <1>1, <2>2, <2>4, FS_CardinalityType DEF LaneHasRoom
    <3>3. /\ IsFiniteSet(Lane(p, s)')
          /\ Cardinality(Lane(p, s)') = Cardinality(Lane(p, s)) + 1
      BY <1>1, <3>1, FS_AddElement
    <3> QED BY <1>1, <3>2, <3>3
  <2>5. CASE ~(p = q /\ s = t)
    <3>1. n \notin Lane(p, s)'
      BY <2>1, <2>2, <2>5 DEF RunStarts, Lane
    <3>2. Lane(p, s)' \subseteq Lane(p, s)
      BY <2>3, <3>1 DEF Lane
    <3> QED BY <1>2, <3>2
  <2> QED BY <2>4, <2>5
<1> QED BY <1>3, <1>4, OnlyClaimsStartRuns

(* A process never has more handlers of a source in its lane than the       *)
(* source's concurrency, for any concurrency and any number of runs.        *)
THEOREM LanesAreBounded == Spec => []LaneBound
<1>1. Spec => [](TypeInv /\ LaneInv)
  BY LaneInit, LaneStep, TypeInit, TypeStep, PTL DEF Spec
<1>2. LaneInv => LaneBound
  BY DEF LaneInv, LaneBound
<1> QED BY <1>1, <1>2, PTL

-----------------------------------------------------------------------------
(* Orphans.  As long as no lock connection dropped, a process that booted   *)
(* and is not released holds the lock; and as long as no settling statement *)
(* was lost either, whoever serves under the lock has a handler of its own  *)
(* for every running row.                                                   *)
Attached == budget["drop"] = Budget["drop"] /\ budget["lost"] = Budget["lost"]

LockKept == \A p \in Procs : pc[p] \in {"locked", "up", "draining"} => lock = p

OwnHandler(p, i) == \E r \in RunIds : Handling(r) /\ runs[r].id = i /\ runs[r].proc = p

NoOrphan == \A p \in Procs : lock = p /\ Serving(p) =>
              \A i \in JobIds : jobs[i].status = "running" => OwnHandler(p, i)

OrphanInv == TypeInv /\ BudgetBound /\ (Attached => LockKept /\ NoOrphan)

(* A settling statement never leaves its row running: the only one that can *)
(* be refused is a requeue, and the index never refuses a row that is in    *)
(* it.                                                                      *)
LEMMA UnlockedStops ==
  ASSUME QueueTypeOK, NEW i \in JobIds, NEW st \in {"pending", "done", "dead"},
         NEW att, NEW due, jobs' = Unlocked(i, st, att, due)
  PROVE  jobs'[i].status # "running"
<1>1. jobs'[i].status = st
  BY DEF Unlocked, QueueTypeOK, Row
<1> QED BY <1>1

LEMMA RequeueStops ==
  ASSUME QueueInv, NEW i \in JobIds, NEW att, Requeue(i, att)
  PROVE  jobs'[i].status # "running"
<1>1. CASE IndexAllows(i, jobs[i].key)
  BY <1>1, UnlockedStops DEF Requeue, QueueInv
<1>2. CASE ~IndexAllows(i, jobs[i].key)
  BY <1>2 DEF Requeue, IndexAllows, LiveRows, QueueInv, OneLiveRowPerKey, Live
<1> QED BY <1>1, <1>2

LEMMA FailStops ==
  ASSUME QueueInv, NEW i \in JobIds, NEW att, Fail(i, att)
  PROVE  jobs'[i].status # "running"
BY UnlockedStops, RequeueStops DEF Fail, QueueInv

(* A step that keeps the lock, serves no new process, sets no row running   *)
(* and takes a run from its lane only with the row it ran.                  *)
LEMMA HandlersKept ==
  ASSUME NoOrphan, lock' = lock, \A p \in Procs : Serving(p)' => Serving(p),
         \A i \in JobIds : jobs'[i].status = "running" => jobs[i].status = "running",
         \A r \in RunIds :
           Handling(r) /\ (runs[r].id \in JobIds => jobs'[runs[r].id].status = "running")
             => Handling(r)' /\ runs'[r].id = runs[r].id /\ runs'[r].proc = runs[r].proc
  PROVE  NoOrphan'
<1> SUFFICES ASSUME NEW p \in Procs, lock = p, Serving(p), NEW i \in JobIds,
                    jobs'[i].status = "running"
             PROVE  OwnHandler(p, i)'
  BY DEF NoOrphan
<1>1. PICK r \in RunIds : Handling(r) /\ runs[r].id = i /\ runs[r].proc = p
  BY DEF NoOrphan, OwnHandler
<1> QED BY <1>1 DEF OwnHandler

LEMMA OrphanStep == OrphanInv /\ [Next]_vars => OrphanInv'
<1> SUFFICES ASSUME OrphanInv, [Next]_vars
             PROVE  BudgetBound' /\ (Attached' => LockKept' /\ NoOrphan')
  BY TypeStep DEF OrphanInv
<1> DEFINE Goal == BudgetBound' /\ (Attached' => LockKept' /\ NoOrphan')
           Safe == LockKept /\ NoOrphan
<1>a. /\ TypeInv /\ QueueInv /\ QueueTypeOK /\ WorkerTypeOK /\ RunsAreClaims
      /\ BudgetBound
  BY DEF OrphanInv, TypeInv, QueueInv
<1>b. budget' = budget => BudgetBound' /\ (Attached' => Safe)
  BY DEF OrphanInv, BudgetBound, Attached
<1>c. ASSUME NEW e \in Events, Spend(e)
      PROVE  BudgetBound' /\ (Attached' => Safe /\ e \notin {"drop", "lost"})
  <2>1. BudgetBound' /\ budget'[e] # Budget[e]
    BY <1>a, <1>c, SpendShrinks
  <2>2. \A f \in Events : f # e => budget'[f] = budget[f]
    BY <1>a, <1>c DEF Spend, WorkerTypeOK
  <2>3. "drop" \in Events /\ "lost" \in Events
    BY DEF Events
  <2> QED BY <2>1, <2>2, <2>3 DEF Attached, OrphanInv
<1>d. {"stop", "drop", "crash", "lost", "defer", "retry", "pause", "zombie"} \subseteq Events
  BY DEF Events
<1>e. ASSUME Safe, UNCHANGED <<lock, pc, runs>>,
             \A i \in JobIds : jobs'[i].status = "running" => jobs[i].status = "running"
      PROVE  LockKept' /\ NoOrphan'
  BY <1>e, HandlersKept DEF LockKept, Serving, Handling
<1>f. ASSUME Safe, UNCHANGED <<lock, pc>>, NEW r \in RunIds, Handling(r),
             runs' = [runs EXCEPT ![r] = Free] \/ runs' = [runs EXCEPT ![r].stage = "zombie"],
             jobs'[runs[r].id].status # "running",
             \A i \in JobIds : i # runs[r].id => jobs'[i] = jobs[i]
      PROVE  LockKept' /\ NoOrphan'
  <2>1. \A q \in RunIds : q # r => runs'[q] = runs[q]
    BY <1>a, <1>f DEF WorkerTypeOK
  <2>2. runs[r].id \in JobIds
    BY <1>a, <1>f DEF RunsAreClaims
  <2>3. NoOrphan'
    BY <1>f, <2>1, <2>2, HandlersKept DEF Serving, Handling
  <2> QED BY <1>f, <2>3 DEF LockKept
<1>0. CASE UNCHANGED vars
  BY <1>0, <1>b, <1>e DEF vars
<1>1. ASSUME NEW p \in Procs, AcquireLock(p) PROVE Goal
  <2> SUFFICES ASSUME Safe PROVE LockKept' /\ NoOrphan'
    BY <1>1, <1>b DEF AcquireLock
  <2>1. pc'[p] = "locked" /\ lock' = p /\ \A q \in Procs : q # p => pc'[q] = pc[q]
    BY <1>1, <1>a DEF AcquireLock, WorkerTypeOK
  <2>2. \A q \in Procs : q # p => pc[q] \notin {"locked", "up", "draining"}
    BY <1>1, QueueAssumption DEF AcquireLock, LockKept
  <2> QED BY <2>1, <2>2 DEF LockKept, NoOrphan, Serving
<1>2. ASSUME NEW p \in Procs, ReclaimAbandoned(p) PROVE Goal
  <2> SUFFICES ASSUME Safe PROVE LockKept' /\ NoOrphan'
    BY <1>2, <1>b DEF ReclaimAbandoned
  <2>1. \A i \in JobIds : jobs[i].status = "running" => Stale(i, 0)
    BY <1>a DEF Stale, QueueTypeOK, Row
  <2>2. \A i \in JobIds : jobs'[i].status # "running"
    BY <1>2, <1>a, <2>1 DEF ReclaimAbandoned, ReclaimStale, QueueTypeOK, Row
  <2>3. LockKept'
    BY <1>2, <1>a DEF ReclaimAbandoned, LockKept, WorkerTypeOK
  <2> QED BY <2>2, <2>3 DEF NoOrphan
<1>3. ASSUME NEW p \in Procs, Sigterm(p) PROVE Goal
  <2> SUFFICES ASSUME Safe PROVE LockKept' /\ NoOrphan'
    BY <1>3, <1>c, <1>d DEF Sigterm
  <2>1. \A q \in Procs : pc'[q] = pc[q] \/ (q = p /\ pc[q] = "up" /\ pc'[q] = "draining")
    BY <1>3, <1>a DEF Sigterm, WorkerTypeOK
  <2> QED BY <1>3, <2>1, HandlersKept DEF Sigterm, LockKept, Serving, Handling
<1>4. ASSUME NEW p \in Procs, Release(p) PROVE Goal
  <2> SUFFICES ASSUME Safe PROVE LockKept' /\ NoOrphan'
    BY <1>4, <1>b DEF Release
  <2>1. pc'[p] = "released" /\ \A q \in Procs : q # p => pc'[q] = pc[q]
    BY <1>4, <1>a DEF Release, WorkerTypeOK
  <2>2. \A q \in Procs : pc[q] \in {"locked", "up", "draining"} => q = p
    BY <1>4 DEF Release, LockKept
  <2> QED BY <2>1, <2>2 DEF LockKept, NoOrphan, Serving
<1>5. ASSUME NEW p \in Procs, Gone(p), Safe PROVE LockKept' /\ NoOrphan'
  <2>1. pc'[p] = "down" /\ \A q \in Procs : q # p => pc'[q] = pc[q]
    BY <1>5, <1>a DEF Gone, WorkerTypeOK
  <2>2. \A q \in Procs : q # p => (lock' = q <=> lock = q)
    BY <1>5, QueueAssumption DEF Gone
  <2>3. LockKept'
    BY <1>5, <2>1, <2>2 DEF LockKept
  <2>4. \A r \in RunIds : runs[r].proc # p => runs'[r] = runs[r]
    BY <1>5 DEF Gone
  <2>5. jobs' = jobs
    BY <1>5 DEF Gone
  <2>6. ASSUME NEW q \in Procs, lock' = q, Serving(q)', NEW i \in JobIds,
               jobs'[i].status = "running"
        PROVE  OwnHandler(q, i)'
    <3>1. q # p /\ lock = q /\ Serving(q)
      BY <2>1, <2>2, <2>6 DEF Serving
    <3>2. PICK r \in RunIds : Handling(r) /\ runs[r].id = i /\ runs[r].proc = q
      BY <1>5, <2>5, <2>6, <3>1 DEF NoOrphan, OwnHandler
    <3> QED BY <2>4, <3>1, <3>2 DEF OwnHandler, Handling
  <2> QED BY <2>3, <2>6 DEF NoOrphan
<1>6. ASSUME NEW p \in Procs, Exit(p) PROVE Goal
  BY <1>6, <1>5, <1>b DEF Exit
<1>7. ASSUME NEW p \in Procs, Crash(p) PROVE Goal
  BY <1>7, <1>5, <1>c, <1>d DEF Crash
<1>8. ASSUME NEW p \in Procs, LockDropped(p) PROVE Goal
  BY <1>8, <1>c, <1>d DEF LockDropped
<1>9. ASSUME NEW p \in Procs, ReclaimStaleRows(p) PROVE Goal
  <2>1. \A i \in JobIds : jobs'[i].status = "running" => jobs[i].status = "running"
    BY <1>9, <1>a DEF ReclaimStaleRows, ReclaimStale, QueueTypeOK, Row
  <2> QED BY <1>9, <2>1, <1>b, <1>e DEF ReclaimStaleRows
<1>10. ASSUME NEW k \in Keys, NEW pr, Enqueue(k, pr, FreshIds),
              UNCHANGED <<lock, pc, paused, runs, budget>>
       PROVE  Goal
  <2>1. \A i \in JobIds : jobs'[i] = jobs[i] \/ jobs'[i].status = "pending"
    BY <1>10, <1>a DEF Enqueue, FreshIds, QueueTypeOK, NoRow
  <2> QED BY <1>10, <2>1, <1>b, <1>e
<1>11. ASSUME NEW p \in Procs, NEW k \in Keys, EnqueueDueJobs(p, k) PROVE Goal
  BY <1>11, <1>10 DEF EnqueueDueJobs
<1>12. ASSUME NEW k \in Keys, TriggerJob(k) PROVE Goal
  BY <1>12, <1>10 DEF TriggerJob
<1>13. ASSUME NEW r \in RunIds, NEW k \in Keys, FanOut(r, k) PROVE Goal
  BY <1>13, <1>10 DEF FanOut
<1>14. CASE RetryDeadJobs
  <2>1. \A i \in JobIds : jobs'[i] = jobs[i] \/ jobs'[i].status = "pending"
    BY <1>14, <1>a DEF RetryDeadJobs, RetryDead, QueueTypeOK, Row
  <2> QED BY <1>14, <2>1, <1>c, <1>d, <1>e DEF RetryDeadJobs
<1>15. ASSUME NEW p \in Procs, NEW s \in Sources, SeesCircuitOpen(p, s) PROVE Goal
  BY <1>15, <1>c, <1>d, <1>e DEF SeesCircuitOpen
<1>16. ASSUME NEW p \in Procs, NEW s \in Sources, SeesCircuitClosed(p, s) PROVE Goal
  BY <1>16, <1>b, <1>e DEF SeesCircuitClosed
<1>17. ASSUME NEW p \in Procs, NEW s \in Sources, NEW i \in JobIds, ClaimNext(p, s, i)
       PROVE  Goal
  <2> SUFFICES ASSUME Safe PROVE LockKept' /\ NoOrphan'
    BY <1>17, <1>b DEF ClaimNext
  <2>1. PICK n \in RunIds : RunStarts(n, p, i)
    BY <1>17, <1>a, ClaimStartsOne
  <2>2. lock = p /\ UNCHANGED <<lock, pc>>
    BY <1>17 DEF ClaimNext, Serving, LockKept
  <2>3. \A j \in JobIds : j # i => jobs'[j] = jobs[j]
    BY <1>17, <1>a DEF ClaimNext, Claim, QueueTypeOK
  <2>4. ASSUME NEW j \in JobIds, jobs'[j].status = "running", Serving(p) PROVE OwnHandler(p, j)'
    <3>1. CASE j = i
      BY <2>1, <3>1 DEF RunStarts, OwnHandler
    <3>2. CASE j # i
      <4>1. PICK r \in RunIds : Handling(r) /\ runs[r].id = j /\ runs[r].proc = p
        BY <2>2, <2>3, <2>4, <3>2 DEF NoOrphan, OwnHandler
      <4> QED BY <2>1, <4>1 DEF RunStarts, OwnHandler, Handling
    <3> QED BY <3>1, <3>2
  <2> QED BY <2>2, <2>4 DEF LockKept, NoOrphan, Serving
<1>18. ASSUME NEW r \in RunIds, HandlerReturns(r) PROVE Goal
  <2> SUFFICES ASSUME Safe PROVE LockKept' /\ NoOrphan'
    BY <1>18, <1>b DEF HandlerReturns
  <2>1. runs[r].id \in JobIds
    BY <1>18, <1>a DEF HandlerReturns, RunsAreClaims
  <2>2. /\ jobs'[runs[r].id].status # "running"
        /\ \A j \in JobIds : j # runs[r].id => jobs'[j] = jobs[j]
    BY <1>18, <1>a, <2>1, UnlockedStops, UnlockedTouchesOne DEF HandlerReturns, Complete
  <2> QED BY <1>18, <2>2, <1>f DEF HandlerReturns, LeavesLane
<1>19. ASSUME NEW r \in RunIds, Handling(r), Fail(runs[r].id, runs[r].att)
       PROVE  /\ jobs'[runs[r].id].status # "running"
              /\ \A j \in JobIds : j # runs[r].id => jobs'[j] = jobs[j]
  BY <1>19, <1>a, FailStops, FailTouchesOne DEF RunsAreClaims
<1>20. ASSUME NEW r \in RunIds, HandlerThrows(r) PROVE Goal
  BY <1>20, <1>19, <1>b, <1>f DEF HandlerThrows, LeavesLane
<1>21. ASSUME NEW r \in RunIds, HandlerDeferred(r) PROVE Goal
  <2> SUFFICES ASSUME Safe PROVE LockKept' /\ NoOrphan'
    BY <1>21, <1>c, <1>d DEF HandlerDeferred
  <2>1. runs[r].id \in JobIds
    BY <1>21, <1>a DEF HandlerDeferred, RunsAreClaims
  <2>2. /\ jobs'[runs[r].id].status # "running"
        /\ \A j \in JobIds : j # runs[r].id => jobs'[j] = jobs[j]
    BY <1>21, <1>a, <2>1, RequeueStops, RequeueTouchesOne DEF HandlerDeferred, Defer
  <2> QED BY <1>21, <2>2, <1>f DEF HandlerDeferred, LeavesLane
<1>22. ASSUME NEW r \in RunIds, WatchdogFires(r) PROVE Goal
  <2>1. BudgetBound' /\ (Attached' => Safe)
    BY <1>22, <1>b, <1>c, <1>d DEF WatchdogFires
  <2> QED BY <1>22, <2>1, <1>19, <1>f DEF WatchdogFires, LeavesLane
<1>23. ASSUME NEW r \in RunIds, SettleLost(r) PROVE Goal
  BY <1>23, <1>c, <1>d DEF SettleLost
<1>24. ASSUME NEW r \in RunIds, ZombieEnds(r) PROVE Goal
  <2> SUFFICES ASSUME Safe PROVE LockKept' /\ NoOrphan'
    BY <1>24, <1>b DEF ZombieEnds
  <2>1. \A q \in RunIds : Handling(q) => runs'[q] = runs[q]
    BY <1>24, <1>a DEF ZombieEnds, LeavesLane, Handling, WorkerTypeOK
  <2> QED BY <1>24, <2>1, HandlersKept DEF ZombieEnds, LockKept, Serving, Handling
<1>25. ASSUME NEW i \in JobIds, RunAfterElapses(i) PROVE Goal
  <2>1. \A j \in JobIds : jobs'[j].status = jobs[j].status
    BY <1>25, <1>a DEF RunAfterElapses, RunAfterPasses, QueueTypeOK, Row
  <2> QED BY <1>25, <2>1, <1>b, <1>e DEF RunAfterElapses
<1>26. CASE Tick
  <2>1. BudgetBound' /\ (Attached' => Safe)
    <3>1. "drop" # "slow" /\ "lost" # "slow" /\ "slow" \in Events
      BY DEF Events
    <3>2. \A e \in Events : /\ budget[e] \in Nat /\ Budget[e] \in Nat
                            /\ budget[e] <= Budget[e]
                            /\ budget'[e] = budget[e] \/ (budget'[e] = 0 /\ e = "slow")
      BY <1>26, <1>a, WorkerAssumption DEF Tick, WorkerTypeOK, BudgetBound
    <3> QED BY <3>1, <3>2, <1>d DEF BudgetBound, Attached, OrphanInv
  <2>2. \A r \in RunIds : /\ runs'[r].stage = runs[r].stage
                          /\ runs'[r].proc = runs[r].proc
                          /\ runs'[r].id = runs[r].id
    BY <1>26, <1>a DEF Tick, WorkerTypeOK, Run
  <2>3. \A i \in JobIds : jobs'[i].status = jobs[i].status
    BY <1>26, <1>a DEF Tick, AgeRunningRows, QueueTypeOK, Row
  <2>4. Safe => NoOrphan'
    BY <1>26, <2>2, <2>3, HandlersKept DEF Tick, Serving, Handling
  <2> QED BY <1>26, <2>1, <2>4 DEF Tick, LockKept
<1> QED
  BY <1>0, <1>1, <1>2, <1>3, <1>4, <1>6, <1>7, <1>8, <1>9, <1>11, <1>12, <1>13, <1>14,
     <1>15, <1>16, <1>17, <1>18, <1>20, <1>21, <1>22, <1>23, <1>24, <1>25, <1>26
     DEF Next, ProcessStep, RunStep

LEMMA OrphanInit == Init => OrphanInv
<1> SUFFICES ASSUME Init PROVE OrphanInv
  OBVIOUS
<1>1. TypeInv /\ BudgetBound
  BY ExclusiveInit DEF IInv
<1>2. LockKept /\ NoOrphan
  BY DEF Init, LockKept, NoOrphan, Serving
<1> QED BY <1>1, <1>2 DEF OrphanInv

(* reclaimAbandoned keeps its promise: as long as no lock connection drops  *)
(* and no settling statement is lost, a process that serves under the lock  *)
(* finds no row running that no handler is at work on, whoever crashed, was *)
(* released with handlers still running, or hung before.                    *)
THEOREM BootLeavesNoOrphan == Spec => []NoOrphanWhileServing
<1>1. Spec => []OrphanInv
  BY OrphanInit, OrphanStep, PTL DEF Spec
<1>2. OrphanInv => NoOrphanWhileServing
  BY DEF OrphanInv, Attached, NoOrphan, OwnHandler, NoOrphanWhileServing, Referenced
<1> QED BY <1>1, <1>2, PTL

-----------------------------------------------------------------------------
(* The refinement.  Rows are read as DedupedQueue reads them: by the phase  *)
(* of their status, their key, and whether a handler has them in hand.      *)
PhaseOf(i) == CASE jobs[i].status = "absent" -> "free"
                [] jobs[i].status \in Live -> "live"
                [] OTHER -> jobs[i].status

Held == {i \in JobIds : Referenced(i)}

LEMMA PhaseValues ==
  ASSUME QueueTypeOK, NEW i \in JobIds
  PROVE  /\ jobs[i].status \in {"absent", "pending", "running", "done", "dead"}
         /\ PhaseOf(i) = "live" <=> jobs[i].status \in Live
         /\ PhaseOf(i) = "free" <=> jobs[i].status = "absent"
         /\ PhaseOf(i) = "done" <=> jobs[i].status = "done"
         /\ PhaseOf(i) = "dead" <=> jobs[i].status = "dead"
BY DEF QueueTypeOK, Row, PhaseOf, Live

(* One lemma per action of DedupedQueue: what a step of the table and the   *)
(* runs has to do to be that action.                                        *)
KeysKept == \A i \in JobIds : jobs'[i].key = jobs[i].key

PhaseKept(i) == PhaseOf(i)' = PhaseOf(i)

LEMMA MapsToDrop ==
  ASSUME KeysKept, \A i \in JobIds : PhaseKept(i), Held' \subseteq Held
  PROVE  Queue!Drop
<1>1. [i \in JobIds |-> jobs[i].key]' = [i \in JobIds |-> jobs[i].key]
  BY DEF KeysKept
<1>2. [i \in JobIds |-> PhaseOf(i)]' = [i \in JobIds |-> PhaseOf(i)]
  BY DEF PhaseKept
<1> QED BY <1>1, <1>2 DEF Queue!Drop, Held, PhaseOf

LEMMA MapsToTake ==
  ASSUME KeysKept, \A i \in JobIds : PhaseKept(i),
         NEW j \in JobIds, PhaseOf(j) = "live", Held' = Held \cup {j}
  PROVE  Queue!Take(j)
<1>1. [i \in JobIds |-> jobs[i].key]' = [i \in JobIds |-> jobs[i].key]
  BY DEF KeysKept
<1>2. [i \in JobIds |-> PhaseOf(i)]' = [i \in JobIds |-> PhaseOf(i)]
  BY DEF PhaseKept
<1>3. [i \in JobIds |-> PhaseOf(i)][j] = "live"
  OBVIOUS
<1> QED BY <1>1, <1>2, <1>3 DEF Queue!Take, Held, PhaseOf

LEMMA MapsToSettle ==
  ASSUME QueueTypeOK, KeysKept, NEW j \in JobIds, NEW result \in {"live", "done", "dead"},
         j \in Held, \A i \in JobIds \ {j} : PhaseKept(i), PhaseOf(j)' = result,
         result = "live" => LiveRows(jobs[j].key) \subseteq {j},
         Held' = Held \/ Held' = Held \ {j}
  PROVE  Queue!Settle(j, result)
<1> DEFINE phase == [i \in JobIds |-> PhaseOf(i)]
           key == [i \in JobIds |-> jobs[i].key]
<1>1. key' = key
  BY DEF KeysKept
<1>2. phase' = [phase EXCEPT ![j] = result]
  BY DEF PhaseKept
<1>3. {i \in JobIds : phase[i] = "live" /\ key[i] = key[j]} = LiveRows(jobs[j].key)
  BY PhaseValues DEF LiveRows
<1> QED BY <1>1, <1>2, <1>3 DEF Queue!Settle, Queue!LiveJobs, Held, PhaseOf

LEMMA MapsToAccept ==
  ASSUME QueueTypeOK, NEW j \in JobIds, NEW k \in Keys,
         PhaseOf(j) \in {"free", "done"}, j \notin Held, LiveRows(k) = {},
         \A i \in JobIds \ {j} : jobs'[i] = jobs[i],
         PhaseOf(j)' = "live", jobs'[j].key = k, Held' = Held
  PROVE  Queue!Accept(j, k)
<1> DEFINE phase == [i \in JobIds |-> PhaseOf(i)]
           key == [i \in JobIds |-> jobs[i].key]
<1>1. key' = [key EXCEPT ![j] = k]
  OBVIOUS
<1>2. phase' = [phase EXCEPT ![j] = "live"]
  <2>1. \A i \in JobIds : PhaseOf(i)' = IF i = j THEN "live" ELSE PhaseOf(i)
    BY DEF PhaseOf
  <2> QED BY <2>1
<1>3. {i \in JobIds : phase[i] = "live" /\ key[i] = k} = {}
  BY PhaseValues DEF LiveRows
<1>4. phase[j] \in {"free", "done"}
  OBVIOUS
<1> QED BY <1>1, <1>2, <1>3, <1>4 DEF Queue!Accept, Queue!LiveJobs, Held, PhaseOf

LEMMA MapsToRevive ==
  ASSUME QueueTypeOK, KeysKept, Held' = Held,
         \A i \in JobIds : PhaseOf(i)' = IF i \in DeadRows THEN "live" ELSE PhaseOf(i),
         \A i \in DeadRows : /\ LiveRows(jobs[i].key) = {}
                             /\ \A j \in DeadRows \ {i} : jobs[j].key # jobs[i].key
  PROVE  Queue!Revive
<1> DEFINE phase == [i \in JobIds |-> PhaseOf(i)]
           key == [i \in JobIds |-> jobs[i].key]
           dead == {j \in JobIds : phase[j] = "dead"}
<1>1. key' = key
  BY DEF KeysKept
<1>2. dead = DeadRows
  BY PhaseValues DEF DeadRows
<1>3. phase' = [j \in JobIds |-> IF j \in dead THEN "live" ELSE phase[j]]
  BY <1>2
<1>4. \A j \in dead : {i \in JobIds : phase[i] = "live" /\ key[i] = key[j]} = {}
  BY <1>2, PhaseValues DEF LiveRows, DeadRows
<1>5. \A i, j \in dead : key[i] = key[j] => i = j
  BY <1>2
<1> QED BY <1>1, <1>3, <1>4, <1>5 DEF Queue!Revive, Queue!LiveJobs, Held, PhaseOf

(* What the steps do to the runs in hand.                                   *)
LEMMA NoRunStartsHolds ==
  ASSUME NoRunStarts
  PROVE  Held' \subseteq Held
BY DEF NoRunStarts, SameRun, Held, Referenced

LEMMA UnchangedRunsHold ==
  ASSUME UNCHANGED runs
  PROVE  Held' = Held
BY DEF Held, Referenced, Handling

(* The run that settles leaves its lane; another copy may keep the job held.*)
LEMMA SettlingHolds ==
  ASSUME TypeInv, NEW r \in RunIds, Handling(r),
         LeavesLane(r) \/ runs' = [runs EXCEPT ![r].stage = "zombie"]
  PROVE  Held' = Held \/ Held' = Held \ {runs[r].id}
<1>1. runs[r] \in Run /\ \A q \in RunIds : q # r => runs'[q] = runs[q]
  BY DEF TypeInv, WorkerTypeOK, LeavesLane
<1>2. ~Handling(r)'
  <2>1. CASE LeavesLane(r)
    BY <2>1 DEF TypeInv, WorkerTypeOK, LeavesLane, Handling, Free
  <2>2. CASE runs' = [runs EXCEPT ![r].stage = "zombie"]
    BY <1>1, <2>2 DEF TypeInv, WorkerTypeOK, Run, Handling
  <2> QED BY <2>1, <2>2
<1>3. \A q \in RunIds : Handling(q)' <=> q # r /\ Handling(q)
  BY <1>1, <1>2 DEF Handling
<1>4. \A i \in JobIds : i # runs[r].id => (i \in Held' <=> i \in Held)
  BY <1>1, <1>3 DEF Held, Referenced
<1>5. Held' \subseteq Held
  BY <1>1, <1>3 DEF Held, Referenced
<1> QED BY <1>4, <1>5 DEF Held

LEMMA UnlockedKeys ==
  ASSUME QueueTypeOK, NEW i \in JobIds, NEW st, NEW att, NEW due,
         jobs' = Unlocked(i, st, att, due)
  PROVE  /\ KeysKept
         /\ \A j \in JobIds \ {i} : PhaseKept(j)
         /\ jobs'[i].status = st
<1>1. \A j \in JobIds \ {i} : jobs'[j] = jobs[j]
  BY UnlockedTouchesOne
<1>2. jobs'[i].key = jobs[i].key /\ jobs'[i].status = st
  BY DEF Unlocked, QueueTypeOK, Row
<1> QED BY <1>1, <1>2 DEF KeysKept, PhaseKept, PhaseOf

(* A row that a handler has in hand is settled: done ...                    *)
LEMMA CompleteMaps ==
  ASSUME QueueTypeOK, NEW i \in JobIds, i \in Held, Complete(i),
         Held' = Held \/ Held' = Held \ {i}
  PROVE  Queue!Settle(i, "done")
<1>1. /\ KeysKept /\ \A j \in JobIds \ {i} : PhaseKept(j)
      /\ jobs'[i].status = "done"
  BY UnlockedKeys DEF Complete
<1>2. PhaseOf(i)' = "done"
  BY <1>1 DEF PhaseOf, Live
<1> QED BY <1>1, <1>2, MapsToSettle

(* ... live again, or only out of hand when the index refuses ...           *)
LEMMA RequeueMaps ==
  ASSUME QueueTypeOK, NEW i \in JobIds, NEW att, i \in Held, Requeue(i, att),
         Held' = Held \/ Held' = Held \ {i}
  PROVE  Queue!Settle(i, "live") \/ Queue!Drop
<1>1. CASE IndexAllows(i, jobs[i].key)
  <2>1. /\ KeysKept /\ \A j \in JobIds \ {i} : PhaseKept(j)
        /\ jobs'[i].status = "pending"
    BY <1>1, UnlockedKeys DEF Requeue
  <2>2. PhaseOf(i)' = "live"
    BY <2>1 DEF PhaseOf, Live
  <2> QED BY <1>1, <2>1, <2>2, MapsToSettle DEF IndexAllows
<1>2. CASE ~IndexAllows(i, jobs[i].key)
  <2>1. jobs' = jobs
    BY <1>2 DEF Requeue
  <2>2. KeysKept /\ \A j \in JobIds : PhaseKept(j)
    BY <2>1 DEF KeysKept, PhaseKept, PhaseOf
  <2> QED BY <2>2, MapsToDrop
<1> QED BY <1>1, <1>2

(* ... or dead.                                                             *)
LEMMA FailMaps ==
  ASSUME QueueTypeOK, NEW i \in JobIds, NEW att, i \in Held, Fail(i, att),
         Held' = Held \/ Held' = Held \ {i}
  PROVE  Queue!Next
<1>1. CASE att >= MaxAttempts
  <2>1. /\ KeysKept /\ \A j \in JobIds \ {i} : PhaseKept(j)
        /\ jobs'[i].status = "dead"
    BY <1>1, UnlockedKeys DEF Fail
  <2>2. PhaseOf(i)' = "dead"
    BY <2>1 DEF PhaseOf, Live
  <2> QED BY <2>1, <2>2, MapsToSettle DEF Queue!Next
<1>2. CASE ~(att >= MaxAttempts)
  BY <1>2, RequeueMaps DEF Fail, Queue!Next
<1> QED BY <1>1, <1>2

LEMMA EnqueueMaps ==
  ASSUME QueueTypeOK, NEW k \in Keys, NEW pr, Enqueue(k, pr, FreshIds), UNCHANGED runs
  PROVE  Queue!Next
<1>1. CASE LiveRows(k) # {}
  <2>1. jobs' = jobs
    BY <1>1 DEF Enqueue
  <2>2. KeysKept /\ \A j \in JobIds : PhaseKept(j)
    BY <2>1 DEF KeysKept, PhaseKept, PhaseOf
  <2> QED BY <2>2, UnchangedRunsHold, MapsToDrop DEF Queue!Next
<1>2. CASE LiveRows(k) = {}
  <2>1. PICK new \in FreshIds :
          jobs' = [jobs EXCEPT ![new] = [NoRow EXCEPT !.status = "pending", !.key = k,
                                                      !.priority = pr, !.due = TRUE]]
    BY <1>2 DEF Enqueue
  <2>2. new \in JobIds /\ jobs[new].status \in {"absent", "done"} /\ new \notin Held
    BY DEF FreshIds, Held
  <2>3. PhaseOf(new) \in {"free", "done"}
    BY <2>2, PhaseValues
  <2>4. /\ \A i \in JobIds \ {new} : jobs'[i] = jobs[i]
        /\ jobs'[new].status = "pending" /\ jobs'[new].key = k
    BY <2>1, <2>2 DEF QueueTypeOK, NoRow
  <2>5. PhaseOf(new)' = "live"
    BY <2>4 DEF PhaseOf, Live
  <2>6. Queue!Accept(new, k)
    BY <1>2, <2>2, <2>3, <2>4, <2>5, UnchangedRunsHold, MapsToAccept
  <2> QED BY <2>2, <2>6 DEF Queue!Next
<1> QED BY <1>1, <1>2

(* A step that moves no row between phases and starts no run is a Drop.     *)
LEMMA QuietMaps ==
  ASSUME NoRunStarts, KeysKept, \A i \in JobIds : PhaseKept(i)
  PROVE  Queue!Next
BY NoRunStartsHolds, MapsToDrop DEF Queue!Next

LEMMA UnchangedRowsMap ==
  ASSUME NoRunStarts, UNCHANGED jobs
  PROVE  Queue!Next
<1>1. KeysKept /\ \A i \in JobIds : PhaseKept(i)
  BY DEF KeysKept, PhaseKept, PhaseOf
<1> QED BY <1>1, QuietMaps

LEMMA QueueStep == TypeInv /\ [Next]_vars => [Queue!Next]_(Queue!vars)
<1> SUFFICES ASSUME TypeInv, [Next]_vars PROVE Queue!Next
  OBVIOUS
<1>a. QueueTypeOK /\ WorkerTypeOK /\ RunsAreClaims
  BY DEF TypeInv, QueueInv
<1>b. ASSUME NEW r \in RunIds, Handling(r)
      PROVE  runs[r].id \in JobIds /\ runs[r].id \in Held
  BY <1>a, <1>b DEF RunsAreClaims, Held, Referenced
<1>c. ASSUME NEW r \in RunIds, Handling(r), Fail(runs[r].id, runs[r].att),
             LeavesLane(r) \/ runs' = [runs EXCEPT ![r].stage = "zombie"]
      PROVE  Queue!Next
  BY <1>a, <1>b, <1>c, SettlingHolds, FailMaps
<1>d. ASSUME NEW t, ReclaimStale(t), UNCHANGED runs PROVE Queue!Next
  <2>1. \A i \in JobIds : /\ jobs'[i].key = jobs[i].key
                          /\ \/ jobs'[i].status = jobs[i].status
                             \/ jobs'[i].status = "pending" /\ jobs[i].status = "running"
    BY <1>a, <1>d DEF ReclaimStale, Stale, QueueTypeOK, Row
  <2>2. KeysKept /\ \A i \in JobIds : PhaseKept(i)
    BY <2>1 DEF KeysKept, PhaseKept, PhaseOf, Live
  <2> QED BY <1>d, <2>2, UnchangedRuns, QuietMaps
<1>1. CASE UNCHANGED vars
  BY <1>1, UnchangedRuns, UnchangedRowsMap DEF vars
<1>2. ASSUME NEW p \in Procs, NEW s \in Sources, NEW i \in JobIds, ClaimNext(p, s, i)
      PROVE  Queue!Next
  <2>1. PICK n \in RunIds : RunStarts(n, p, i)
    BY <1>2, ClaimStartsOne
  <2>2. Held' = Held \cup {i}
    <3>1. Held \subseteq Held'
      BY <2>1 DEF Held, Referenced, RunStarts, Handling
    <3>2. i \in Held'
      BY <2>1 DEF Held, Referenced, RunStarts
    <3>3. Held' \subseteq Held \cup {i}
      BY <2>1 DEF Held, Referenced, RunStarts, Handling
    <3> QED BY <3>1, <3>2, <3>3
  <2>3. PhaseOf(i) = "live" /\ PhaseKept(i)
    <3>1. jobs[i].status = "pending" /\ jobs'[i].status = "running"
      BY <1>2, <1>a DEF ClaimNext, Claim, Claimable, QueueTypeOK, Row
    <3> QED BY <3>1 DEF PhaseKept, PhaseOf, Live
  <2>4. \A j \in JobIds : j # i => jobs'[j] = jobs[j]
    BY <1>2, <1>a DEF ClaimNext, Claim, QueueTypeOK
  <2>5. jobs'[i].key = jobs[i].key
    BY <1>2, <1>a DEF ClaimNext, Claim, QueueTypeOK, Row
  <2>6. KeysKept /\ \A j \in JobIds : PhaseKept(j)
    BY <2>3, <2>4, <2>5 DEF KeysKept, PhaseKept, PhaseOf
  <2> QED BY <2>2, <2>3, <2>6, MapsToTake DEF Queue!Next
<1>3. ASSUME NEW p \in Procs, ProcessStep(p) PROVE Queue!Next
  <2>1. CASE Exit(p) \/ Crash(p)
    BY <2>1, GoneStartsNone, UnchangedRowsMap DEF Exit, Crash, Gone
  <2>2. CASE ReclaimAbandoned(p) \/ ReclaimStaleRows(p)
    BY <2>2, <1>d DEF ReclaimAbandoned, ReclaimStaleRows
  <2>3. ASSUME NEW k \in Keys, EnqueueDueJobs(p, k) PROVE Queue!Next
    BY <2>3, <1>a, EnqueueMaps DEF EnqueueDueJobs
  <2>4. CASE \/ AcquireLock(p) \/ Sigterm(p) \/ Release(p) \/ LockDropped(p)
             \/ \E s \in Sources : SeesCircuitOpen(p, s) \/ SeesCircuitClosed(p, s)
    BY <2>4, UnchangedRuns, UnchangedRowsMap
       DEF AcquireLock, Sigterm, Release, LockDropped, SeesCircuitOpen, SeesCircuitClosed
  <2> QED BY <1>2, <1>3, <2>1, <2>2, <2>3, <2>4 DEF ProcessStep
<1>4. ASSUME NEW r \in RunIds, RunStep(r) PROVE Queue!Next
  <2>1. CASE HandlerReturns(r)
    BY <2>1, <1>a, <1>b, SettlingHolds, CompleteMaps DEF HandlerReturns, Queue!Next
  <2>2. CASE HandlerThrows(r) \/ WatchdogFires(r)
    BY <2>2, <1>c DEF HandlerThrows, WatchdogFires
  <2>3. CASE HandlerDeferred(r)
    BY <2>3, <1>a, <1>b, SettlingHolds, RequeueMaps DEF HandlerDeferred, Defer, Queue!Next
  <2>4. CASE SettleLost(r) \/ ZombieEnds(r)
    BY <2>4, LeavingStartsNone, UnchangedRowsMap DEF SettleLost, ZombieEnds
  <2>5. ASSUME NEW k \in Keys, FanOut(r, k) PROVE Queue!Next
    BY <2>5, <1>a, EnqueueMaps DEF FanOut
  <2> QED BY <1>4, <2>1, <2>2, <2>3, <2>4, <2>5 DEF RunStep
<1>5. ASSUME NEW k \in Keys, TriggerJob(k) PROVE Queue!Next
  BY <1>5, <1>a, EnqueueMaps DEF TriggerJob
<1>6. CASE RetryDeadJobs
  <2> DEFINE Allowed(i) == /\ LiveRows(jobs[i].key) = {}
                           /\ \A j \in DeadRows \ {i} : jobs[j].key # jobs[i].key
             Revived(i) == [jobs[i] EXCEPT !.status = "pending", !.attempts = 0, !.due = TRUE]
  <2>1. runs' = runs
    BY <1>6 DEF RetryDeadJobs
  <2>2. CASE \A i \in DeadRows : Allowed(i)
    <3>1. jobs' = [i \in JobIds |-> IF i \in DeadRows THEN Revived(i) ELSE jobs[i]]
      BY <1>6, <2>2 DEF RetryDeadJobs, RetryDead
    <3>2. \A i \in JobIds : /\ jobs'[i].key = jobs[i].key
                            /\ i \in DeadRows => jobs'[i].status = "pending"
                            /\ i \notin DeadRows => jobs'[i].status = jobs[i].status
      BY <1>a, <3>1 DEF QueueTypeOK, Row
    <3>3. \A i \in JobIds : PhaseOf(i)' = IF i \in DeadRows THEN "live" ELSE PhaseOf(i)
      BY <3>2 DEF PhaseOf, Live
    <3>4. KeysKept
      BY <3>2 DEF KeysKept
    <3> QED BY <1>a, <2>1, <2>2, <3>3, <3>4, UnchangedRunsHold, MapsToRevive DEF Queue!Next
  <2>3. CASE ~(\A i \in DeadRows : Allowed(i))
    <3>1. jobs' = jobs
      BY <1>6, <2>3 DEF RetryDeadJobs, RetryDead
    <3> QED BY <2>1, <3>1, UnchangedRuns, UnchangedRowsMap
  <2> QED BY <2>2, <2>3
<1>7. ASSUME NEW i \in JobIds, RunAfterElapses(i) PROVE Queue!Next
  <2>1. \A j \in JobIds : jobs'[j].key = jobs[j].key /\ jobs'[j].status = jobs[j].status
    BY <1>7, <1>a DEF RunAfterElapses, RunAfterPasses, QueueTypeOK, Row
  <2>2. KeysKept /\ \A j \in JobIds : PhaseKept(j)
    BY <2>1 DEF KeysKept, PhaseKept, PhaseOf
  <2> QED BY <1>7, <2>2, UnchangedRuns, QuietMaps DEF RunAfterElapses
<1>8. CASE Tick
  <2>1. \A j \in JobIds : jobs'[j].key = jobs[j].key /\ jobs'[j].status = jobs[j].status
    BY <1>8, <1>a DEF Tick, AgeRunningRows, QueueTypeOK, Row
  <2>2. KeysKept /\ \A j \in JobIds : PhaseKept(j)
    BY <2>1 DEF KeysKept, PhaseKept, PhaseOf
  <2>3. NoRunStarts \/ \E p \in Procs, s \in Sources, i \in JobIds : ClaimNext(p, s, i)
    BY OnlyClaimsStartRuns
  <2> QED BY <1>2, <2>2, <2>3, QuietMaps
<1> QED BY <1>1, <1>3, <1>4, <1>5, <1>6, <1>7, <1>8 DEF Next

LEMMA QueueInitMaps == Init => Queue!Init
<1> SUFFICES ASSUME Init PROVE Queue!Init
  OBVIOUS
<1>1. \A i \in JobIds : PhaseOf(i) = "free" /\ jobs[i].key = NoKey /\ i \notin Held
  <2>1. \A i \in JobIds : jobs[i].status = "absent" /\ jobs[i].key = NoKey
    BY DEF Init, QueueInit, NoRow
  <2>2. \A r \in RunIds : ~Handling(r)
    BY DEF Init, Handling, Free
  <2>3. \A i \in JobIds : PhaseOf(i) = "free"
    BY <2>1 DEF PhaseOf, Live
  <2>4. \A i \in JobIds : i \notin Held
    BY <2>2 DEF Held, Referenced
  <2> QED BY <2>1, <2>3, <2>4
<1>2. /\ [i \in JobIds |-> PhaseOf(i)] = [i \in JobIds |-> "free"]
      /\ [i \in JobIds |-> jobs[i].key] = [i \in JobIds |-> NoKey]
      /\ Held = {}
  BY <1>1 DEF Held
<1> QED BY <1>2 DEF Queue!Init, PhaseOf, Held

(* The table and its workers, with every crash, dropped lock, watchdog and  *)
(* late settlement, implement the deduplicated at-least-once queue: a job   *)
(* is accepted only when no live one has its key, and only whoever took a   *)
(* live job ends it.                                                        *)
THEOREM WorkersImplementTheQueue == Spec => ImplementsQueue
<1>1. Init => Queue!Init
  BY QueueInitMaps
<1>2. TypeInv /\ [Next]_vars => [Queue!Next]_(Queue!vars)
  BY QueueStep
<1> QED BY <1>1, <1>2, TypeInvariance, PTL DEF Spec, ImplementsQueue, Queue!Spec
=============================================================================
