----------------------------- MODULE SyncWorker -----------------------------
(***************************************************************************)
(* The server processes that drain sync_jobs: the advisory lock            *)
(* (sync/lock.ts), boot and shutdown (sync/boot.ts), the worker loop and   *)
(* its lanes, runJob and its watchdog (sync/worker.ts), the enqueueing     *)
(* side (sync/scheduler.ts, app/sync/actions.ts), and what can happen to   *)
(* a process: SIGTERM, a crash, a dropped lock connection.                 *)
(*                                                                         *)
(* A run is one call of runJob.  It is "handling" from the claim until its *)
(* outcome is written to the row, and a "zombie" when the watchdog gave up *)
(* on a handler that is still executing: Promise.race does not cancel it.  *)
(* Time is counted in ticks; the 5-minute reclaim timer and the polling    *)
(* intervals are left out (the steps they trigger may happen at any time). *)
(***************************************************************************)
EXTENDS JobQueue

CONSTANTS RunIds,        (* identities for the runs in progress             *)
          Concurrency,   (* [Sources -> Nat], lanes per source              *)
          Scheduled,     (* the keys SCHEDULE enqueues by itself            *)
          WatchdogAge,   (* JOB_TIMEOUT_MS, 45 minutes, in ticks            *)
          Budget,        (* [Events -> Nat], how often each may happen      *)
          NoJob

Events == {"stop", "crash", "drop", "lost", "defer", "retry", "pause", "zombie", "slow"}

ASSUME WorkerAssumption ==
  /\ Concurrency \in [Sources -> Nat]
  /\ Scheduled \subseteq Keys
  /\ WatchdogAge \in Nat /\ StaleAge <= WatchdogAge   \* 15 and 45 minutes
  /\ Budget \in [Events -> Nat]
  /\ NoJob \notin JobIds

VARIABLES lock,    (* the session that holds the advisory lock, or NoOne    *)
          pc,      (* [Procs -> where the process is in its life]           *)
          paused,  (* [Procs -> sources its loop saw with an open circuit]  *)
          runs,    (* [RunIds -> Run]                                       *)
          budget   (* what is left of Budget                                *)

vars == <<jobs, lock, pc, paused, runs, budget>>

Run == [stage : {"free", "handling", "zombie"},
        proc  : Procs \cup {NoOne},
        id    : JobIds \cup {NoJob},
        key   : Keys \cup {NoKey},
        att   : Nat,
        age   : Nat]

Free == [stage |-> "free", proc |-> NoOne, id |-> NoJob, key |-> NoKey,
         att |-> 0, age |-> 0]

Handling(r) == runs[r].stage = "handling"
Executing(r) == runs[r].stage \in {"handling", "zombie"}
Referenced(i) == \E r \in RunIds : Handling(r) /\ runs[r].id = i

(* Which of the unused identities a new run or a new row gets is immaterial.*)
FreeRuns == {r \in RunIds : runs[r].stage = "free"}

(* Ids that are serial numbers in the code come from a finite pool here: a  *)
(* done row that no run can name any more never changes again.              *)
FreshIds == {i \in JobIds : jobs[i].status \in {"absent", "done"} /\ ~Referenced(i)}

Lane(p, s) == {r \in RunIds : Handling(r) /\ runs[r].proc = p /\ SourceOf[runs[r].key] = s}

Serving(p) == pc[p] \in {"up", "draining"}

Spend(e) == budget[e] > 0 /\ budget' = [budget EXCEPT ![e] = @ - 1]

Init == /\ QueueInit
        /\ lock = NoOne
        /\ pc = [p \in Procs |-> "down"]
        /\ paused = [p \in Procs |-> {}]
        /\ runs = [r \in RunIds |-> Free]
        /\ budget = Budget

-----------------------------------------------------------------------------
(* Mutants: the answer of pg_try_advisory_lock is ignored; boot starts the  *)
(* worker without reclaimAbandoned.                                         *)
AcquireLockUnchecked(p) ==
  /\ pc[p] = "down"
  /\ lock' = IF lock = NoOne THEN p ELSE lock
  /\ pc' = [pc EXCEPT ![p] = "locked"]
  /\ UNCHANGED <<jobs, paused, runs, budget>>

BootWithoutReclaim(p) ==
  /\ pc[p] = "locked"
  /\ pc' = [pc EXCEPT ![p] = "up"]
  /\ UNCHANGED <<jobs, lock, paused, runs, budget>>

(* bootSyncWorker.  A process that does not get the lock serves pages only. *)
AcquireLock(p) ==
  /\ pc[p] = "down" /\ lock = NoOne
  /\ lock' = p
  /\ pc' = [pc EXCEPT ![p] = "locked"]
  /\ UNCHANGED <<jobs, paused, runs, budget>>

ReclaimAbandoned(p) ==
  /\ pc[p] = "locked"
  /\ ReclaimStale(0)
  /\ pc' = [pc EXCEPT ![p] = "up"]
  /\ UNCHANGED <<lock, paused, runs, budget>>

(* SIGTERM: running = false.  The iteration under way may still claim.      *)
Sigterm(p) ==
  /\ pc[p] = "up"
  /\ Spend("stop")
  /\ pc' = [pc EXCEPT ![p] = "draining"]
  /\ UNCHANGED <<jobs, lock, paused, runs>>

(* stop() resolves and the lock is released.  The loop's last statement is  *)
(* allSettled over the lanes, which are Sets and not promises: it waits for *)
(* nothing.                                                                 *)
Release(p) ==
  /\ pc[p] = "draining"
  /\ pc' = [pc EXCEPT ![p] = "released"]
  /\ lock' = IF lock = p THEN NoOne ELSE lock
  /\ UNCHANGED <<jobs, paused, runs, budget>>

(* A process ends: its handlers end with it and its session's lock is free. *)
Gone(p) ==
  /\ pc' = [pc EXCEPT ![p] = "down"]
  /\ lock' = IF lock = p THEN NoOne ELSE lock
  /\ paused' = [paused EXCEPT ![p] = {}]
  /\ runs' = [r \in RunIds |-> IF runs[r].proc = p THEN Free ELSE runs[r]]
  /\ UNCHANGED jobs

Exit(p) == pc[p] = "released" /\ Gone(p) /\ UNCHANGED budget

Crash(p) == pc[p] # "down" /\ Spend("crash") /\ Gone(p)

(* The dedicated connection drops: Postgres frees the lock, the error       *)
(* handler forgets the holder, and the worker goes on.                      *)
LockDropped(p) ==
  /\ lock = p
  /\ Spend("drop")
  /\ lock' = NoOne
  /\ UNCHANGED <<jobs, pc, paused, runs>>

-----------------------------------------------------------------------------
(* Enqueueing: the loop's enqueueDueJobs and boot's enqueueAllProbes, the   *)
(* page's triggerJob, and handlers that fan out.                            *)
EnqueueDueJobs(p, k) ==
  /\ Serving(p) /\ k \in Scheduled
  /\ Enqueue(k, Priority[k], FreshIds)
  /\ UNCHANGED <<lock, pc, paused, runs, budget>>

TriggerJob(k) ==
  /\ Enqueue(k, 1, FreshIds)
  /\ UNCHANGED <<lock, pc, paused, runs, budget>>

FanOut(r, k) ==
  /\ Executing(r) /\ k \notin Scheduled
  /\ Enqueue(k, Priority[k], FreshIds)
  /\ UNCHANGED <<lock, pc, paused, runs, budget>>

RetryDeadJobs ==
  /\ Spend("retry")
  /\ RetryDead
  /\ UNCHANGED <<lock, pc, paused, runs>>

-----------------------------------------------------------------------------
(* The worker loop.                                                         *)
(* Mutant: the worker spares the rows it locked itself.                     *)
ReclaimStaleRowsOfOthers(p) ==
  /\ Serving(p)
  /\ \A i \in JobIds : Stale(i, StaleAge) => jobs[i].lockedBy # p
  /\ ReclaimStale(StaleAge)
  /\ UNCHANGED <<lock, pc, paused, runs, budget>>

ReclaimStaleRows(p) ==
  /\ Serving(p)
  /\ ReclaimStale(StaleAge)
  /\ UNCHANGED <<lock, pc, paused, runs, budget>>

(* openCircuitSources: what the loop last read of source_health.            *)
SeesCircuitOpen(p, s) ==
  /\ Serving(p) /\ s \notin paused[p]
  /\ Spend("pause")
  /\ paused' = [paused EXCEPT ![p] = @ \cup {s}]
  /\ UNCHANGED <<jobs, lock, pc, runs>>

SeesCircuitClosed(p, s) ==
  /\ Serving(p) /\ s \in paused[p]
  /\ paused' = [paused EXCEPT ![p] = @ \ {s}]
  /\ UNCHANGED <<jobs, lock, pc, runs, budget>>

(* Mutant: one job too many.                                                *)
LaneAlmostHasRoom(p, s) == Cardinality(Lane(p, s)) <= Concurrency[s]

LaneHasRoom(p, s) == Cardinality(Lane(p, s)) < Concurrency[s]

(* One claim of the inner loop, and the start of runJob.                    *)
ClaimNext(p, s, i) ==
  /\ Serving(p)
  /\ s \notin paused[p]
  /\ LaneHasRoom(p, s)
  /\ FreeRuns # {}
  /\ Claim(i, p, s)
  /\ runs' = [runs EXCEPT ![CHOOSE r \in FreeRuns : TRUE] =
                [stage |-> "handling", proc |-> p, id |-> i, key |-> jobs[i].key,
                 att |-> jobs[i].attempts + 1, age |-> 0]]
  /\ UNCHANGED <<lock, pc, paused, budget>>

-----------------------------------------------------------------------------
(* runJob's outcomes.                                                       *)
LeavesLane(r) == runs' = [runs EXCEPT ![r] = Free]

HandlerReturns(r) ==
  /\ Handling(r)
  /\ Complete(runs[r].id)
  /\ LeavesLane(r)
  /\ UNCHANGED <<lock, pc, paused, budget>>

HandlerThrows(r) ==
  /\ Handling(r)
  /\ Fail(runs[r].id, runs[r].att)
  /\ LeavesLane(r)
  /\ UNCHANGED <<lock, pc, paused, budget>>

(* RateLimitError, CircuitOpenError or a Postgres deadlock.                 *)
HandlerDeferred(r) ==
  /\ Handling(r)
  /\ Spend("defer")
  /\ Defer(runs[r].id)
  /\ LeavesLane(r)
  /\ UNCHANGED <<lock, pc, paused>>

(* Mutant: the job fails but the lane goes on waiting for the handler.      *)
WatchdogKeepsLane(r) ==
  /\ Handling(r) /\ runs[r].age >= WatchdogAge
  /\ Fail(runs[r].id, runs[r].att)
  /\ UNCHANGED <<lock, pc, paused, runs, budget>>

(* The job fails; the handler is wedged for good, or lives on as a zombie.  *)
WatchdogFires(r) ==
  /\ Handling(r) /\ runs[r].age >= WatchdogAge
  /\ Fail(runs[r].id, runs[r].att)
  /\ \/ LeavesLane(r) /\ UNCHANGED budget
     \/ Spend("zombie") /\ runs' = [runs EXCEPT ![r].stage = "zombie"]
  /\ UNCHANGED <<lock, pc, paused>>

(* The statement that settles the job fails itself: the row stays as it is. *)
SettleLost(r) ==
  /\ Handling(r)
  /\ Spend("lost")
  /\ LeavesLane(r)
  /\ UNCHANGED <<jobs, lock, pc, paused>>

ZombieEnds(r) ==
  /\ runs[r].stage = "zombie"
  /\ LeavesLane(r)
  /\ UNCHANGED <<jobs, lock, pc, paused, budget>>

-----------------------------------------------------------------------------
RunAfterElapses(i) ==
  /\ RunAfterPasses(i)
  /\ UNCHANGED <<lock, pc, paused, runs, budget>>

(* Some handler reaches the age at which its row counts as stale.  The      *)
(* first time this happens uses up "slow", which allows it ever after.      *)
Overstays == \E r \in RunIds : Handling(r) /\ runs[r].age + 1 >= StaleAge

Tick ==
  /\ IF Overstays
     THEN Budget["slow"] > 0 /\ budget' = [budget EXCEPT !["slow"] = 0]
     ELSE UNCHANGED budget
  /\ AgeRunningRows
  /\ runs' = [r \in RunIds |-> IF Handling(r) /\ runs[r].age < WatchdogAge
                               THEN [runs[r] EXCEPT !.age = @ + 1]
                               ELSE runs[r]]
  /\ UNCHANGED <<lock, pc, paused>>

ProcessStep(p) ==
  \/ AcquireLock(p) \/ ReclaimAbandoned(p)
  \/ Sigterm(p) \/ Release(p) \/ Exit(p)
  \/ Crash(p) \/ LockDropped(p)
  \/ ReclaimStaleRows(p)
  \/ \E k \in Keys : EnqueueDueJobs(p, k)
  \/ \E s \in Sources :
       \/ SeesCircuitOpen(p, s) \/ SeesCircuitClosed(p, s)
       \/ \E i \in JobIds : ClaimNext(p, s, i)

RunStep(r) ==
  \/ HandlerReturns(r) \/ HandlerThrows(r) \/ HandlerDeferred(r)
  \/ WatchdogFires(r) \/ SettleLost(r) \/ ZombieEnds(r)
  \/ \E k \in Keys : FanOut(r, k)

Next ==
  \/ \E p \in Procs : ProcessStep(p)
  \/ \E r \in RunIds : RunStep(r)
  \/ \E k \in Keys : TriggerJob(k)
  \/ RetryDeadJobs
  \/ \E i \in JobIds : RunAfterElapses(i)
  \/ Tick

Spec == Init /\ [][Next]_vars

(* What the runtime sees to: a process that is down is restarted and boots, *)
(* its loop keeps turning, timers fire, circuits close by the clock.  Rows  *)
(* of one priority are claimed oldest first, so none waits behind equals    *)
(* for ever.  Nothing makes a handler end: that is what the watchdog is for.*)
Fairness ==
  /\ \A p \in Procs :
       /\ WF_vars(AcquireLock(p)) /\ WF_vars(ReclaimAbandoned(p))
       /\ WF_vars(Release(p)) /\ WF_vars(Exit(p))
       /\ WF_vars(ReclaimStaleRows(p))
       /\ \A s \in Sources :
            /\ WF_vars(SeesCircuitClosed(p, s))
            /\ \A i \in JobIds : SF_vars(ClaimNext(p, s, i))
  /\ \A r \in RunIds : WF_vars(WatchdogFires(r))
  /\ \A i \in JobIds : WF_vars(RunAfterElapses(i))
  /\ WF_vars(Tick)

FairSpec == Spec /\ Fairness

-----------------------------------------------------------------------------
(* Every variable holds a value of its kind; the budget only runs down.     *)
TypeOK ==
  /\ QueueTypeOK
  /\ lock \in Procs \cup {NoOne}
  /\ pc \in [Procs -> {"down", "locked", "up", "draining", "released"}]
  /\ paused \in [Procs -> SUBSET Sources]
  /\ runs \in [RunIds -> Run]
  /\ budget \in [Events -> Nat]

(* No process ever has more handlers of a source in its lanes than the      *)
(* source's concurrency, however runs, reclaims and retries interleave.     *)
LaneBound ==
  \A p \in Procs, s \in Sources : Cardinality(Lane(p, s)) <= Concurrency[s]

(* reclaimAbandoned's promise: once a process that has held the lock all    *)
(* along is serving, no row is left running by a process that is gone, so   *)
(* no orphan keeps its key from being enqueued.  A settling statement that  *)
(* failed is the one other way to leave such a row.                         *)
NoOrphanWhileServing ==
  budget["drop"] = Budget["drop"] /\ budget["lost"] = Budget["lost"] =>
    \A p \in Procs : lock = p /\ Serving(p) =>
      \A i \in JobIds : jobs[i].status = "running" => Referenced(i)

(* While nobody was told to stop, no lock connection dropped, and no        *)
(* handler reached the stale threshold, the worker is exclusive ...         *)
Undisturbed ==
  /\ budget["stop"] = Budget["stop"]
  /\ budget["drop"] = Budget["drop"]
  /\ budget["slow"] = Budget["slow"]

(* ... every handler still holds the row it claimed: nothing took the row   *)
(* away, so its outcome lands on its own claim and on nobody else's.        *)
HandlerHoldsItsRow ==
  Undisturbed =>
    \A r \in RunIds : Handling(r) =>
      LET row == jobs[runs[r].id]
      IN /\ row.status = "running"
         /\ row.lockedBy = runs[r].proc
         /\ row.attempts = runs[r].att
         /\ row.key = runs[r].key

(* ... and no two handlers execute for one key at a time ("cannot overlap   *)
(* with itself", sync/worker.ts), crashes and restarts included.            *)
NoOverlap ==
  \A r1, r2 \in RunIds :
    Executing(r1) /\ Executing(r2) /\ runs[r1].key = runs[r2].key => r1 = r2

NoOverlapUndisturbed == Undisturbed => NoOverlap

(* ... and no two processes have jobs in hand at a time: a second worker,    *)
(* say of an old and a new deployment, would double the request rate.       *)
OneWorkerAtATime ==
  Undisturbed =>
    \A r1, r2 \in RunIds : Handling(r1) /\ Handling(r2) => runs[r1].proc = runs[r2].proc

Queue == INSTANCE DedupedQueue
           WITH Jobs <- JobIds,
                phase <- [i \in JobIds |->
                            CASE jobs[i].status = "absent" -> "free"
                              [] jobs[i].status \in Live -> "live"
                              [] OTHER -> jobs[i].status],
                key <- [i \in JobIds |-> jobs[i].key],
                inHand <- {i \in JobIds : Referenced(i)}

(* The table and its workers implement the deduplicated at-least-once queue.*)
ImplementsQueue == Queue!Spec

(* "Let in-flight jobs finish": when stop() has resolved and the lock is    *)
(* released, none of the worker's handlers is still running.                *)
DrainedBeforeRelease ==
  \A p \in Procs : pc[p] = "released" =>
    ~\E r \in RunIds : Handling(r) /\ runs[r].proc = p

(* A row left running by a process that is gone does not block its key for  *)
(* ever: it is put back, by the next boot or by the stale reclaim.          *)
Orphan(i) == jobs[i].status = "running" /\ ~Referenced(i)
OrphanRecovered == \A i \in JobIds : Orphan(i) ~> ~Orphan(i)

(* A wedged handler holds its lane only until the watchdog: every run ends  *)
(* or is declared a zombie, so no source stalls for good.                   *)
LaneFreed == \A r \in RunIds : Handling(r) ~> ~Handling(r)

(* Every live job is at last done, or dead for an operator to see, though   *)
(* handlers may hang, throw, be rate limited or die with their process.     *)
JobSettles ==
  \A i \in JobIds : jobs[i].status \in Live ~> jobs[i].status \in {"done", "dead"}
=============================================================================
