------------------------------ MODULE JobQueue ------------------------------
(***************************************************************************)
(* The sync_jobs table and the statements of sync/queue.ts that read and   *)
(* write it.  Each action below is one SQL statement, hence atomic; what   *)
(* may happen between two of them is the business of the                   *)
(* modules that EXTEND this one.                                           *)
(*                                                                         *)
(* Abstracted: a pair (kind, dedupe_key) is one element of Keys, the       *)
(* payload is left out, run_after is the Boolean "due" (has it passed?),   *)
(* and locked_at is "age", the ticks since the row was claimed.  Among due *)
(* rows of one priority the code takes the oldest run_after; here any may  *)
(* be taken.                                                               *)
(***************************************************************************)
EXTENDS Integers, FiniteSets

CONSTANTS JobIds,       (* the pool of row ids                              *)
          Keys,         (* (kind, dedupe_key) pairs                         *)
          Sources,      (* upstream sources; every key belongs to one       *)
          SourceOf,     (* [Keys -> Sources]                                *)
          Priority,     (* [Keys -> Nat], lower runs sooner                 *)
          Procs,        (* server processes, also the worker ids            *)
          MaxAttempts,  (* max_attempts, 5 in the code                      *)
          StaleAge,     (* reclaimStale's 15 minutes, in ticks              *)
          NoKey, NoOne  (* null key, null locked_by                         *)

ASSUME QueueAssumption ==
  /\ SourceOf \in [Keys -> Sources]
  /\ Priority \in [Keys -> Nat]
  /\ MaxAttempts \in Nat \ {0}
  /\ StaleAge \in Nat \ {0}
  /\ NoKey \notin Keys
  /\ NoOne \notin Procs

VARIABLE jobs           (* [JobIds -> Row] *)

Live == {"pending", "running"}

Row == [status   : {"absent", "pending", "running", "done", "dead"},
        key      : Keys \cup {NoKey},
        priority : Nat,
        attempts : Nat,
        due      : BOOLEAN,
        lockedBy : Procs \cup {NoOne},
        age      : Nat]

NoRow == [status |-> "absent", key |-> NoKey, priority |-> 0, attempts |-> 0,
          due |-> FALSE, lockedBy |-> NoOne, age |-> 0]

(* Mutant: the index forgets 'running'.                                     *)
PendingRows(k) == {i \in JobIds : jobs[i].status = "pending" /\ jobs[i].key = k}

LiveRows(k) == {i \in JobIds : jobs[i].status \in Live /\ jobs[i].key = k}

(* The partial unique index sync_jobs_live_dedupe_idx: row i may not become *)
(* live while another row of its key is.                                    *)
IndexAllows(i, k) == LiveRows(k) \subseteq {i}

QueueInit == jobs = [i \in JobIds |-> NoRow]

-----------------------------------------------------------------------------
(* enqueue and enqueueMany: INSERT ... ON CONFLICT DO NOTHING.  The new id  *)
(* is one of fresh, the ids no statement can name any more.                 *)
Enqueue(k, priority, fresh) ==
  IF LiveRows(k) # {}
  THEN UNCHANGED jobs
  ELSE /\ fresh # {}
       /\ jobs' = [jobs EXCEPT ![CHOOSE i \in fresh : TRUE] =
                     [NoRow EXCEPT !.status = "pending", !.key = k,
                                   !.priority = priority, !.due = TRUE]]

Claimable(i, source) ==
  /\ jobs[i].status = "pending"
  /\ jobs[i].due
  /\ SourceOf[jobs[i].key] = source

(* claimNextForSource: nothing compares attempts with maxAttempts here.     *)
Claim(i, worker, source) ==
  /\ Claimable(i, source)
  /\ \A j \in JobIds : Claimable(j, source) => jobs[i].priority <= jobs[j].priority
  /\ jobs' = [jobs EXCEPT ![i] = [@ EXCEPT !.status = "running",
                                            !.attempts = jobs[i].attempts + 1,
                                            !.lockedBy = worker,
                                            !.age = 0]]

(* The settling statements name the row by id alone: they hit it whatever   *)
(* its status has become, and whoever holds it now.                         *)
Unlocked(i, status, attempts, due) ==
  [jobs EXCEPT ![i] = [@ EXCEPT !.status = status, !.attempts = attempts, !.due = due,
                                !.lockedBy = NoOne, !.age = 0]]

Complete(i) == jobs' = Unlocked(i, "done", jobs[i].attempts, FALSE)

(* An UPDATE back to 'pending' that the unique index refuses throws, and    *)
(* leaves the row as it was.                                                *)
Requeue(i, attempts) ==
  jobs' = IF IndexAllows(i, jobs[i].key)
          THEN Unlocked(i, "pending", attempts, FALSE)
          ELSE jobs

(* Mutant: attempts - 1 without GREATEST(..., 0).                           *)
RefundUnclamped(n) == n - 1

Refund(n) == IF n > 0 THEN n - 1 ELSE 0

Defer(i) == Requeue(i, Refund(jobs[i].attempts))

(* Mutant: a failure refunds its attempt as a deferral does.                *)
FailRefunding(i, claimedAttempts) ==
  IF claimedAttempts >= MaxAttempts
  THEN jobs' = Unlocked(i, "dead", jobs[i].attempts, FALSE)
  ELSE Requeue(i, Refund(jobs[i].attempts))

(* failJob decides by the attempts its claim returned, not the row's.       *)
Fail(i, claimedAttempts) ==
  IF claimedAttempts >= MaxAttempts
  THEN jobs' = Unlocked(i, "dead", jobs[i].attempts, FALSE)
  ELSE Requeue(i, jobs[i].attempts)

(* Mutant: every running row counts as stale.                               *)
StaleAtAnyAge(i, threshold) == jobs[i].status = "running" /\ threshold >= 0

(* reclaimStale(threshold); reclaimAbandoned is reclaimStale(0).  run_after *)
(* is left alone: it had passed when the row was claimed.                   *)
Stale(i, threshold) == jobs[i].status = "running" /\ jobs[i].age >= threshold

(* Mutant: a row out of attempts is buried instead of put back.             *)
ReclaimOrBury(threshold) ==
  jobs' = [i \in JobIds |->
             IF Stale(i, threshold)
             THEN [jobs[i] EXCEPT !.status = IF jobs[i].attempts >= MaxAttempts
                                             THEN "dead" ELSE "pending",
                                  !.due = TRUE, !.lockedBy = NoOne, !.age = 0]
             ELSE jobs[i]]

ReclaimStale(threshold) ==
  jobs' = [i \in JobIds |->
             IF Stale(i, threshold)
             THEN [jobs[i] EXCEPT !.status = "pending", !.due = TRUE,
                                  !.lockedBy = NoOne, !.age = 0]
             ELSE jobs[i]]

(* retryDeadJobs (app/sync/actions.ts): one UPDATE over every dead row, all *)
(* or nothing when the index refuses any of them.                           *)
DeadRows == {i \in JobIds : jobs[i].status = "dead"}

RetryDead ==
  LET Revived(i) == [jobs[i] EXCEPT !.status = "pending", !.attempts = 0, !.due = TRUE]
      Allowed(i) == /\ LiveRows(jobs[i].key) = {}
                    /\ \A j \in DeadRows \ {i} : jobs[j].key # jobs[i].key
  IN jobs' = IF \A i \in DeadRows : Allowed(i)
             THEN [i \in JobIds |-> IF i \in DeadRows THEN Revived(i) ELSE jobs[i]]
             ELSE jobs

RunAfterPasses(i) ==
  /\ jobs[i].status = "pending"
  /\ ~jobs[i].due
  /\ jobs' = [jobs EXCEPT ![i] = [@ EXCEPT !.due = TRUE]]

AgeRunningRows ==
  jobs' = [i \in JobIds |->
             IF jobs[i].status = "running" /\ jobs[i].age < StaleAge
             THEN [jobs[i] EXCEPT !.age = @ + 1]
             ELSE jobs[i]]

-----------------------------------------------------------------------------
QueueTypeOK == jobs \in [JobIds -> Row]

(* Two live rows never share a key, whatever order stale and fresh copies   *)
(* of a job settle in: a second copy of a live job can never be queued.     *)
OneLiveRowPerKey ==
  \A i, j \in JobIds :
    jobs[i].status \in Live /\ jobs[j].status \in Live /\ jobs[i].key = jobs[j].key
      => i = j
=============================================================================
