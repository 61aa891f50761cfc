---------------------------- MODULE MCSyncWorker ----------------------------
(* Small instances of SyncWorker.  The .cfg files give the sets; functions  *)
(* of them are given here.                                                  *)
EXTENDS SyncWorker, TLC

CONSTANTS probe, crawl, detail,    \* keys
          treasury, notify         \* sources

MCSourceOf == [k \in Keys |-> IF k = probe THEN notify ELSE treasury]
MCPriority == [k \in Keys |-> IF k = probe THEN 2 ELSE 1]
OneLane == [s \in Sources |-> 1]
TwoLanes == [s \in Sources |-> 2]

(* Two processes, brisk handlers, one of every disturbance.                 *)
SafetyBudget ==
  [e \in Events |-> IF e \in {"stop", "drop", "crash", "slow", "zombie"} THEN 1 ELSE 0]
(* One process, handlers that hang, and disturbances that end.              *)
LiveBudget ==
  [e \in Events |-> IF e \in {"crash", "defer", "lost", "retry", "pause", "slow"} THEN 1 ELSE 0]

Interchangeable == Permutations(Procs)
=============================================================================
