---------------------------- MODULE DedupedQueue ----------------------------
(***************************************************************************)
(* What the job queue promises its callers, without statements, locks,     *)
(* clocks or worker processes.                                             *)
(*                                                                         *)
(*   - At most one job per key is live, and asking again for a live key    *)
(*     changes nothing.                                                    *)
(*   - At least once: a job stops being live only by the hand of somebody  *)
(*     who took it while it was live, so a queued job is never dropped     *)
(*     without having been handed to a handler.                            *)
(*   - A crash only takes jobs out of hands; it never takes one out of the *)
(*     queue.                                                              *)
(***************************************************************************)
CONSTANTS Jobs, Keys, NoKey

VARIABLES phase,   (* [Jobs -> {"free", "live", "done", "dead"}]            *)
          key,     (* [Jobs -> Keys or NoKey]                               *)
          inHand   (* the jobs some handler is working on                   *)

vars == <<phase, key, inHand>>

LiveJobs(k) == {j \in Jobs : phase[j] = "live" /\ key[j] = k}

Init == /\ phase = [j \in Jobs |-> "free"]
        /\ key = [j \in Jobs |-> NoKey]
        /\ inHand = {}

(* A job is accepted only when no live job has its key.                     *)
Accept(j, k) == /\ phase[j] \in {"free", "done"}
                /\ j \notin inHand
                /\ LiveJobs(k) = {}
                /\ phase' = [phase EXCEPT ![j] = "live"]
                /\ key' = [key EXCEPT ![j] = k]
                /\ UNCHANGED inHand

Take(j) == /\ phase[j] = "live"
           /\ inHand' = inHand \cup {j}
           /\ UNCHANGED <<phase, key>>

(* Whoever has the job in hand settles it: done, dead, or live again when   *)
(* that leaves no two live jobs of one key.  Another copy may stay in hand. *)
Settle(j, result) ==
  /\ j \in inHand
  /\ result = "live" => LiveJobs(key[j]) \subseteq {j}
  /\ phase' = [phase EXCEPT ![j] = result]
  /\ inHand' \in {inHand, inHand \ {j}}
  /\ UNCHANGED key

(* Handlers vanish; the jobs they held stay as they were.                   *)
Drop == /\ inHand' \in SUBSET inHand
        /\ UNCHANGED <<phase, key>>

(* Every dead job at once, or none.                                         *)
Revive == LET dead == {j \in Jobs : phase[j] = "dead"}
          IN /\ \A j \in dead : LiveJobs(key[j]) = {}
             /\ \A i, j \in dead : key[i] = key[j] => i = j
             /\ phase' = [j \in Jobs |-> IF j \in dead THEN "live" ELSE phase[j]]
             /\ UNCHANGED <<key, inHand>>

Next == \/ \E j \in Jobs, k \in Keys : Accept(j, k)
        \/ \E j \in Jobs : Take(j)
        \/ \E j \in Jobs, result \in {"live", "done", "dead"} : Settle(j, result)
        \/ Drop
        \/ Revive

Spec == Init /\ [][Next]_vars
=============================================================================
