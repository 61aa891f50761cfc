------------------------------- MODULE Throttle -------------------------------
(***************************************************************************)
(* The throttle of one source (http/rate-limiter.ts): a token bucket that  *)
(* is handed out first come first served, then a semaphore on requests in  *)
(* flight.  Time is counted in the ticks it takes to earn one token.       *)
(*                                                                         *)
(* A released slot goes to the first waiter at once: release() resolves    *)
(* the waiter's promise and nothing else is scheduled ahead of it.         *)
(***************************************************************************)
EXTENDS Integers, Sequences, FiniteSets

CONSTANTS Requests,     (* whoever asks for a slot                          *)
          Limit,        (* the budget's concurrency                         *)
          Capacity,     (* the burst                                        *)
          LongestWait   (* the longest Retry-After                          *)

ASSUME ThrottleAssumption == {Limit, Capacity, LongestWait} \subseteq Nat \ {0}

VARIABLES tokens, penalty,  (* the bucket, and what is left of its penalty  *)
          line,             (* the bucket's queue                           *)
          holders, waiting  (* the semaphore: active, and its waiters       *)

throttle == <<tokens, penalty, line, holders, waiting>>

Members(seq) == {seq[i] : i \in DOMAIN seq}
Distinct(seq) == \A i, j \in DOMAIN seq : seq[i] = seq[j] => i = j

ThrottleInit == /\ tokens = Capacity /\ penalty = 0
                /\ line = <<>> /\ holders = {} /\ waiting = <<>>

(* acquire(): a request joins the bucket's queue, ...                       *)
JoinLine(r) == line' = Append(line, r)

(* Mutant: a penalty imposed while the head of the queue sleeps is missed.  *)
TakeTokenSleepingOnce ==
  /\ line # <<>> /\ tokens > 0
  /\ tokens' = tokens - 1 /\ line' = Tail(line)
  /\ IF Cardinality(holders) < Limit
     THEN holders' = holders \cup {Head(line)} /\ UNCHANGED waiting
     ELSE waiting' = Append(waiting, Head(line)) /\ UNCHANGED holders
  /\ UNCHANGED penalty

(* ... is given a token in its turn, and with it a slot or a place among    *)
(* those waiting for one.                                                   *)
TakeToken ==
  /\ line # <<>> /\ tokens > 0 /\ penalty = 0
  /\ tokens' = tokens - 1 /\ line' = Tail(line)
  /\ IF Cardinality(holders) < Limit
     THEN holders' = holders \cup {Head(line)} /\ UNCHANGED waiting
     ELSE waiting' = Append(waiting, Head(line)) /\ UNCHANGED holders
  /\ UNCHANGED penalty

(* The function acquire() returned.                                         *)
Release(r) ==
  IF waiting = <<>> THEN holders' = holders \ {r} /\ UNCHANGED waiting
  ELSE holders' = (holders \ {r}) \cup {Head(waiting)} /\ waiting' = Tail(waiting)

Penalise(wait) == penalty' = IF wait > penalty THEN wait ELSE penalty

(* Mutant: a refill may overfill the bucket.                                *)
RefillUncapped == /\ tokens' = tokens + 1
                  /\ penalty' = IF penalty > 0 THEN penalty - 1 ELSE 0

(* One tick of the bucket's clock.                                          *)
Refill == /\ tokens' = IF tokens < Capacity THEN tokens + 1 ELSE tokens
          /\ penalty' = IF penalty > 0 THEN penalty - 1 ELSE 0

ThrottleTypeOK == /\ tokens \in 0..Capacity /\ penalty \in 0..LongestWait
                  /\ line \in Seq(Requests) /\ waiting \in Seq(Requests)
                  /\ holders \subseteq Requests
=============================================================================
