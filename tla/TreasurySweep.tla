----------------------------- MODULE TreasurySweep -----------------------------
(***************************************************************************)
(* Finding out what players hold (sync/handlers/treasury.ts, sync/pool.ts, *)
(* sync/balances.ts): sweeps queue account and balance jobs for the        *)
(* stakeholders of regions, and the prune sweep prices a batch of dormant  *)
(* players in a pool of its own.  The treasury source has two lanes, so a  *)
(* player may be asked about by two of these at once, and each stores what *)
(* it was answered some time after the answer was given.                   *)
(*                                                                         *)
(* An account is its player; a balance is whether one is stored, how old   *)
(* it is and whether it is above the floor of the prune list                *)
(* (insights/prune.ts), which by default is zero; a miss is how old it is. *)
(* "stale" is past the age at which a sweep asks again.                    *)
(***************************************************************************)
EXTENDS Integers, FiniteSets, FiniteSetsExt

CONSTANTS Players,
          FirstStakeholders, FirstDormant, FirstHolders,
          ExcludedFromPrune,
          PruneSweepBatch, PruneSweepConcurrency, TreasuryLanes,
          AccountJobsPerPass,
          TreasuryFaults   (* requests that fail, jobs cut, money that moves *)

ASSUME TreasuryAssumption ==
  /\ IsFiniteSet(Players)
  /\ FirstStakeholders \subseteq Players /\ FirstDormant \subseteq Players
  /\ FirstHolders \subseteq Players /\ ExcludedFromPrune \subseteq Players
  /\ {PruneSweepBatch, PruneSweepConcurrency, TreasuryLanes, AccountJobsPerPass} \subseteq Nat \ {0}
  /\ TreasuryFaults \in Nat

VARIABLES holders,      (* who has an account upstream                      *)
          funded,       (* and holds more than the floor in it              *)
          stakeholders, (* v_region_stakeholders                            *)
          dormant,      (* last_seen_at before PRUNE_INACTIVITY_DAYS ago    *)
          accounts,     (* treasury_accounts                                *)
          balance,      (* treasury_balances: [Players -> Age]              *)
          credit,       (* of these, the balances above the floor           *)
          miss,         (* treasury_account_misses: [Players -> Age]        *)
          resolveJobs, balanceJobs,   (* the live jobs                      *)
          resolving,    (* running resolve jobs: [Players -> Phase]         *)
          sweep,        (* the prune sweep that runs                        *)
          pricing,      (* its pool: [Players -> Phase]                     *)
          refresh,      (* what the dormant balance sweep has left, or Off  *)
          treasuryFaults,
          stranded,     (* history: who lost the balance that was to follow *)
                        (* the account                                      *)
          drifted,      (* history: whose money or account upstream changed *)
                        (* since the answer that is stored was given        *)
          answer,       (* balances in hand: [Asker -> [Players -> Answer]] *)
          outdated      (* history: of these, the ones given before the     *)
                        (* money moved                                      *)

treasuryWorld  == <<holders, funded, stakeholders, dormant>>
answers        == <<answer, outdated>>
balanceRows    == <<balance, credit, drifted>>
treasuryTables == <<accounts, balanceRows, miss>>
treasuryJobs   == <<resolveJobs, balanceJobs, resolving>>
pool           == <<sweep, pricing>>
treasuryVars   == <<treasuryWorld, treasuryTables, treasuryJobs, pool, refresh,
                    treasuryFaults, stranded, answers>>

Age == {"none", "fresh", "stale"}

(* Where an account is: not asked for, answered with a 404, found, stored.  *)
Phase == {"no", "missing", "found", "stored"}

(* Who asks for balances: the balance jobs, the pool of the prune sweep,    *)
(* and the sweep of dormant balances.                                       *)
Asker == {"job", "pool", "refresh"}
Answer == {"none", "empty", "funded"}

NoSweep == [on |-> FALSE, left |-> {}, aborted |-> FALSE]
Off == [on |-> FALSE, left |-> {}]

TreasuryInit ==
  /\ holders = FirstHolders /\ funded = FirstHolders
  /\ stakeholders = FirstStakeholders /\ dormant = FirstDormant
  /\ accounts = {} /\ balance = [p \in Players |-> "none"] /\ credit = {} /\ drifted = {}
  /\ miss = [p \in Players |-> "none"]
  /\ resolveJobs = {} /\ balanceJobs = {}
  /\ resolving = [p \in Players |-> "no"]
  /\ sweep = NoSweep /\ pricing = [p \in Players |-> "no"] /\ refresh = Off
  /\ treasuryFaults = TreasuryFaults /\ stranded = {}
  /\ answer = [a \in Asker |-> [p \in Players |-> "none"]] /\ outdated = {}

-----------------------------------------------------------------------------
(* The world, and time.                                                     *)
SellUp(p) == /\ p \in stakeholders /\ stakeholders' = stakeholders \ {p}
             /\ UNCHANGED <<holders, funded, dormant, treasuryTables, treasuryJobs, pool, refresh,
                            treasuryFaults, stranded, answers>>

GoDormant(p) == /\ p \notin dormant /\ dormant' = dormant \cup {p}
                /\ UNCHANGED <<holders, funded, stakeholders, treasuryTables, treasuryJobs, pool,
                               refresh, treasuryFaults, stranded, answers>>

(* What is stored, and what is on its way to be, is no longer so.           *)
Drift(p) == /\ drifted' = drifted \cup {p}
            /\ outdated' = outdated \cup {<<a, p>> : a \in {b \in Asker : answer[b][p] # "none"}}
            /\ UNCHANGED answer

OpenAccount(p) ==
  /\ p \notin holders /\ holders' = holders \cup {p}
  /\ funded' = funded \cup {p} /\ Drift(p)
  /\ UNCHANGED <<stakeholders, dormant, accounts, balance, credit, miss, treasuryJobs, pool,
                 refresh, treasuryFaults, stranded>>

(* A transfer, or the chest shops of someone who is not there.              *)
MoveMoney(p) ==
  /\ treasuryFaults > 0 /\ treasuryFaults' = treasuryFaults - 1
  /\ p \in holders
  /\ funded' = IF p \in funded THEN funded \ {p} ELSE funded \cup {p}
  /\ Drift(p)
  /\ UNCHANGED <<holders, stakeholders, dormant, accounts, balance, credit, miss, treasuryJobs,
                 pool, refresh, stranded>>

GrowOld(p) ==
  /\ \/ balance[p] = "fresh" /\ balance' = [balance EXCEPT ![p] = "stale"] /\ UNCHANGED miss
     \/ miss[p] = "fresh" /\ miss' = [miss EXCEPT ![p] = "stale"] /\ UNCHANGED balance
  /\ UNCHANGED <<treasuryWorld, accounts, credit, drifted, treasuryJobs, pool, refresh,
                 treasuryFaults, stranded, answers>>

-----------------------------------------------------------------------------
(* The lanes: every running job holds one.                                  *)
Resolving == {p \in Players : resolving[p] # "no"}
InHand(a) == {p \in Players : answer[a][p] # "none"}
Running == Cardinality(Resolving) + Cardinality(InHand("job"))
           + (IF sweep.on THEN 1 ELSE 0) + (IF refresh.on THEN 1 ELSE 0)
(* Mutant: the lanes are counted after a job was started.                   *)
FreeLaneOneMore == Running <= TreasuryLanes

FreeLane == Running < TreasuryLanes

Unresolved(p) == p \notin accounts /\ miss[p] # "fresh"

UpTo(n, S) == {T \in SUBSET S : Cardinality(T) = Min({n, Cardinality(S)})}

(* handleTreasuryResolveSweep.                                              *)
ResolveSweep ==
  /\ FreeLane
  /\ \E T \in UpTo(AccountJobsPerPass, {p \in stakeholders : Unresolved(p)}) :
       resolveJobs' = resolveJobs \cup T
  /\ resolveJobs' # resolveJobs
  /\ UNCHANGED <<treasuryWorld, treasuryTables, balanceJobs, resolving, pool, refresh,
                 treasuryFaults, stranded, answers>>

(* accountByPlayer, and recordAccountMiss.                                  *)
Looked(p) == IF p \in holders THEN "found" ELSE "missing"

RecordMiss(p) == miss' = [miss EXCEPT ![p] = "fresh"]

(* handleTreasuryAccountResolve asks, ...                                   *)
Ask(p) ==
  /\ FreeLane /\ p \in resolveJobs /\ resolving[p] = "no"
  /\ resolving' = [resolving EXCEPT ![p] = Looked(p)]
  /\ UNCHANGED <<treasuryWorld, treasuryTables, resolveJobs, balanceJobs, pool, refresh,
                 treasuryFaults, stranded, answers>>

(* ... records a 404 and ends, ...                                          *)
RecordResolveMiss(p) ==
  /\ resolving[p] = "missing"
  /\ RecordMiss(p)
  /\ resolveJobs' = resolveJobs \ {p} /\ resolving' = [resolving EXCEPT ![p] = "no"]
  /\ UNCHANGED <<treasuryWorld, accounts, balanceRows, balanceJobs, pool, refresh,
                 treasuryFaults, stranded, answers>>

(* ... or stores the account ...                                            *)
StoreResolved(p) ==
  /\ resolving[p] = "found"
  /\ accounts' = accounts \cup {p}
  /\ resolving' = [resolving EXCEPT ![p] = "stored"]
  /\ UNCHANGED <<treasuryWorld, balanceRows, miss, resolveJobs, balanceJobs, pool, refresh,
                 treasuryFaults, stranded, answers>>

(* ... and queues its balance.                                              *)
QueueBalance(p) ==
  /\ resolving[p] = "stored"
  /\ balanceJobs' = balanceJobs \cup {p}
  /\ resolveJobs' = resolveJobs \ {p}
  /\ resolving' = [resolving EXCEPT ![p] = "no"]
  /\ UNCHANGED <<treasuryWorld, treasuryTables, pool, refresh, treasuryFaults, stranded, answers>>

(* treasury.balance: the upstream answers an asker, ...                     *)
AskBalance(a, p) ==
  /\ answer[a][p] = "none"
  /\ answer' = [answer EXCEPT ![a][p] = IF p \in funded THEN "funded" ELSE "empty"]
  /\ UNCHANGED outdated

(* ... which writes what it was told, whatever happened in between          *)
(* (writeBalance).                                                          *)
WriteBalance(a, p) ==
  /\ answer[a][p] # "none"
  /\ balance' = [balance EXCEPT ![p] = "fresh"]
  /\ credit' = IF answer[a][p] = "funded" THEN credit \cup {p} ELSE credit \ {p}
  /\ drifted' = IF <<a, p>> \in outdated THEN drifted \cup {p} ELSE drifted \ {p}
  /\ answer' = [answer EXCEPT ![a][p] = "none"] /\ outdated' = outdated \ {<<a, p>>}

(* handleTreasuryBalanceSweep, of stakeholders only, and its jobs.          *)
BalanceSweep ==
  /\ FreeLane
  /\ \E T \in UpTo(AccountJobsPerPass,
                   {p \in stakeholders : p \in accounts /\ balance[p] # "fresh"}) :
       balanceJobs' = balanceJobs \cup T
  /\ balanceJobs' # balanceJobs
  /\ UNCHANGED <<treasuryWorld, treasuryTables, resolveJobs, resolving, pool, refresh,
                 treasuryFaults, stranded, answers>>

(* handleTreasuryBalance.                                                   *)
ReadBalance(p) ==
  /\ FreeLane /\ p \in balanceJobs
  /\ AskBalance("job", p)
  /\ UNCHANGED <<treasuryWorld, treasuryTables, treasuryJobs, pool, refresh, treasuryFaults,
                 stranded>>

StoreRead(p) ==
  /\ WriteBalance("job", p) /\ balanceJobs' = balanceJobs \ {p}
  /\ UNCHANGED <<treasuryWorld, accounts, miss, resolveJobs, resolving, pool, refresh,
                 treasuryFaults, stranded>>

-----------------------------------------------------------------------------
(* handleTreasuryPruneSweep: the batch, ...                                 *)
PruneBatch == {p \in dormant : Unresolved(p)}

StartPruneSweep ==
  /\ FreeLane /\ ~sweep.on /\ PruneBatch # {}
  /\ \E T \in UpTo(PruneSweepBatch, PruneBatch) :
       sweep' = [on |-> TRUE, left |-> T, aborted |-> FALSE]
  /\ UNCHANGED <<treasuryWorld, treasuryTables, treasuryJobs, pricing, refresh, treasuryFaults,
                 stranded, answers>>

Busy == {p \in Players : pricing[p] # "no"}

(* ... runPooled, whose workers pull the next player until one has aborted, *)
Pull(p) ==
  /\ sweep.on /\ ~sweep.aborted /\ p \in sweep.left
  /\ Cardinality(Busy) < PruneSweepConcurrency
  /\ sweep' = [sweep EXCEPT !.left = @ \ {p}]
  /\ pricing' = [pricing EXCEPT ![p] = Looked(p)]
  /\ UNCHANGED <<treasuryWorld, treasuryTables, treasuryJobs, refresh, treasuryFaults,
                 stranded, answers>>

(* ... and storeAccountAndBalance.                                          *)
RecordPoolMiss(p) ==
  /\ pricing[p] = "missing"
  /\ RecordMiss(p) /\ pricing' = [pricing EXCEPT ![p] = "no"]
  /\ UNCHANGED <<treasuryWorld, accounts, balanceRows, treasuryJobs, sweep, refresh,
                 treasuryFaults, stranded, answers>>

StoreAccount(p) ==
  /\ pricing[p] = "found"
  /\ accounts' = accounts \cup {p}
  /\ pricing' = [pricing EXCEPT ![p] = "stored"]
  /\ UNCHANGED <<treasuryWorld, balanceRows, miss, treasuryJobs, sweep, refresh, treasuryFaults,
                 stranded, answers>>

AskPrice(p) ==
  /\ pricing[p] = "stored"
  /\ AskBalance("pool", p)
  /\ UNCHANGED <<treasuryWorld, treasuryTables, treasuryJobs, pool, refresh, treasuryFaults,
                 stranded>>

StoreBalance(p) ==
  /\ WriteBalance("pool", p)
  /\ pricing' = [pricing EXCEPT ![p] = "no"]
  /\ UNCHANGED <<treasuryWorld, accounts, miss, treasuryJobs, sweep, refresh, treasuryFaults,
                 stranded>>

(* Answers that are given up with the attempt that got them.                *)
Forget(A, P) ==
  /\ answer' = [a \in Asker |->
                 [p \in Players |-> IF a \in A /\ p \in P THEN "none" ELSE answer[a][p]]]
  /\ outdated' = outdated \ (A \X P)

(* Mutant: a worker that aborts leaves the rest of its pool behind.         *)
EndPruneSweepEarly ==
  /\ sweep.on /\ (sweep.left = {} \/ sweep.aborted)
  /\ sweep' = NoSweep /\ pricing' = [p \in Players |-> "no"] /\ Forget({"pool"}, Players)
  /\ UNCHANGED <<treasuryWorld, treasuryTables, treasuryJobs, refresh, treasuryFaults, stranded>>

(* Mutant: the pool ends only once every player was pulled.                 *)
EndPruneSweepDrained ==
  /\ sweep.on /\ Busy = {} /\ sweep.left = {}
  /\ sweep' = NoSweep
  /\ UNCHANGED <<treasuryWorld, treasuryTables, treasuryJobs, pricing, refresh, treasuryFaults,
                 stranded, answers>>

EndPruneSweep ==
  /\ sweep.on /\ Busy = {} /\ (sweep.left = {} \/ sweep.aborted)
  /\ sweep' = NoSweep
  /\ UNCHANGED <<treasuryWorld, treasuryTables, treasuryJobs, pricing, refresh, treasuryFaults,
                 stranded, answers>>

-----------------------------------------------------------------------------
(* handleTreasuryPruneBalanceSweep: dormant balances that have grown old,   *)
(* of those above the floor, one after the other.                           *)
StaleCredit == {p \in dormant \cap accounts : balance[p] = "stale" /\ p \in credit}

StartRefresh ==
  /\ FreeLane /\ ~refresh.on /\ StaleCredit # {}
  /\ refresh' = [on |-> TRUE, left |-> StaleCredit]
  /\ UNCHANGED <<treasuryWorld, treasuryTables, treasuryJobs, pool, treasuryFaults, stranded,
                 answers>>

RefreshNext ==
  /\ refresh.on
  /\ \/ /\ InHand("refresh") = {} /\ \E p \in refresh.left : AskBalance("refresh", p)
        /\ UNCHANGED <<refresh, balanceRows>>
     \/ \E p \in refresh.left : /\ WriteBalance("refresh", p)
                                /\ refresh' = [refresh EXCEPT !.left = @ \ {p}]
     \/ refresh.left = {} /\ refresh' = Off /\ UNCHANGED <<balanceRows, answers>>
  /\ UNCHANGED <<treasuryWorld, accounts, miss, treasuryJobs, pool, treasuryFaults, stranded>>

-----------------------------------------------------------------------------
(* What a lost balance costs: nobody asks for it again but for a            *)
(* stakeholder.                                                             *)
Strand(P) == stranded' = stranded \cup {p \in P : p \in accounts /\ balance[p] = "none"}

Fault == treasuryFaults > 0 /\ treasuryFaults' = treasuryFaults - 1

(* A resolve or balance job fails for good, or a balance is a 404.          *)
FailJob(p) ==
  /\ Fault
  /\ \/ /\ resolving[p] # "no"
        /\ resolving' = [resolving EXCEPT ![p] = "no"]
        /\ resolveJobs' = resolveJobs \ {p} /\ UNCHANGED <<balanceJobs, answers>>
     \/ /\ FreeLane \/ p \in InHand("job")
        /\ p \in balanceJobs /\ balanceJobs' = balanceJobs \ {p}
        /\ Forget({"job"}, {p}) /\ UNCHANGED <<resolving, resolveJobs>>
  /\ Strand({p})
  /\ UNCHANGED <<treasuryWorld, treasuryTables, pool, refresh>>

(* An attempt at one fails and the job is queued again.                     *)
RetryJob(p) ==
  /\ Fault
  /\ \/ /\ resolving[p] # "no" /\ resolving' = [resolving EXCEPT ![p] = "no"]
        /\ UNCHANGED answers
     \/ p \in InHand("job") /\ Forget({"job"}, {p}) /\ UNCHANGED resolving
  /\ UNCHANGED <<treasuryWorld, treasuryTables, resolveJobs, balanceJobs, pool, refresh, stranded>>

(* One player's request fails; an open circuit also stops the pool.         *)
FailPlayer(p) ==
  /\ Fault /\ pricing[p] # "no"
  /\ pricing' = [pricing EXCEPT ![p] = "no"] /\ Forget({"pool"}, {p})
  /\ \/ UNCHANGED sweep
     \/ sweep' = [sweep EXCEPT !.aborted = TRUE]
  /\ Strand({p})
  /\ UNCHANGED <<treasuryWorld, treasuryTables, treasuryJobs, refresh>>

(* An error ends the refresh of the others too; a 404 skips one.            *)
FailRefresh ==
  /\ Fault /\ refresh.on
  /\ \/ refresh' = Off /\ Forget({"refresh"}, Players)
     \/ /\ InHand("refresh") = {} /\ UNCHANGED answers
        /\ \E p \in refresh.left : refresh' = [refresh EXCEPT !.left = @ \ {p}]
  /\ UNCHANGED <<treasuryWorld, treasuryTables, treasuryJobs, pool, stranded>>

(* The process dies: live jobs are queued again, the sweep starts anew.     *)
TreasuryCrash ==
  /\ Fault /\ Running > 0
  /\ resolving' = [p \in Players |-> "no"] /\ pricing' = [p \in Players |-> "no"]
  /\ sweep' = NoSweep /\ refresh' = Off /\ Forget(Asker, Players)
  /\ Strand(Busy)
  /\ UNCHANGED <<treasuryWorld, treasuryTables, resolveJobs, balanceJobs>>

ResolveStep(p) == RecordResolveMiss(p) \/ StoreResolved(p) \/ QueueBalance(p)
PoolStep(p)    == RecordPoolMiss(p) \/ StoreAccount(p) \/ AskPrice(p) \/ StoreBalance(p)

TreasuryNext ==
  \/ \E p \in Players : SellUp(p) \/ GoDormant(p) \/ OpenAccount(p) \/ MoveMoney(p) \/ GrowOld(p)
  \/ ResolveSweep \/ BalanceSweep
  \/ StartPruneSweep \/ EndPruneSweep \/ StartRefresh \/ RefreshNext
  \/ \E p \in Players : Ask(p) \/ ResolveStep(p) \/ ReadBalance(p) \/ StoreRead(p)
  \/ \E p \in Players : Pull(p) \/ PoolStep(p)
  \/ \E p \in Players : FailJob(p) \/ RetryJob(p) \/ FailPlayer(p)
  \/ FailRefresh \/ TreasuryCrash

TreasurySpec == TreasuryInit /\ [][TreasuryNext]_treasuryVars

(* The scheduler runs each sweep for ever, every request and statement      *)
(* ends, and the worker claims each live job.                               *)
TreasuryFairness ==
  /\ SF_treasuryVars(ResolveSweep) /\ SF_treasuryVars(BalanceSweep)
  /\ SF_treasuryVars(StartPruneSweep) /\ WF_treasuryVars(EndPruneSweep)
  /\ WF_treasuryVars(RefreshNext)
  /\ \A p \in Players : /\ WF_treasuryVars(ResolveStep(p)) /\ WF_treasuryVars(StoreRead(p))
                        /\ WF_treasuryVars(PoolStep(p)) /\ WF_treasuryVars(Pull(p))
                        /\ SF_treasuryVars(Ask(p)) /\ SF_treasuryVars(ReadBalance(p))

-----------------------------------------------------------------------------
(* The tables and pools hold players, and the pool is no wider than it may. *)
TreasuryTypeOK ==
  /\ holders \subseteq Players /\ stakeholders \subseteq Players /\ dormant \subseteq Players
  /\ funded \subseteq holders /\ accounts \subseteq holders /\ credit \subseteq accounts
  /\ drifted \subseteq holders
  /\ balance \in [Players -> Age] /\ miss \in [Players -> Age]
  /\ resolveJobs \subseteq Players /\ balanceJobs \subseteq Players
  /\ resolving \in [Players -> Phase] /\ pricing \in [Players -> Phase]
  /\ sweep.left \subseteq Players /\ (Busy # {} => sweep.on)
  /\ Cardinality(Busy) <= PruneSweepConcurrency /\ Running <= TreasuryLanes
  /\ stranded \subseteq Players
  /\ answer \in [Asker -> [Players -> Answer]] /\ outdated \subseteq Asker \X Players

(* v_prune_candidates.                                                      *)
BalanceSource(p) == IF balance[p] # "none" THEN "measured"
                    ELSE IF miss[p] # "none" THEN "no_account" ELSE "pending"

(* whereClause, and what the page says of the list: findPruneCandidates,    *)
(* getPruneCoverage.                                                        *)
DormantRows(includeExcluded) ==
  IF includeExcluded THEN dormant ELSE dormant \ ExcludedFromPrune

Of(source, includeExcluded) ==
  {p \in DormantRows(includeExcluded) : BalanceSource(p) = source}

Candidates(includeExcluded) == Of("measured", includeExcluded) \cap credit

PruneCoverage(includeExcluded) ==
  [dormant   |-> DormantRows(includeExcluded),
   measured  |-> Of("measured", includeExcluded),
   noAccount |-> Of("no_account", includeExcluded),
   pending   |-> Of("pending", includeExcluded),
   eligible  |-> Candidates(includeExcluded)]

SaysComplete(includeExcluded) == PruneCoverage(includeExcluded).pending = {}

(* A player with no balance stored, of whom it is not known that there is   *)
(* no account, ...                                                          *)
Unpriced(p) == BalanceSource(p) = "pending" \/ (balance[p] = "none" /\ p \in accounts)

(* ... is one some sweep will ask about, or is being asked about now.       *)
WillBeAsked(p) ==
  \/ Unresolved(p)
  \/ p \in resolveJobs \cup balanceJobs \/ pricing[p] # "no"
  \/ p \in stakeholders /\ p \in accounts

(* No player of the prune list or of a region drops out between the sweeps, *)
(* with a balance that is pending and nobody to ask for it, except one      *)
(* whose balance failed right after the account was stored.                 *)
PendingIsExplained ==
  \A p \in dormant \cup stakeholders : Unpriced(p) => WillBeAsked(p) \/ p \in stranded

(* When the page calls the list complete no dormant player with money is    *)
(* missing from it, and nobody without is on it, but for those whose money  *)
(* or account changed since the upstream gave the answer that is stored:    *)
(* the sweeps may write in any order, an answer when it is no longer true,  *)
(* or one of one lane over a later one of the other.                        *)
CompleteMeansComplete ==
  \A includeExcluded \in BOOLEAN :
    SaysComplete(includeExcluded) =>
      \A p \in DormantRows(includeExcluded) \ drifted :
        p \in funded <=> p \in Candidates(includeExcluded)

(* The prune list leaves nobody out unnoticed: whoever is not priced will   *)
(* be, or stays counted as pending, and once nobody is pending the list is  *)
(* exact.                                                                   *)
PruneListIsHonest == PendingIsExplained /\ CompleteMeansComplete

(* The backlog drains: in the end every dormant player or stakeholder has   *)
(* a balance or is known to have no account, but for the stranded.          *)
PricingDrains ==
  <>[](\A p \in dormant \cup stakeholders : ~Unpriced(p) \/ p \in stranded)
=============================================================================
