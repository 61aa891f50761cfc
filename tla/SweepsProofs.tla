------------------------------ MODULE SweepsProofs ------------------------------
(***************************************************************************)
(* Theorems about the treasury's sweeps, the upserts of players, the       *)
(* playtime of a stakeholder, and the module that puts them together.      *)
(*                                                                         *)
(* The prune list is honest for any players, batch, pool and number of     *)
(* faults: nobody drops out between the sweeps but those whose balance     *)
(* failed right after their account was stored, and a list that is called  *)
(* complete is exact.                                                      *)
(*                                                                         *)
(* No upserts deadlock, however many sources write however many players.   *)
(* A statement asks for its least row first, so every row it holds is      *)
(* below the one it waits for; a ring of writers that wait for one another *)
(* would have rows that grow for ever.                                     *)
(*                                                                         *)
(* Playtime is never understated unnoticed, for any window and any number  *)
(* of days.  What a figure may lack is bounded by the play that followed   *)
(* its fetch, and that play is in the difference between the lifetime now  *)
(* and the lifetime that was stored beside the figure.                     *)
(***************************************************************************)
EXTENDS MCSweeps, FiniteSetTheorems, WellFoundedInduction, TLAPS

(* The tables hold players; money is in accounts.                           *)
TreasuryShapes ==
  /\ holders \subseteq Players /\ funded \subseteq holders
  /\ stakeholders \subseteq Players /\ dormant \subseteq Players
  /\ balance \in [Players -> Age] /\ miss \in [Players -> Age]
  /\ resolving \in [Players -> Phase] /\ pricing \in [Players -> Phase]
  /\ answer \in [Asker -> [Players -> Answer]] /\ refresh.left \subseteq Players

(* Only who has an account upstream is stored or about to be.               *)
AccountsAreHeld ==
  /\ accounts \subseteq holders
  /\ \A p \in Players :
       resolving[p] \in {"found", "stored"} \/ pricing[p] \in {"found", "stored"} =>
         p \in holders

(* A resolve job that runs is live.                                         *)
ResolvingIsLive == \A p \in Players : resolving[p] # "no" => p \in resolveJobs

(* An answer in hand is true until the money moves.                         *)
AnswersAreTrue ==
  \A a \in Asker, p \in Players : answer[a][p] # "none" /\ <<a, p>> \notin outdated =>
    (answer[a][p] = "funded" <=> p \in funded)

(* What is not in hand is not outdated.                                     *)
OutdatedIsInHand ==
  \A a \in Asker, p \in Players : <<a, p>> \in outdated => answer[a][p] # "none"

(* A balance that did not drift is on the side of the floor it is stored on. *)
CreditIsTrue ==
  \A p \in Players : balance[p] # "none" /\ p \notin drifted =>
    (p \in credit <=> p \in funded)

(* Who is known, or about to be known, to have no account has none, unless  *)
(* they opened one since.                                                   *)
MissIsTrue ==
  \A p \in Players :
    /\ miss[p] # "none" \/ resolving[p] = "missing" \/ pricing[p] = "missing"
    /\ balance[p] = "none" /\ p \notin drifted
    => p \notin holders

(* An account without a balance has a job or a worker of the pool that will *)
(* ask for it, or was let down.  One that only has a 404 in hand will not.  *)
AccountsAreFollowed ==
  \A p \in Players : p \in accounts /\ balance[p] = "none" =>
    \/ p \in resolveJobs /\ resolving[p] # "missing"
    \/ p \in balanceJobs \cup stranded \/ pricing[p] \in {"found", "stored"}

TreasuryInv == /\ TreasuryShapes /\ AccountsAreHeld /\ ResolvingIsLive
               /\ AnswersAreTrue /\ OutdatedIsInHand
               /\ CreditIsTrue /\ MissIsTrue /\ AccountsAreFollowed

-----------------------------------------------------------------------------
(* Nothing is stored or running at the start.                               *)
LEMMA TreasuryInitInv == TreasuryInit => TreasuryInv
BY TreasuryAssumption
   DEF TreasuryInit, TreasuryInv, TreasuryShapes, AccountsAreHeld, ResolvingIsLive,
       AnswersAreTrue, OutdatedIsInHand, CreditIsTrue, MissIsTrue, AccountsAreFollowed, Age,
       Phase, Asker, Answer, Off

LEMMA TreasuryNextInv == TreasuryInv /\ [TreasuryNext]_treasuryVars => TreasuryInv'
<1> SUFFICES ASSUME TreasuryInv, [TreasuryNext]_treasuryVars
             PROVE  TreasuryInv'
  OBVIOUS
<1> USE DEF TreasuryInv, TreasuryShapes, AccountsAreHeld, ResolvingIsLive, AnswersAreTrue,
            OutdatedIsInHand, CreditIsTrue, MissIsTrue, AccountsAreFollowed, Age, Phase, Asker,
            Answer, treasuryWorld, balanceRows, treasuryTables, treasuryJobs, pool, answers,
            AskBalance, WriteBalance, Looked, RecordMiss, Drift, Forget, Strand, Fault, Busy,
            StaleCredit, Off
<1>1. ASSUME NEW p \in Players, SellUp(p)
      PROVE  TreasuryInv'
  BY <1>1 DEF SellUp
<1>2. ASSUME NEW p \in Players, GoDormant(p)
      PROVE  TreasuryInv'
  BY <1>2 DEF GoDormant
<1>3. ASSUME NEW p \in Players, OpenAccount(p)
      PROVE  TreasuryInv'
  BY <1>3 DEF OpenAccount
<1>4. ASSUME NEW p \in Players, MoveMoney(p)
      PROVE  TreasuryInv'
  BY <1>4 DEF MoveMoney
<1>5. ASSUME NEW p \in Players, GrowOld(p)
      PROVE  TreasuryInv'
  BY <1>5 DEF GrowOld
<1>6. ASSUME ResolveSweep
      PROVE  TreasuryInv'
  BY <1>6 DEF ResolveSweep
<1>7. ASSUME BalanceSweep
      PROVE  TreasuryInv'
  BY <1>7 DEF BalanceSweep
<1>8. ASSUME StartPruneSweep
      PROVE  TreasuryInv'
  BY <1>8 DEF StartPruneSweep
<1>9. ASSUME EndPruneSweep
      PROVE  TreasuryInv'
  BY <1>9 DEF EndPruneSweep
<1>10. ASSUME StartRefresh
      PROVE  TreasuryInv'
  BY <1>10 DEF StartRefresh
<1>11. ASSUME RefreshNext
      PROVE  TreasuryInv'
  <2>1. UNCHANGED <<treasuryWorld, accounts, miss, treasuryJobs, pool, stranded>>
    BY <1>11 DEF RefreshNext
  <2>2. ASSUME NEW p \in refresh.left, AskBalance("refresh", p), UNCHANGED <<refresh, balanceRows>>
        PROVE  TreasuryInv'
    BY <2>1, <2>2
  <2>3. ASSUME NEW p \in refresh.left, WriteBalance("refresh", p),
               refresh' = [refresh EXCEPT !.left = @ \ {p}]
        PROVE  TreasuryInv'
    BY <2>1, <2>3
  <2>4. CASE refresh' = Off /\ UNCHANGED <<balanceRows, answers>>
    BY <2>1, <2>4
  <2> QED BY <1>11, <2>2, <2>3, <2>4 DEF RefreshNext
<1>12. ASSUME NEW p \in Players, Ask(p)
      PROVE  TreasuryInv'
  BY <1>12 DEF Ask
<1>13. ASSUME NEW p \in Players, RecordResolveMiss(p)
      PROVE  TreasuryInv'
  BY <1>13 DEF RecordResolveMiss
<1>14. ASSUME NEW p \in Players, StoreResolved(p)
      PROVE  TreasuryInv'
  BY <1>14 DEF StoreResolved
<1>15. ASSUME NEW p \in Players, QueueBalance(p)
      PROVE  TreasuryInv'
  BY <1>15 DEF QueueBalance
<1>16. ASSUME NEW p \in Players, ReadBalance(p)
      PROVE  TreasuryInv'
  BY <1>16 DEF ReadBalance
<1>17. ASSUME NEW p \in Players, StoreRead(p)
      PROVE  TreasuryInv'
  BY <1>17 DEF StoreRead
<1>18. ASSUME NEW p \in Players, Pull(p)
      PROVE  TreasuryInv'
  BY <1>18 DEF Pull
<1>19. ASSUME NEW p \in Players, RecordPoolMiss(p)
      PROVE  TreasuryInv'
  BY <1>19 DEF RecordPoolMiss
<1>20. ASSUME NEW p \in Players, StoreAccount(p)
      PROVE  TreasuryInv'
  BY <1>20 DEF StoreAccount
<1>21. ASSUME NEW p \in Players, AskPrice(p)
      PROVE  TreasuryInv'
  BY <1>21 DEF AskPrice
<1>22. ASSUME NEW p \in Players, StoreBalance(p)
      PROVE  TreasuryInv'
  BY <1>22 DEF StoreBalance
<1>23. ASSUME NEW p \in Players, FailJob(p)
      PROVE  TreasuryInv'
  BY <1>23 DEF FailJob
<1>24. ASSUME NEW p \in Players, RetryJob(p)
      PROVE  TreasuryInv'
  BY <1>24 DEF RetryJob
<1>25. ASSUME NEW p \in Players, FailPlayer(p)
      PROVE  TreasuryInv'
  BY <1>25 DEF FailPlayer
<1>26. ASSUME FailRefresh
      PROVE  TreasuryInv'
  <2>1. UNCHANGED <<treasuryWorld, treasuryTables, treasuryJobs, pool, stranded>>
    BY <1>26 DEF FailRefresh
  <2>2. CASE refresh' = Off /\ Forget({"refresh"}, Players)
    BY <2>1, <2>2
  <2>3. ASSUME NEW p \in refresh.left, UNCHANGED answers,
               refresh' = [refresh EXCEPT !.left = @ \ {p}]
        PROVE  TreasuryInv'
    BY <2>1, <2>3
  <2> QED BY <1>26, <2>2, <2>3 DEF FailRefresh
<1>27. ASSUME TreasuryCrash
      PROVE  TreasuryInv'
  BY <1>27 DEF TreasuryCrash
<1>28. CASE UNCHANGED treasuryVars
  BY <1>28 DEF treasuryVars
<1> QED
  BY <1>1, <1>2, <1>3, <1>4, <1>5, <1>6, <1>7, <1>8, <1>9, <1>10, <1>11, <1>12, <1>13,
     <1>14, <1>15, <1>16, <1>17, <1>18, <1>19, <1>20, <1>21, <1>22, <1>23, <1>24,
     <1>25, <1>26, <1>27, <1>28
     DEF TreasuryNext, ResolveStep, PoolStep

-----------------------------------------------------------------------------
(* With it, whoever has no price is asked about again or was let down, ...  *)
LEMMA NobodyDropsOut == TreasuryInv => PendingIsExplained
<1> SUFFICES ASSUME TreasuryInv, NEW p \in dormant \cup stakeholders, Unpriced(p)
             PROVE  WillBeAsked(p) \/ p \in stranded
  BY DEF PendingIsExplained
<1>1. p \in Players
  BY DEF TreasuryInv, TreasuryShapes
<1>2. CASE p \in accounts
  BY <1>1, <1>2 DEF TreasuryInv, AccountsAreFollowed, Unpriced, BalanceSource, WillBeAsked
<1>3. CASE p \notin accounts
  BY <1>3 DEF Unpriced, BalanceSource, WillBeAsked, Unresolved
<1> QED BY <1>2, <1>3

(* ... and a list without pending rows is exact.                            *)
LEMMA CompleteListsAreExact == TreasuryInv => CompleteMeansComplete
<1> SUFFICES ASSUME TreasuryInv, NEW e \in BOOLEAN, SaysComplete(e),
                    NEW p \in DormantRows(e) \ drifted
             PROVE  p \in funded <=> p \in Candidates(e)
  BY DEF CompleteMeansComplete
<1>1. p \in Players
  BY DEF TreasuryInv, TreasuryShapes, DormantRows
<1>2. BalanceSource(p) # "pending"
  BY DEF SaysComplete, PruneCoverage, Of
<1>3. CASE balance[p] # "none"
  <2>1. p \in credit <=> p \in funded
    BY <1>1, <1>3 DEF TreasuryInv, CreditIsTrue
  <2>2. p \in Candidates(e) <=> p \in credit
    BY <1>3 DEF Candidates, Of, BalanceSource
  <2> QED BY <2>1, <2>2
<1>4. CASE balance[p] = "none"
  <2>1. p \notin holders
    BY <1>1, <1>2, <1>4 DEF TreasuryInv, MissIsTrue, BalanceSource
  <2>2. p \notin funded
    BY <2>1 DEF TreasuryInv, TreasuryShapes
  <2>3. p \notin Candidates(e)
    BY <1>4 DEF Candidates, Of, BalanceSource
  <2> QED BY <2>2, <2>3
<1> QED BY <1>3, <1>4

(* The prune list of insights/prune.ts is honest, whatever fails, crashes   *)
(* or moves meanwhile.                                                      *)
THEOREM ThePruneListIsHonest == TreasurySpec => []PruneListIsHonest
<1>1. TreasuryInv => PruneListIsHonest
  BY NobodyDropsOut, CompleteListsAreExact DEF PruneListIsHonest
<1> QED BY <1>1, TreasuryInitInv, TreasuryNextInv, PTL DEF TreasurySpec

-----------------------------------------------------------------------------
(* The lanes and the pool.                                                  *)

(* The records of the two sweeps.                                           *)
SweepShapes == /\ sweep \in [on : BOOLEAN, left : SUBSET Players, aborted : BOOLEAN]
               /\ refresh \in [on : BOOLEAN, left : SUBSET Players]
               /\ (Busy # {} => sweep.on)

(* Balances are asked for and stored for accounts only.                     *)
BalancesHaveAccounts ==
  /\ credit \subseteq accounts /\ balanceJobs \subseteq accounts /\ refresh.left \subseteq accounts
  /\ \A p \in Players : (resolving[p] = "stored" \/ pricing[p] = "stored") => p \in accounts
  /\ \A a \in Asker, p \in Players : answer[a][p] # "none" => p \in accounts
  /\ drifted \subseteq holders /\ resolveJobs \subseteq Players /\ stranded \subseteq Players
  /\ outdated \subseteq Asker \X Players

(* No more jobs run than there are lanes, and no more requests than the     *)
(* pool is wide.                                                            *)
LanesKept == /\ Running <= TreasuryLanes
             /\ Cardinality(Busy) <= PruneSweepConcurrency

LaneInv == TreasuryInv /\ SweepShapes /\ BalancesHaveAccounts /\ LanesKept

(* Sets of players have a size, which one more player makes larger by one.  *)
LEMMA SizesOfPlayers ==
  /\ \A S \in SUBSET Players : IsFiniteSet(S) /\ Cardinality(S) \in Nat
  /\ \A S, T \in SUBSET Players : T \subseteq S => Cardinality(T) <= Cardinality(S)
  /\ \A S, T \in SUBSET Players, p \in Players :
       T \subseteq S \cup {p} => Cardinality(T) <= Cardinality(S) + 1
<1>1. ASSUME NEW S \in SUBSET Players PROVE IsFiniteSet(S) /\ Cardinality(S) \in Nat
  BY TreasuryAssumption, FS_Subset, FS_CardinalityType
<1>2. ASSUME NEW S \in SUBSET Players, NEW T \in SUBSET Players, T \subseteq S
      PROVE  Cardinality(T) <= Cardinality(S)
  BY <1>1, <1>2, FS_Subset
<1>3. ASSUME NEW S \in SUBSET Players, NEW T \in SUBSET Players, NEW p \in Players,
             T \subseteq S \cup {p}
      PROVE  Cardinality(T) <= Cardinality(S) + 1
  <2>1. Cardinality(T) <= Cardinality(S \cup {p})
    BY <1>2, <1>3
  <2>2. Cardinality(S \cup {p}) <= Cardinality(S) + 1
    BY <1>1, FS_AddElement
  <2> QED BY <1>1, <2>1, <2>2
<1> QED BY <1>1, <1>2, <1>3

(* The sets and the numbers that the counts speak of.                       *)
LEMMA CountsAreNumbers ==
  /\ Resolving \in SUBSET Players /\ Busy \in SUBSET Players /\ InHand("job") \in SUBSET Players
  /\ Cardinality(Resolving) \in Nat /\ Cardinality(Busy) \in Nat
  /\ Cardinality(InHand("job")) \in Nat
  /\ TreasuryLanes \in Nat /\ PruneSweepConcurrency \in Nat \ {0}
BY SizesOfPlayers, TreasuryAssumption DEF Resolving, Busy, InHand

(* What ends takes no lane, and what goes on takes none anew.               *)
LEMMA FewerLanes ==
  ASSUME LanesKept, Resolving' \subseteq Resolving, Busy' \subseteq Busy,
         InHand("job")' \subseteq InHand("job"),
         sweep'.on => sweep.on, refresh'.on => refresh.on
  PROVE  LanesKept'
<1>1. /\ Resolving' \in SUBSET Players /\ Busy' \in SUBSET Players
      /\ InHand("job")' \in SUBSET Players
  BY DEF Resolving, Busy, InHand
<1>2. /\ Cardinality(Resolving') <= Cardinality(Resolving)
      /\ Cardinality(Busy') <= Cardinality(Busy)
      /\ Cardinality(InHand("job")') <= Cardinality(InHand("job"))
      /\ Cardinality(Resolving') \in Nat /\ Cardinality(Busy') \in Nat
      /\ Cardinality(InHand("job")') \in Nat
  BY <1>1, SizesOfPlayers, CountsAreNumbers
<1>3. Cardinality(Busy') <= PruneSweepConcurrency
  BY <1>2, CountsAreNumbers DEF LanesKept
<1>4. Running' <= Running /\ Running \in Nat /\ Running' \in Nat
  BY <1>2, CountsAreNumbers DEF Running
<1> QED BY <1>3, <1>4, CountsAreNumbers DEF LanesKept

LEMMA SameLanes ==
  ASSUME LanesKept, UNCHANGED <<resolving, pricing, sweep, refresh, answer>>
  PROVE  LanesKept'
BY FewerLanes DEF Resolving, Busy, InHand

(* A job that starts takes a lane that was free, ...                        *)
LEMMA OneMoreJob ==
  ASSUME LanesKept, FreeLane, NEW p \in Players, Busy' = Busy,
         \/ Resolving' \subseteq Resolving \cup {p} /\ InHand("job")' = InHand("job")
         \/ InHand("job")' \subseteq InHand("job") \cup {p} /\ Resolving' = Resolving,
         UNCHANGED <<sweep, refresh>>
  PROVE  LanesKept'
<1>1. Resolving' \in SUBSET Players /\ InHand("job")' \in SUBSET Players
  BY DEF Resolving, InHand
<1>2. /\ Cardinality(Resolving') + Cardinality(InHand("job")')
           <= Cardinality(Resolving) + Cardinality(InHand("job")) + 1
      /\ Cardinality(Resolving') \in Nat /\ Cardinality(InHand("job")') \in Nat
  BY <1>1, SizesOfPlayers, CountsAreNumbers
<1>3. Running' <= Running + 1 /\ Running \in Nat /\ Running' \in Nat
  BY <1>2, CountsAreNumbers DEF Running
<1> QED BY <1>3, CountsAreNumbers DEF LanesKept, FreeLane

(* ... so does a sweep, ...                                                 *)
LEMMA OneMoreSweep ==
  ASSUME LanesKept, Running < TreasuryLanes, UNCHANGED <<resolving, pricing, answer>>,
         \/ ~sweep.on /\ UNCHANGED refresh
         \/ ~refresh.on /\ UNCHANGED sweep
  PROVE  LanesKept'
<1>1. Resolving' = Resolving /\ Busy' = Busy /\ InHand("job")' = InHand("job")
  BY DEF Resolving, Busy, InHand
<1> QED BY <1>1, CountsAreNumbers DEF LanesKept, Running

(* ... and a player who is pulled a place in the pool.                      *)
LEMMA OneMorePriced ==
  ASSUME LanesKept, NEW p \in Players, Cardinality(Busy) < PruneSweepConcurrency,
         Busy' \subseteq Busy \cup {p}, Resolving' = Resolving, InHand("job")' = InHand("job"),
         sweep'.on, sweep.on, UNCHANGED refresh
  PROVE  LanesKept'
<1>1. Busy' \in SUBSET Players
  BY DEF Busy
<1>2. Cardinality(Busy') <= Cardinality(Busy) + 1 /\ Cardinality(Busy') \in Nat
  BY <1>1, SizesOfPlayers, CountsAreNumbers
<1> QED BY <1>2, CountsAreNumbers DEF LanesKept, Running

LEMMA LanesKeptNext == LaneInv /\ [TreasuryNext]_treasuryVars => LanesKept'
<1> SUFFICES ASSUME LaneInv, [TreasuryNext]_treasuryVars
             PROVE  LanesKept'
  OBVIOUS
<1> USE DEF LaneInv, TreasuryInv, TreasuryShapes, SweepShapes, treasuryWorld, balanceRows,
            treasuryTables, treasuryJobs, pool, answers, Fault, Drift, Asker, Answer
<1>1. ASSUME NEW p \in Players, SellUp(p)
      PROVE  LanesKept'
  BY <1>1, SameLanes DEF SellUp
<1>2. ASSUME NEW p \in Players, GoDormant(p)
      PROVE  LanesKept'
  BY <1>2, SameLanes DEF GoDormant
<1>3. ASSUME NEW p \in Players, OpenAccount(p)
      PROVE  LanesKept'
  BY <1>3, SameLanes DEF OpenAccount
<1>4. ASSUME NEW p \in Players, MoveMoney(p)
      PROVE  LanesKept'
  BY <1>4, SameLanes DEF MoveMoney
<1>5. ASSUME NEW p \in Players, GrowOld(p)
      PROVE  LanesKept'
  BY <1>5, SameLanes DEF GrowOld
<1>6. ASSUME ResolveSweep
      PROVE  LanesKept'
  BY <1>6, SameLanes DEF ResolveSweep
<1>7. ASSUME BalanceSweep
      PROVE  LanesKept'
  BY <1>7, SameLanes DEF BalanceSweep
<1>8. ASSUME StartPruneSweep
      PROVE  LanesKept'
  BY <1>8, OneMoreSweep DEF StartPruneSweep, FreeLane
<1>9. ASSUME EndPruneSweep
      PROVE  LanesKept'
  <2>1. Resolving' \subseteq Resolving /\ Busy' \subseteq Busy
    BY <1>9 DEF EndPruneSweep, Resolving, Busy
  <2>2. (sweep'.on => sweep.on) /\ (refresh'.on => refresh.on)
    BY <1>9 DEF EndPruneSweep, NoSweep, Off
  <2>3. InHand("job")' \subseteq InHand("job")
    BY <1>9 DEF EndPruneSweep, InHand, AskBalance, WriteBalance, Forget
  <2> QED BY <2>1, <2>2, <2>3, FewerLanes
<1>10. ASSUME StartRefresh
      PROVE  LanesKept'
  BY <1>10, OneMoreSweep DEF StartRefresh, FreeLane
<1>11. ASSUME RefreshNext
      PROVE  LanesKept'
  <2>1. Resolving' \subseteq Resolving /\ Busy' \subseteq Busy
    BY <1>11 DEF RefreshNext, Resolving, Busy
  <2>2. (sweep'.on => sweep.on) /\ (refresh'.on => refresh.on)
    BY <1>11 DEF RefreshNext, NoSweep, Off
  <2>3. InHand("job")' \subseteq InHand("job")
    BY <1>11 DEF RefreshNext, InHand, AskBalance, WriteBalance, Forget
  <2> QED BY <2>1, <2>2, <2>3, FewerLanes
<1>12. ASSUME NEW p \in Players, Ask(p)
      PROVE  LanesKept'
  <2>1. Resolving' \subseteq Resolving \cup {p} /\ Busy' = Busy /\ InHand("job")' = InHand("job")
    BY <1>12 DEF Ask, Resolving, Busy, InHand
  <2>2. FreeLane /\ UNCHANGED <<sweep, refresh>>
    BY <1>12 DEF Ask
  <2> QED BY <2>1, <2>2, OneMoreJob
<1>13. ASSUME NEW p \in Players, RecordResolveMiss(p)
      PROVE  LanesKept'
  <2>1. Resolving' \subseteq Resolving /\ Busy' \subseteq Busy
    BY <1>13 DEF RecordResolveMiss, Resolving, Busy
  <2>2. (sweep'.on => sweep.on) /\ (refresh'.on => refresh.on)
    BY <1>13 DEF RecordResolveMiss, NoSweep, Off
  <2>3. InHand("job")' \subseteq InHand("job")
    BY <1>13 DEF RecordResolveMiss, InHand, AskBalance, WriteBalance, Forget
  <2> QED BY <2>1, <2>2, <2>3, FewerLanes
<1>14. ASSUME NEW p \in Players, StoreResolved(p)
      PROVE  LanesKept'
  <2>1. Resolving' \subseteq Resolving /\ Busy' \subseteq Busy
    BY <1>14 DEF StoreResolved, Resolving, Busy
  <2>2. (sweep'.on => sweep.on) /\ (refresh'.on => refresh.on)
    BY <1>14 DEF StoreResolved, NoSweep, Off
  <2>3. InHand("job")' \subseteq InHand("job")
    BY <1>14 DEF StoreResolved, InHand, AskBalance, WriteBalance, Forget
  <2> QED BY <2>1, <2>2, <2>3, FewerLanes
<1>15. ASSUME NEW p \in Players, QueueBalance(p)
      PROVE  LanesKept'
  <2>1. Resolving' \subseteq Resolving /\ Busy' \subseteq Busy
    BY <1>15 DEF QueueBalance, Resolving, Busy
  <2>2. (sweep'.on => sweep.on) /\ (refresh'.on => refresh.on)
    BY <1>15 DEF QueueBalance, NoSweep, Off
  <2>3. InHand("job")' \subseteq InHand("job")
    BY <1>15 DEF QueueBalance, InHand, AskBalance, WriteBalance, Forget
  <2> QED BY <2>1, <2>2, <2>3, FewerLanes
<1>16. ASSUME NEW p \in Players, ReadBalance(p)
      PROVE  LanesKept'
  <2>1. InHand("job")' \subseteq InHand("job") \cup {p}
    BY <1>16 DEF ReadBalance, AskBalance, InHand
  <2>2. Busy' = Busy /\ Resolving' = Resolving /\ FreeLane /\ UNCHANGED <<sweep, refresh>>
    BY <1>16 DEF ReadBalance, Busy, Resolving
  <2> QED BY <2>1, <2>2, OneMoreJob
<1>17. ASSUME NEW p \in Players, StoreRead(p)
      PROVE  LanesKept'
  <2>1. Resolving' \subseteq Resolving /\ Busy' \subseteq Busy
    BY <1>17 DEF StoreRead, Resolving, Busy
  <2>2. (sweep'.on => sweep.on) /\ (refresh'.on => refresh.on)
    BY <1>17 DEF StoreRead, NoSweep, Off
  <2>3. InHand("job")' \subseteq InHand("job")
    BY <1>17 DEF StoreRead, InHand, AskBalance, WriteBalance, Forget
  <2> QED BY <2>1, <2>2, <2>3, FewerLanes
<1>18. ASSUME NEW p \in Players, Pull(p)
      PROVE  LanesKept'
  <2>1. Busy' \subseteq Busy \cup {p} /\ Resolving' = Resolving /\ InHand("job")' = InHand("job")
        /\ sweep'.on /\ sweep.on /\ UNCHANGED refresh
    BY <1>18 DEF Pull, Resolving, Busy, InHand
  <2>2. Cardinality(Busy) < PruneSweepConcurrency
    BY <1>18 DEF Pull
  <2> QED BY <2>1, <2>2, OneMorePriced
<1>19. ASSUME NEW p \in Players, RecordPoolMiss(p)
      PROVE  LanesKept'
  <2>1. Resolving' \subseteq Resolving /\ Busy' \subseteq Busy
    BY <1>19 DEF RecordPoolMiss, Resolving, Busy
  <2>2. (sweep'.on => sweep.on) /\ (refresh'.on => refresh.on)
    BY <1>19 DEF RecordPoolMiss, NoSweep, Off
  <2>3. InHand("job")' \subseteq InHand("job")
    BY <1>19 DEF RecordPoolMiss, InHand, AskBalance, WriteBalance, Forget
  <2> QED BY <2>1, <2>2, <2>3, FewerLanes
<1>20. ASSUME NEW p \in Players, StoreAccount(p)
      PROVE  LanesKept'
  <2>1. Resolving' \subseteq Resolving /\ Busy' \subseteq Busy
    BY <1>20 DEF StoreAccount, Resolving, Busy
  <2>2. (sweep'.on => sweep.on) /\ (refresh'.on => refresh.on)
    BY <1>20 DEF StoreAccount, NoSweep, Off
  <2>3. InHand("job")' \subseteq InHand("job")
    BY <1>20 DEF StoreAccount, InHand, AskBalance, WriteBalance, Forget
  <2> QED BY <2>1, <2>2, <2>3, FewerLanes
<1>21. ASSUME NEW p \in Players, AskPrice(p)
      PROVE  LanesKept'
  <2>1. Resolving' \subseteq Resolving /\ Busy' \subseteq Busy
    BY <1>21 DEF AskPrice, Resolving, Busy
  <2>2. (sweep'.on => sweep.on) /\ (refresh'.on => refresh.on)
    BY <1>21 DEF AskPrice, NoSweep, Off
  <2>3. InHand("job")' \subseteq InHand("job")
    BY <1>21 DEF AskPrice, InHand, AskBalance, WriteBalance, Forget
  <2> QED BY <2>1, <2>2, <2>3, FewerLanes
<1>22. ASSUME NEW p \in Players, StoreBalance(p)
      PROVE  LanesKept'
  <2>1. Resolving' \subseteq Resolving /\ Busy' \subseteq Busy
    BY <1>22 DEF StoreBalance, Resolving, Busy
  <2>2. (sweep'.on => sweep.on) /\ (refresh'.on => refresh.on)
    BY <1>22 DEF StoreBalance, NoSweep, Off
  <2>3. InHand("job")' \subseteq InHand("job")
    BY <1>22 DEF StoreBalance, InHand, AskBalance, WriteBalance, Forget
  <2> QED BY <2>1, <2>2, <2>3, FewerLanes
<1>23. ASSUME NEW p \in Players, FailJob(p)
      PROVE  LanesKept'
  <2>1. Resolving' \subseteq Resolving /\ Busy' \subseteq Busy
    BY <1>23 DEF FailJob, Resolving, Busy
  <2>2. (sweep'.on => sweep.on) /\ (refresh'.on => refresh.on)
    BY <1>23 DEF FailJob, NoSweep, Off
  <2>3. InHand("job")' \subseteq InHand("job")
    BY <1>23 DEF FailJob, InHand, AskBalance, WriteBalance, Forget
  <2> QED BY <2>1, <2>2, <2>3, FewerLanes
<1>24. ASSUME NEW p \in Players, RetryJob(p)
      PROVE  LanesKept'
  <2>1. Resolving' \subseteq Resolving /\ Busy' \subseteq Busy
    BY <1>24 DEF RetryJob, Resolving, Busy
  <2>2. (sweep'.on => sweep.on) /\ (refresh'.on => refresh.on)
    BY <1>24 DEF RetryJob, NoSweep, Off
  <2>3. InHand("job")' \subseteq InHand("job")
    BY <1>24 DEF RetryJob, InHand, AskBalance, WriteBalance, Forget
  <2> QED BY <2>1, <2>2, <2>3, FewerLanes
<1>25. ASSUME NEW p \in Players, FailPlayer(p)
      PROVE  LanesKept'
  <2>1. Resolving' \subseteq Resolving /\ Busy' \subseteq Busy
    BY <1>25 DEF FailPlayer, Resolving, Busy
  <2>2. (sweep'.on => sweep.on) /\ (refresh'.on => refresh.on)
    BY <1>25 DEF FailPlayer, NoSweep, Off
  <2>3. InHand("job")' \subseteq InHand("job")
    BY <1>25 DEF FailPlayer, InHand, AskBalance, WriteBalance, Forget
  <2> QED BY <2>1, <2>2, <2>3, FewerLanes
<1>26. ASSUME FailRefresh
      PROVE  LanesKept'
  <2>1. Resolving' \subseteq Resolving /\ Busy' \subseteq Busy
    BY <1>26 DEF FailRefresh, Resolving, Busy
  <2>2. (sweep'.on => sweep.on) /\ (refresh'.on => refresh.on)
    BY <1>26 DEF FailRefresh, NoSweep, Off
  <2>3. InHand("job")' \subseteq InHand("job")
    BY <1>26 DEF FailRefresh, InHand, AskBalance, WriteBalance, Forget
  <2> QED BY <2>1, <2>2, <2>3, FewerLanes
<1>27. ASSUME TreasuryCrash
      PROVE  LanesKept'
  <2>1. Resolving' \subseteq Resolving /\ Busy' \subseteq Busy
    BY <1>27 DEF TreasuryCrash, Resolving, Busy
  <2>2. (sweep'.on => sweep.on) /\ (refresh'.on => refresh.on)
    BY <1>27 DEF TreasuryCrash, NoSweep, Off
  <2>3. InHand("job")' \subseteq InHand("job")
    BY <1>27 DEF TreasuryCrash, InHand, AskBalance, WriteBalance, Forget
  <2> QED BY <2>1, <2>2, <2>3, FewerLanes
<1>28. CASE UNCHANGED treasuryVars
  BY <1>28, SameLanes DEF treasuryVars
<1> QED
  BY <1>1, <1>2, <1>3, <1>4, <1>5, <1>6, <1>7, <1>8, <1>9, <1>10, <1>11, <1>12, <1>13,
     <1>14, <1>15, <1>16, <1>17, <1>18, <1>19, <1>20, <1>21, <1>22, <1>23, <1>24,
     <1>25, <1>26, <1>27, <1>28
     DEF TreasuryNext, ResolveStep, PoolStep

(* A refresh goes on with one player less, or ends.                         *)
LEMMA RefreshGoesOn ==
  ASSUME SweepShapes, UNCHANGED <<sweep, pricing>>,
         \/ refresh' = refresh
         \/ refresh' = Off
         \/ \E p \in refresh.left : refresh' = [refresh EXCEPT !.left = @ \ {p}]
  PROVE  SweepShapes'
<1>1. refresh \in [on : BOOLEAN, left : SUBSET Players]
  BY DEF SweepShapes
<1>2. ASSUME NEW p \in refresh.left, refresh' = [refresh EXCEPT !.left = @ \ {p}]
      PROVE  refresh' \in [on : BOOLEAN, left : SUBSET Players]
  BY <1>1, <1>2
<1>3. Off \in [on : BOOLEAN, left : SUBSET Players]
  BY DEF Off
<1>4. refresh' \in [on : BOOLEAN, left : SUBSET Players]
  BY <1>1, <1>2, <1>3
<1> QED BY <1>4 DEF SweepShapes, Busy

LEMMA SweepShapesNext == LaneInv /\ [TreasuryNext]_treasuryVars => SweepShapes'
<1> SUFFICES ASSUME LaneInv, [TreasuryNext]_treasuryVars
             PROVE  SweepShapes'
  OBVIOUS
<1> USE DEF LaneInv, TreasuryInv, TreasuryShapes, SweepShapes, treasuryWorld, balanceRows,
            treasuryTables, treasuryJobs, pool, Fault, Busy, NoSweep, Off, PruneBatch, UpTo,
            StaleCredit, Phase, Looked
<1>1. ASSUME NEW p \in Players, SellUp(p)
      PROVE  SweepShapes'
  BY <1>1 DEF SellUp
<1>2. ASSUME NEW p \in Players, GoDormant(p)
      PROVE  SweepShapes'
  BY <1>2 DEF GoDormant
<1>3. ASSUME NEW p \in Players, OpenAccount(p)
      PROVE  SweepShapes'
  BY <1>3 DEF OpenAccount
<1>4. ASSUME NEW p \in Players, MoveMoney(p)
      PROVE  SweepShapes'
  BY <1>4 DEF MoveMoney
<1>5. ASSUME NEW p \in Players, GrowOld(p)
      PROVE  SweepShapes'
  BY <1>5 DEF GrowOld
<1>6. ASSUME ResolveSweep
      PROVE  SweepShapes'
  BY <1>6 DEF ResolveSweep
<1>7. ASSUME BalanceSweep
      PROVE  SweepShapes'
  BY <1>7 DEF BalanceSweep
<1>8. ASSUME StartPruneSweep
      PROVE  SweepShapes'
  BY <1>8 DEF StartPruneSweep
<1>9. ASSUME EndPruneSweep
      PROVE  SweepShapes'
  BY <1>9 DEF EndPruneSweep
<1>10. ASSUME StartRefresh
      PROVE  SweepShapes'
  BY <1>10 DEF StartRefresh
<1>11. ASSUME RefreshNext
      PROVE  SweepShapes'
  <2>1. \/ refresh' = refresh \/ refresh' = Off
        \/ \E p \in refresh.left : refresh' = [refresh EXCEPT !.left = @ \ {p}]
    BY <1>11 DEF RefreshNext
  <2>2. UNCHANGED <<sweep, pricing>>
    BY <1>11 DEF RefreshNext
  <2> QED BY <2>1, <2>2, RefreshGoesOn DEF SweepShapes
<1>12. ASSUME NEW p \in Players, Ask(p)
      PROVE  SweepShapes'
  BY <1>12 DEF Ask
<1>13. ASSUME NEW p \in Players, RecordResolveMiss(p)
      PROVE  SweepShapes'
  BY <1>13 DEF RecordResolveMiss
<1>14. ASSUME NEW p \in Players, StoreResolved(p)
      PROVE  SweepShapes'
  BY <1>14 DEF StoreResolved
<1>15. ASSUME NEW p \in Players, QueueBalance(p)
      PROVE  SweepShapes'
  BY <1>15 DEF QueueBalance
<1>16. ASSUME NEW p \in Players, ReadBalance(p)
      PROVE  SweepShapes'
  BY <1>16 DEF ReadBalance
<1>17. ASSUME NEW p \in Players, StoreRead(p)
      PROVE  SweepShapes'
  BY <1>17 DEF StoreRead
<1>18. ASSUME NEW p \in Players, Pull(p)
      PROVE  SweepShapes'
  BY <1>18 DEF Pull
<1>19. ASSUME NEW p \in Players, RecordPoolMiss(p)
      PROVE  SweepShapes'
  BY <1>19 DEF RecordPoolMiss
<1>20. ASSUME NEW p \in Players, StoreAccount(p)
      PROVE  SweepShapes'
  BY <1>20 DEF StoreAccount
<1>21. ASSUME NEW p \in Players, AskPrice(p)
      PROVE  SweepShapes'
  BY <1>21 DEF AskPrice
<1>22. ASSUME NEW p \in Players, StoreBalance(p)
      PROVE  SweepShapes'
  BY <1>22 DEF StoreBalance
<1>23. ASSUME NEW p \in Players, FailJob(p)
      PROVE  SweepShapes'
  BY <1>23 DEF FailJob
<1>24. ASSUME NEW p \in Players, RetryJob(p)
      PROVE  SweepShapes'
  BY <1>24 DEF RetryJob
<1>25. ASSUME NEW p \in Players, FailPlayer(p)
      PROVE  SweepShapes'
  BY <1>25 DEF FailPlayer
<1>26. ASSUME FailRefresh
      PROVE  SweepShapes'
  <2>1. \/ refresh' = refresh \/ refresh' = Off
        \/ \E p \in refresh.left : refresh' = [refresh EXCEPT !.left = @ \ {p}]
    BY <1>26 DEF FailRefresh
  <2>2. UNCHANGED <<sweep, pricing>>
    BY <1>26 DEF FailRefresh
  <2> QED BY <2>1, <2>2, RefreshGoesOn DEF SweepShapes
<1>27. ASSUME TreasuryCrash
      PROVE  SweepShapes'
  BY <1>27 DEF TreasuryCrash
<1>28. CASE UNCHANGED treasuryVars
  BY <1>28 DEF treasuryVars
<1> QED
  BY <1>1, <1>2, <1>3, <1>4, <1>5, <1>6, <1>7, <1>8, <1>9, <1>10, <1>11, <1>12, <1>13,
     <1>14, <1>15, <1>16, <1>17, <1>18, <1>19, <1>20, <1>21, <1>22, <1>23, <1>24,
     <1>25, <1>26, <1>27, <1>28
     DEF TreasuryNext, ResolveStep, PoolStep

LEMMA BalancesHaveAccountsNext ==
  LaneInv /\ [TreasuryNext]_treasuryVars => BalancesHaveAccounts'
<1> SUFFICES ASSUME LaneInv, [TreasuryNext]_treasuryVars
             PROVE  BalancesHaveAccounts'
  OBVIOUS
<1> USE DEF LaneInv, TreasuryInv, TreasuryShapes, AccountsAreHeld, ResolvingIsLive, SweepShapes,
            BalancesHaveAccounts, treasuryWorld, balanceRows, treasuryTables, treasuryJobs, pool,
            answers, Fault, Busy, NoSweep, Off, UpTo, StaleCredit, Strand, AskBalance,
            WriteBalance, Looked, RecordMiss, Drift, Forget, Phase, Asker, Answer
<1>1. ASSUME NEW p \in Players, SellUp(p)
      PROVE  BalancesHaveAccounts'
  BY <1>1 DEF SellUp
<1>2. ASSUME NEW p \in Players, GoDormant(p)
      PROVE  BalancesHaveAccounts'
  BY <1>2 DEF GoDormant
<1>3. ASSUME NEW p \in Players, OpenAccount(p)
      PROVE  BalancesHaveAccounts'
  BY <1>3 DEF OpenAccount
<1>4. ASSUME NEW p \in Players, MoveMoney(p)
      PROVE  BalancesHaveAccounts'
  BY <1>4 DEF MoveMoney
<1>5. ASSUME NEW p \in Players, GrowOld(p)
      PROVE  BalancesHaveAccounts'
  BY <1>5 DEF GrowOld
<1>6. ASSUME ResolveSweep
      PROVE  BalancesHaveAccounts'
  BY <1>6 DEF ResolveSweep
<1>7. ASSUME BalanceSweep
      PROVE  BalancesHaveAccounts'
  BY <1>7 DEF BalanceSweep
<1>8. ASSUME StartPruneSweep
      PROVE  BalancesHaveAccounts'
  BY <1>8 DEF StartPruneSweep
<1>9. ASSUME EndPruneSweep
      PROVE  BalancesHaveAccounts'
  BY <1>9 DEF EndPruneSweep
<1>10. ASSUME StartRefresh
      PROVE  BalancesHaveAccounts'
  BY <1>10 DEF StartRefresh
<1>11. ASSUME RefreshNext
      PROVE  BalancesHaveAccounts'
  <2>1. UNCHANGED <<treasuryWorld, accounts, miss, treasuryJobs, pool, stranded>>
    BY <1>11 DEF RefreshNext
  <2>2. ASSUME NEW p \in refresh.left, AskBalance("refresh", p), UNCHANGED <<refresh, balanceRows>>
        PROVE  BalancesHaveAccounts'
    BY <2>1, <2>2
  <2>3. ASSUME NEW p \in refresh.left, WriteBalance("refresh", p),
               refresh' = [refresh EXCEPT !.left = @ \ {p}]
        PROVE  BalancesHaveAccounts'
    BY <2>1, <2>3
  <2>4. CASE refresh' = Off /\ UNCHANGED <<balanceRows, answers>>
    BY <2>1, <2>4
  <2> QED BY <1>11, <2>2, <2>3, <2>4 DEF RefreshNext
<1>12. ASSUME NEW p \in Players, Ask(p)
      PROVE  BalancesHaveAccounts'
  BY <1>12 DEF Ask
<1>13. ASSUME NEW p \in Players, RecordResolveMiss(p)
      PROVE  BalancesHaveAccounts'
  BY <1>13 DEF RecordResolveMiss
<1>14. ASSUME NEW p \in Players, StoreResolved(p)
      PROVE  BalancesHaveAccounts'
  BY <1>14 DEF StoreResolved
<1>15. ASSUME NEW p \in Players, QueueBalance(p)
      PROVE  BalancesHaveAccounts'
  BY <1>15 DEF QueueBalance
<1>16. ASSUME NEW p \in Players, ReadBalance(p)
      PROVE  BalancesHaveAccounts'
  BY <1>16 DEF ReadBalance
<1>17. ASSUME NEW p \in Players, StoreRead(p)
      PROVE  BalancesHaveAccounts'
  BY <1>17 DEF StoreRead
<1>18. ASSUME NEW p \in Players, Pull(p)
      PROVE  BalancesHaveAccounts'
  BY <1>18 DEF Pull
<1>19. ASSUME NEW p \in Players, RecordPoolMiss(p)
      PROVE  BalancesHaveAccounts'
  BY <1>19 DEF RecordPoolMiss
<1>20. ASSUME NEW p \in Players, StoreAccount(p)
      PROVE  BalancesHaveAccounts'
  BY <1>20 DEF StoreAccount
<1>21. ASSUME NEW p \in Players, AskPrice(p)
      PROVE  BalancesHaveAccounts'
  BY <1>21 DEF AskPrice
<1>22. ASSUME NEW p \in Players, StoreBalance(p)
      PROVE  BalancesHaveAccounts'
  BY <1>22 DEF StoreBalance
<1>23. ASSUME NEW p \in Players, FailJob(p)
      PROVE  BalancesHaveAccounts'
  BY <1>23 DEF FailJob
<1>24. ASSUME NEW p \in Players, RetryJob(p)
      PROVE  BalancesHaveAccounts'
  BY <1>24 DEF RetryJob
<1>25. ASSUME NEW p \in Players, FailPlayer(p)
      PROVE  BalancesHaveAccounts'
  BY <1>25 DEF FailPlayer
<1>26. ASSUME FailRefresh
      PROVE  BalancesHaveAccounts'
  BY <1>26 DEF FailRefresh
<1>27. ASSUME TreasuryCrash
      PROVE  BalancesHaveAccounts'
  BY <1>27 DEF TreasuryCrash
<1>28. CASE UNCHANGED treasuryVars
  BY <1>28 DEF treasuryVars
<1> QED
  BY <1>1, <1>2, <1>3, <1>4, <1>5, <1>6, <1>7, <1>8, <1>9, <1>10, <1>11, <1>12, <1>13,
     <1>14, <1>15, <1>16, <1>17, <1>18, <1>19, <1>20, <1>21, <1>22, <1>23, <1>24,
     <1>25, <1>26, <1>27, <1>28
     DEF TreasuryNext, ResolveStep, PoolStep

LEMMA LaneInitInv == TreasuryInit => LaneInv
<1> SUFFICES ASSUME TreasuryInit PROVE LaneInv
  OBVIOUS
<1>1. Busy = {} /\ Resolving = {} /\ InHand("job") = {} /\ Cardinality({}) = 0
  BY FS_EmptySet DEF TreasuryInit, Busy, Resolving, InHand, Asker
<1>2. LanesKept
  BY <1>1, CountsAreNumbers DEF TreasuryInit, LanesKept, Running, NoSweep, Off
<1>3. SweepShapes /\ BalancesHaveAccounts
  BY <1>1, TreasuryAssumption
     DEF TreasuryInit, SweepShapes, BalancesHaveAccounts, NoSweep, Off, Asker
<1> QED BY <1>2, <1>3, TreasuryInitInv DEF LaneInv

LEMMA LaneNextInv == LaneInv /\ [TreasuryNext]_treasuryVars => LaneInv'
BY TreasuryNextInv, SweepShapesNext, BalancesHaveAccountsNext, LanesKeptNext DEF LaneInv

LEMMA LaneInvTypes == LaneInv => TreasuryTypeOK
BY DEF LaneInv, TreasuryInv, TreasuryShapes, AccountsAreHeld, SweepShapes, BalancesHaveAccounts,
       LanesKept, TreasuryTypeOK

(* The tables stay well formed, the treasury never runs more jobs than it   *)
(* has lanes (worker.ts), and the prune sweep's pool is never wider than    *)
(* its concurrency (pool.ts).                                               *)
THEOREM TreasuryTypes == TreasurySpec => []TreasuryTypeOK
BY LaneInvTypes, LaneInitInv, LaneNextInv, PTL DEF TreasurySpec

-----------------------------------------------------------------------------

(* A nonempty set of numbers up to a bound has a greatest element.          *)
LEMMA GreatestOf ==
  ASSUME NEW n \in Nat, NEW T \in SUBSET (0..n), T # {}
  PROVE  \E m \in T : \A r \in T : r <= m
<1> DEFINE R == OpToRel(<, Nat)
           D == {n - r : r \in T}
<1>1. IsWellFoundedOn(R, Nat)
  BY NatLessThanWellFounded
<1>2. \A x, y \in Nat : x < y => <<x, y>> \in R
  BY DEF OpToRel
<1>3. \A r \in T : r \in Nat /\ n - r \in Nat
  OBVIOUS
<1>4. D \subseteq Nat /\ D # {}
  BY <1>3
<1> HIDE DEF R
<1>5. PICK d \in D : \A y \in D : <<y, d>> \notin R
  <2> HIDE DEF D
  <2> QED BY <1>1, <1>4, WFMin
<1>6. PICK m \in T : d = n - m
  OBVIOUS
<1>7. ASSUME NEW r \in T PROVE r <= m
  <2>1. n - r \in D
    OBVIOUS
  <2>2. ~(n - r < d)
    <3> HIDE DEF D
    <3> QED BY <1>2, <1>4, <1>5, <2>1
  <2> QED BY <1>3, <1>6, <2>2
<1> QED BY <1>7

-----------------------------------------------------------------------------
(* What a statement has locked is below all that it has yet to lock.        *)
HeldBelow == \A w \in Writers : \A h \in held[w], r \in statement[w] : h < r

(* The row a statement waits for is the least it has yet to lock.           *)
AsksForLeast ==
  \A w \in Writers : wanted[w] # None =>
    wanted[w] \in statement[w] /\ \A q \in statement[w] : wanted[w] <= q

UpsertInv == UpsertTypeOK /\ HeldBelow /\ AsksForLeast

-----------------------------------------------------------------------------
(* The slice of a sorted batch is part of it.                               *)
LEMMA ChunkOfBatch ==
  ASSUME NEW rows \in SUBSET PlayerRows
  PROVE  NextChunk(rows) \in SUBSET PlayerRows
BY DEF NextChunk

-----------------------------------------------------------------------------
(* Nothing is held or wanted at the start.                                  *)
LEMMA UpsertInitInv == UpsertInit => UpsertInv
BY DEF UpsertInit, UpsertInv, UpsertTypeOK, HeldBelow, AsksForLeast

LEMMA UpsertNextInv == UpsertInv /\ [UpsertNext]_upsertVars => UpsertInv'
<1> SUFFICES ASSUME UpsertInv, [UpsertNext]_upsertVars
             PROVE  UpsertInv'
  OBVIOUS
<1> USE DEF UpsertInv
<1>0. None \notin PlayerRows
  BY DEF None, PlayerRows
<1>1. ASSUME NEW w \in Writers, NEW rows \in SUBSET PlayerRows, UpsertPlayers(w, rows)
      PROVE  UpsertInv'
  BY <1>1 DEF UpsertPlayers, UpsertTypeOK, HeldBelow, AsksForLeast
<1>2. ASSUME NEW w \in Writers, BeginStatement(w)
      PROVE  UpsertInv'
  <2>1. NextChunk(batch[w]) \in SUBSET PlayerRows
    BY ChunkOfBatch DEF UpsertTypeOK
  <2>2. UpsertTypeOK'
    BY <1>2, <2>1 DEF BeginStatement, UpsertTypeOK
  <2>3. held[w] = {} /\ wanted[w] = None
    BY <1>2 DEF BeginStatement, Committed, AsksForLeast
  <2>4. HeldBelow' /\ AsksForLeast'
    BY <1>2, <2>3 DEF BeginStatement, UpsertTypeOK, HeldBelow, AsksForLeast
  <2> QED BY <2>2, <2>4
<1>3. ASSUME NEW w \in Writers, NEW r \in PlayerRows, AskForRow(w, r)
      PROVE  UpsertInv'
  BY <1>3 DEF AskForRow, InOrder, UpsertTypeOK, HeldBelow, AsksForLeast
<1>4. ASSUME NEW w \in Writers, LockRow(w)
      PROVE  UpsertInv'
  <2>1. wanted[w] \in PlayerRows
    BY <1>4 DEF LockRow, UpsertTypeOK
  <2>2. UpsertTypeOK'
    BY <1>4, <2>1 DEF LockRow, UpsertTypeOK
  <2>3. \A r \in statement[w] \ {wanted[w]} : wanted[w] < r
    BY <1>4, <2>1 DEF LockRow, AsksForLeast, UpsertTypeOK, PlayerRows
  <2>4. HeldBelow'
    BY <1>4, <2>3 DEF LockRow, UpsertTypeOK, HeldBelow
  <2>5. AsksForLeast'
    BY <1>4 DEF LockRow, UpsertTypeOK, AsksForLeast
  <2> QED BY <2>2, <2>4, <2>5
<1>5. ASSUME NEW w \in Writers, Commit(w)
      PROVE  UpsertInv'
  BY <1>5 DEF Commit, UpsertTypeOK, HeldBelow, AsksForLeast
<1>6. ASSUME NEW w \in Writers, RollBack(w)
      PROVE  UpsertInv'
  BY <1>6 DEF RollBack, UpsertTypeOK, HeldBelow, AsksForLeast
<1>7. CASE UNCHANGED upsertVars
  BY <1>7 DEF upsertVars, UpsertTypeOK, HeldBelow, AsksForLeast
<1> QED BY <1>1, <1>2, <1>3, <1>4, <1>5, <1>6, <1>7 DEF UpsertNext

(* In such a state a ring would have no greatest row that is waited for.    *)
LEMMA RingsAreBroken == UpsertInv => NoDeadlock
<1> SUFFICES ASSUME UpsertInv, NEW ring \in (SUBSET Writers) \ {{}},
                    \A w \in ring : \E v \in ring : WaitsFor(w, v)
             PROVE  FALSE
  BY DEF NoDeadlock
<1> DEFINE T == {wanted[w] : w \in ring}
<1>1. T \in SUBSET PlayerRows /\ T # {}
  <2>1. \A w \in ring : wanted[w] \in PlayerRows
    BY DEF UpsertInv, UpsertTypeOK, WaitsFor
  <2> QED BY <2>1
<1>2. PICK m \in T : \A r \in T : r <= m
  <2> HIDE DEF T
  <2>1. T \in SUBSET (0..PlayerCount) /\ PlayerCount \in Nat
    BY <1>1, UpsertAssumption DEF PlayerRows
  <2> QED BY <1>1, <2>1, GreatestOf
<1>3. PICK w \in ring : m = wanted[w]
  OBVIOUS
<1>4. PICK v \in ring : WaitsFor(w, v)
  OBVIOUS
<1>5. wanted[v] \in T /\ wanted[v] # None
  BY DEF WaitsFor
<1>6. wanted[w] < wanted[v]
  BY <1>4, <1>5 DEF UpsertInv, WaitsFor, HeldBelow, AsksForLeast
<1> QED
  <2>1. m \in PlayerRows /\ wanted[v] \in PlayerRows
    <3> HIDE DEF T
    <3> QED BY <1>1, <1>5
  <2>2. wanted[v] <= m
    <3> HIDE DEF T
    <3> QED BY <1>2, <1>5
  <2> QED BY <1>3, <1>6, <2>1, <2>2 DEF PlayerRows

-----------------------------------------------------------------------------
(* The sorted upserts of sync/players.ts never wait for one another in a    *)
(* ring, whichever rows they write.                                         *)
THEOREM UpsertsDoNotDeadlock == UpsertSpec => []NoDeadlock
BY UpsertInitInv, UpsertNextInv, RingsAreBroken, PTL DEF UpsertSpec

(* And what they hold and wait for are rows of players.                     *)
THEOREM UpsertTypes == UpsertSpec => []UpsertTypeOK
<1>1. UpsertInv => UpsertTypeOK
  BY DEF UpsertInv
<1> QED BY <1>1, UpsertInitInv, UpsertNextInv, PTL DEF UpsertSpec

-----------------------------------------------------------------------------
Total == Cardinality(played)

(* The days are days, and the rows are stored as pairs.                     *)
WindowShapes ==
  /\ PlaytimeTypeOK /\ played # {}
  /\ lifetime = NoFigure <=> lastSeen = NoFigure
  /\ detailJob # "none" => lifetime # NoFigure

(* The roster is behind, never ahead, and says when the player was seen     *)
(* last once it is not behind.                                              *)
RosterIsBehind ==
  lifetime # NoFigure =>
    lifetime <= Total /\ (lifetime = Total => \A d \in played : d <= lastSeen)

(* A figure, fetched or stored, lacks no more than was played since.        *)
FetchedIsBounded ==
  detailJob = "running" => TrueFigure <= fetched + (Total - lifetime)

FigureIsBounded ==
  figure # NoFigure =>
    lifetimeAtFetch <= Total /\ TrueFigure <= figure + (Total - lifetimeAtFetch)

PlaytimeInv == WindowShapes /\ RosterIsBehind /\ FetchedIsBounded /\ FigureIsBounded

-----------------------------------------------------------------------------
LEMMA SetsOfDays ==
  ASSUME NEW S \in SUBSET Days
  PROVE  IsFiniteSet(S) /\ Cardinality(S) \in Nat
<1>1. IsFiniteSet(Days)
  BY PlaytimeAssumption, FS_Interval DEF Days
<1> QED BY <1>1, FS_Subset, FS_CardinalityType

(* The counts of days are numbers.                                          *)
LEMMA CountsOfDays ==
  ASSUME PlaytimeTypeOK
  PROVE  Total \in Nat /\ TrueFigure \in Nat
<1>1. {d \in played : InWindow(d)} \in SUBSET Days
  BY DEF PlaytimeTypeOK
<1> QED BY <1>1, SetsOfDays DEF PlaytimeTypeOK, Total, TrueFigure

-----------------------------------------------------------------------------
(* Nothing is stored at the start.                                          *)
LEMMA PlaytimeInitInv == PlaytimeInit => PlaytimeInv
BY PlaytimeAssumption
   DEF PlaytimeInit, PlaytimeInv, WindowShapes, PlaytimeTypeOK, RosterIsBehind, FetchedIsBounded,
       FigureIsBounded, Days

(* A day of play adds one to both counts, ...                               *)
LEMMA PlayCounts ==
  ASSUME PlaytimeTypeOK, Play
  PROVE  PlaytimeTypeOK' /\ Total' = Total + 1 /\ TrueFigure' = TrueFigure + 1
<1>1. today \notin played /\ played' = played \cup {today} /\ today' = today /\ today \in Nat
  BY DEF Play, PlaytimeTypeOK, Days
<1>2. IsFiniteSet(played)
  BY SetsOfDays DEF PlaytimeTypeOK
<1>3. Total' = Total + 1
  BY <1>1, <1>2, FS_AddElement DEF Total
<1> DEFINE W == {d \in played : InWindow(d)}
<1>4. IsFiniteSet(W) /\ today \notin W
  BY <1>1, <1>2, FS_Subset
<1>5. {d \in played : InWindow(d)}' = W \cup {today}
  BY <1>1, PlaytimeAssumption DEF InWindow
<1>6. TrueFigure' = TrueFigure + 1
  BY <1>4, <1>5, FS_AddElement DEF TrueFigure
<1>7. PlaytimeTypeOK'
  BY <1>1 DEF Play, PlaytimeTypeOK, rosterRow, windowRow
<1> QED BY <1>3, <1>6, <1>7

(* ... and a day that passes takes from the window's only.                  *)
LEMMA DaysPass ==
  ASSUME PlaytimeTypeOK, NextDay
  PROVE  PlaytimeTypeOK' /\ Total' = Total /\ TrueFigure' <= TrueFigure /\ TrueFigure' \in Nat
<1>1. played' = played /\ today' = today + 1 /\ today \in Nat /\ Window \in Nat
  BY PlaytimeAssumption DEF NextDay, PlaytimeTypeOK, Days
<1>2. played \in SUBSET Nat
  BY DEF PlaytimeTypeOK, Days
<1>3. {d \in played : InWindow(d)}' \subseteq {d \in played : InWindow(d)}
  <2>1. {d \in played : InWindow(d)}' = {d \in played : d > today + 1 - Window}
    BY <1>1 DEF InWindow
  <2>2. {d \in played : InWindow(d)} = {d \in played : d > today - Window}
    BY DEF InWindow
  <2>3. \A d \in played : d > today + 1 - Window => d > today - Window
    BY <1>1, <1>2
  <2> QED BY <2>1, <2>2, <2>3
<1>4. IsFiniteSet({d \in played : InWindow(d)})
  BY SetsOfDays, FS_Subset DEF PlaytimeTypeOK
<1>5. TrueFigure' <= TrueFigure /\ TrueFigure' \in Nat
  BY <1>3, <1>4, FS_Subset, FS_CardinalityType DEF TrueFigure
<1>6. PlaytimeTypeOK'
  BY <1>1, PlaytimeAssumption DEF NextDay, PlaytimeTypeOK, rosterRow, windowRow, Days
<1> QED BY <1>1, <1>5, <1>6 DEF Total

LEMMA PlaytimeNextInv == PlaytimeInv /\ [PlaytimeNext]_playtimeVars => PlaytimeInv'
<1> SUFFICES ASSUME PlaytimeInv, [PlaytimeNext]_playtimeVars
             PROVE  PlaytimeInv'
  OBVIOUS
<1>0. PlaytimeTypeOK /\ Total \in Nat /\ TrueFigure \in Nat
  BY CountsOfDays DEF PlaytimeInv, WindowShapes
<1>n. NoFigure \notin Int
  BY PlaytimeAssumption
<1>1. CASE Play
  <2>1. Total' = Total + 1 /\ TrueFigure' = TrueFigure + 1 /\ PlaytimeTypeOK'
    BY <1>0, <1>1, PlayCounts
  <2>2. UNCHANGED <<rosterRow, windowRow, detailJob, fetched>> /\ played' # {}
    BY <1>1 DEF Play
  <2> QED BY <1>0, <1>n, <2>1, <2>2
          DEF PlaytimeInv, WindowShapes, PlaytimeTypeOK, RosterIsBehind, FetchedIsBounded,
              FigureIsBounded, rosterRow, windowRow
<1>2. CASE NextDay
  <2>1. Total' = Total /\ TrueFigure' <= TrueFigure /\ TrueFigure' \in Nat /\ PlaytimeTypeOK'
    BY <1>0, <1>2, DaysPass
  <2>2. UNCHANGED <<played, rosterRow, windowRow, detailJob, fetched>>
    BY <1>2 DEF NextDay
  <2> QED BY <1>0, <1>n, <2>1, <2>2
          DEF PlaytimeInv, WindowShapes, PlaytimeTypeOK, RosterIsBehind, FetchedIsBounded,
              FigureIsBounded, rosterRow, windowRow
<1> DEFINE Counts == Total' = Total /\ TrueFigure' = TrueFigure
<1>c. ASSUME UNCHANGED <<today, played>> PROVE Counts
  BY <1>c DEF Total, TrueFigure, InWindow
<1>3. CASE RosterPass
  <2>1. LastPlayed \in played /\ \A d \in played : d <= LastPlayed
    BY <1>0, GreatestOf, PlaytimeAssumption
       DEF LastPlayed, PlaytimeInv, WindowShapes, PlaytimeTypeOK, Days
  <2>2. Counts
    BY <1>3, <1>c DEF RosterPass
  <2>3. LastPlayed \in Nat
    BY <1>0, <2>1 DEF PlaytimeTypeOK, Days
  <2>4. /\ lifetime' = Total /\ lastSeen' = LastPlayed /\ detailJob' # "running"
        /\ detailJob' \in {"none", "pending"} /\ UNCHANGED <<today, played, windowRow, fetched, playtimeCuts>>
    BY <1>0, <1>3 DEF RosterPass, Total, PlaytimeTypeOK
  <2> HIDE DEF Counts
  <2>5. WindowShapes' /\ RosterIsBehind'
    BY <1>0, <1>n, <2>1, <2>2, <2>3, <2>4
       DEF Counts, PlaytimeInv, WindowShapes, PlaytimeTypeOK, RosterIsBehind, windowRow
  <2>6. FetchedIsBounded' /\ FigureIsBounded'
    BY <2>2, <2>4 DEF Counts, PlaytimeInv, FetchedIsBounded, FigureIsBounded, windowRow
  <2> QED BY <2>5, <2>6 DEF PlaytimeInv
<1>4. CASE FetchFigure
  <2>1. Counts
    BY <1>4, <1>c DEF FetchFigure
  <2> QED BY <1>0, <1>n, <1>4, <2>1
          DEF FetchFigure, PlaytimeInv, WindowShapes, PlaytimeTypeOK, RosterIsBehind,
              FetchedIsBounded, FigureIsBounded, rosterRow, windowRow
<1>5. CASE StoreFigure
  <2>1. Counts
    BY <1>5, <1>c DEF StoreFigure
  <2> QED BY <1>0, <1>n, <1>5, <2>1
          DEF StoreFigure, PlaytimeInv, WindowShapes, PlaytimeTypeOK, RosterIsBehind,
              FetchedIsBounded, FigureIsBounded, rosterRow
<1>6. CASE FailFetch
  <2>1. Counts
    BY <1>6, <1>c DEF FailFetch
  <2> QED BY <1>0, <1>n, <1>6, <2>1
          DEF FailFetch, PlaytimeInv, WindowShapes, PlaytimeTypeOK, RosterIsBehind,
              FetchedIsBounded, FigureIsBounded, rosterRow, windowRow
<1>7. CASE UNCHANGED playtimeVars
  <2>1. Counts
    BY <1>7, <1>c DEF playtimeVars
  <2> QED BY <1>0, <1>n, <1>7, <2>1
          DEF playtimeVars, PlaytimeInv, WindowShapes, PlaytimeTypeOK, RosterIsBehind,
              FetchedIsBounded, FigureIsBounded, rosterRow, windowRow
<1> QED BY <1>1, <1>2, <1>3, <1>4, <1>5, <1>6, <1>7 DEF PlaytimeNext

(* A reported figure that lacks play is one the roster will have fetched.   *)
LEMMA UnderstatedIsNoticed == PlaytimeInv => NeverUnderstated
<1> SUFFICES ASSUME PlaytimeInv, Reported # NoFigure, Reported < TrueFigure, lifetime = Total
             PROVE  NeedsFetch(lastSeen, lifetime)
  BY DEF NeverUnderstated, Total
<1>0. PlaytimeTypeOK /\ Total \in Nat /\ TrueFigure \in Nat /\ NoFigure \notin Int
  BY CountsOfDays, PlaytimeAssumption DEF PlaytimeInv, WindowShapes
<1>1. lastSeen \in Nat /\ \A d \in played : d <= lastSeen
  BY <1>0 DEF PlaytimeInv, WindowShapes, RosterIsBehind, PlaytimeTypeOK
<1>2. ~InferredZero
  <2> SUFFICES ASSUME InferredZero PROVE FALSE
    OBVIOUS
  <2>1. lastSeen < today - Window /\ today \in Nat /\ Window \in Nat
    BY <1>0, PlaytimeAssumption DEF InferredZero, PlaytimeTypeOK, Days
  <2>2. \A d \in played : d \in Nat /\ d <= lastSeen
    BY <1>0, <1>1 DEF PlaytimeTypeOK, Days
  <2>3. {d \in played : InWindow(d)} = {}
    BY <1>1, <2>1, <2>2 DEF InWindow
  <2>4. TrueFigure = 0
    BY <2>3, FS_EmptySet DEF TrueFigure
  <2> QED BY <2>4 DEF Reported
<1>3. lastSeen >= today - Window
  BY <1>0, <1>1, <1>2, PlaytimeAssumption DEF InferredZero, PlaytimeTypeOK, Days
<1>4. figure = NoFigure \/ lifetimeAtFetch # lifetime
  BY <1>0, <1>2 DEF Reported, PlaytimeInv, FigureIsBounded, PlaytimeTypeOK
<1> QED BY <1>3, <1>4 DEF NeedsFetch

-----------------------------------------------------------------------------
(* The two deductions of handlers/analytics.ts save requests, never play.   *)
THEOREM PlaytimeIsNeverUnderstated == PlaytimeSpec => []NeverUnderstated
BY PlaytimeInitInv, PlaytimeNextInv, UnderstatedIsNoticed, PTL DEF PlaytimeSpec

-----------------------------------------------------------------------------
(* A step of the composition is a step of one part, and of the others none. *)
LEMMA PartsStep ==
  [Next]_vars => /\ [TreasuryNext]_treasuryVars /\ [PlaytimeNext]_playtimeVars
                 /\ [UpsertNext]_upsertVars
BY DEF Next, vars

LEMMA PartsHold ==
  Spec => [](TreasuryInv /\ LaneInv /\ PlaytimeInv /\ UpsertInv)
<1> DEFINE Inv == TreasuryInv /\ LaneInv /\ PlaytimeInv /\ UpsertInv
<1>1. Init => Inv
  BY TreasuryInitInv, LaneInitInv, PlaytimeInitInv, UpsertInitInv DEF Init
<1>2. Inv /\ [Next]_vars => Inv'
  BY PartsStep, TreasuryNextInv, LaneNextInv, PlaytimeNextInv, UpsertNextInv
<1> QED BY <1>1, <1>2, PTL DEF Spec

(* Every table, job and lock of the sweeps, the playtime and the upserts    *)
(* keeps its type, and the treasury's lanes and pools their sizes.          *)
THEOREM SweepTypes == Spec => []TypeOK
<1>1. TreasuryInv /\ LaneInv /\ PlaytimeInv /\ UpsertInv => TypeOK
  BY LaneInvTypes DEF TypeOK, PlaytimeInv, WindowShapes, UpsertInv
<1> QED BY <1>1, PartsHold, PTL

(* A behaviour of the composition is one of each part, so that in it, too,  *)
(* nobody drops out of the prune list, playtime is not understated and the  *)
(* batches of upserts do not wait for each other in a ring                  *)
(* (handlers/treasury.ts, handlers/analytics.ts, sync/players.ts).          *)
THEOREM SweepsStayHonest == Spec => [](PruneListIsHonest /\ NeverUnderstated /\ NoDeadlock)
<1>1. Init => TreasuryInit /\ PlaytimeInit /\ UpsertInit
  BY DEF Init
<1> QED
  BY <1>1, PartsStep, ThePruneListIsHonest, PlaytimeIsNeverUnderstated, UpsertsDoNotDeadlock, PTL
     DEF Spec, TreasurySpec, PlaytimeSpec, UpsertSpec
=============================================================================
