------------------------ MODULE PunishmentCrawlProofs ------------------------
(***************************************************************************)
(* Theorems about PunishmentCrawl for any number of records, removals,     *)
(* pages, cuts and attempts: what a full crawl withdraws is gone, and the  *)
(* probe is content with an incomplete mirror only when there is one of    *)
(* the three excuses.                                                      *)
(***************************************************************************)
EXTENDS PunishmentCrawl, FiniteSetTheorems, TLAPS

(* What the invariant speaks of.                                            *)
Running == job.status = "running"
Reading == phase = "reading"
Walked  == phase \in {"walked", "withdrawn", "committed"}
Full    == job.mode = "full"
Known(r) == stored[r] # "absent"

(* What the attempt has to reach: what was there when it began, and         *)
(* whatever is older than a record it has seen.                             *)
Covered(r) == r \in atStart \/ \E q \in seen : r < q

(* The removals left only fall, from the probe over the start of the        *)
(* attempt to now; records are published in order.                          *)
FeedInv ==
  /\ job.status # "none" => removals <= observed
  /\ Running => removals <= begun /\ begun <= observed
  /\ Running <=> phase # "idle"
  /\ \A r \in upstream : r <= born
  /\ \A r \in Records : r > born => stored[r] = "absent"

(* A running attempt: what it saw is listed, and of what was published      *)
(* since it began nothing but what it saw; a full one ends with no other    *)
(* record listed.                                                           *)
AttemptInv ==
  Running =>
    /\ \A r \in seen : stored[r] = "listed"
    /\ \A r \in upstream \ atStart : /\ stored[r] = "listed" => r \in seen
                                     /\ stored[r] # "withdrawn"
    /\ Reading /\ page = 1 => seen = {}
    /\ Full /\ phase \in {"withdrawn", "committed"} =>
         \A r \in Records : stored[r] = "listed" => r \in seen

(* As long as nothing is removed the pages only move down: what is covered  *)
(* and lies above the next page has been seen, and what has been seen lies  *)
(* no deeper than the pages read and the arrivals since.                    *)
SteadyInv ==
  Running /\ ~RemovedSince(begun) =>
    /\ atStart \subseteq upstream /\ seen \subseteq upstream
    /\ Reading =>
         /\ \A r \in upstream : Covered(r) /\ Rank(r) <= (page - 1) * PageSize => r \in seen
         /\ \A r \in seen : Rank(r) <= (page - 1) * PageSize + arrivals
    /\ Walked /\ Full => \A r \in upstream : Covered(r) => r \in seen

(* The count a job carries, if nothing was removed since the probe.         *)
CountInv ==
  job.status # "none" /\ ~RemovedSince(observed) =>
    job.count <= (IF Running THEN Cardinality(atStart) ELSE Count)

(* With no excuse the mirror is a lower part of the list: it misses only    *)
(* records newer than all it knows, but for those the attempt brought in;   *)
(* and it knows at least as many as the watermark says.                     *)
LowerPart ==
  \A r, q \in upstream : r < q /\ Known(q) /\ ~(Running /\ q \in seen) => Known(r)

ExcuseInv ==
  excuses = {} =>
    /\ job.status # "none" => ~RemovedSince(observed)
    /\ Running => ~RemovedSince(begun)
    /\ \A r \in Records : /\ stored[r] = "listed" => r \in upstream
                          /\ stored[r] = "withdrawn" => r \notin upstream
    /\ LowerPart
    /\ Running /\ Reading /\ ~Full => arrivals < PageSize
    /\ Running /\ Walked => \A r \in upstream : Covered(r) => Known(r)
    /\ watermark # NoCount => watermark <= Cardinality({r \in upstream : Known(r)})

CrawlInv == TypeOK /\ FeedInv /\ AttemptInv /\ SteadyInv /\ CountInv /\ ExcuseInv

-----------------------------------------------------------------------------
(* A record and what is newer: its place in the list.                       *)
Above(U, r) == {q \in U : q >= r}

LEMMA ListIsFinite ==
  ASSUME NEW U \in SUBSET Records
  PROVE  /\ IsFiniteSet(U) /\ Cardinality(U) \in Nat /\ Cardinality(U) <= LastRecord
         /\ \A T \in SUBSET U : /\ IsFiniteSet(T) /\ Cardinality(T) \in Nat
                                /\ Cardinality(T) <= Cardinality(U)
                                /\ Cardinality(T) = Cardinality(U) => T = U
<1>1. LastRecord \in Nat
  BY CrawlAssumption
<1>2. IsFiniteSet(1..LastRecord) /\ Cardinality(1..LastRecord) = LastRecord
  <2>1. /\ IsFiniteSet(1..LastRecord)
        /\ Cardinality(1..LastRecord) = IF 1 > LastRecord THEN 0 ELSE LastRecord - 1 + 1
    BY <1>1, FS_Interval
  <2> QED BY <1>1, <2>1
<1>3. IsFiniteSet(U) /\ Cardinality(U) <= LastRecord
  <2>1. U \in SUBSET (1..LastRecord)
    BY DEF Records
  <2> QED BY <1>2, <2>1, FS_Subset
<1>4. Cardinality(U) \in Nat
  BY <1>3, FS_CardinalityType
<1>5. ASSUME NEW T \in SUBSET U
      PROVE  /\ IsFiniteSet(T) /\ Cardinality(T) \in Nat
             /\ Cardinality(T) <= Cardinality(U)
             /\ Cardinality(T) = Cardinality(U) => T = U
  <2>1. IsFiniteSet(T) /\ Cardinality(T) <= Cardinality(U)
        /\ (Cardinality(U) = Cardinality(T) => U = T)
    BY <1>3, FS_Subset
  <2>2. Cardinality(T) \in Nat
    BY <2>1, FS_CardinalityType
  <2> QED BY <2>1, <2>2
<1> QED BY <1>3, <1>4, <1>5

(* The newest record has rank 1, an older record the greater rank.          *)
LEMMA PlacesAreOrdered ==
  ASSUME NEW U \in SUBSET Records, NEW r \in U
  PROVE  /\ Cardinality(Above(U, r)) \in 1..Cardinality(U)
         /\ \A q \in U : r < q => Cardinality(Above(U, q)) < Cardinality(Above(U, r))
<1>1. \A q \in U : q \in Int
  BY DEF Records
<1>2. Cardinality(U) \in Nat /\ Above(U, r) \in SUBSET U
  BY ListIsFinite DEF Above
<1>3. Cardinality(Above(U, r)) \in Nat /\ Cardinality(Above(U, r)) <= Cardinality(U)
  BY <1>2, ListIsFinite
<1>4. r \in Above(U, r)
  BY <1>1 DEF Above
<1>5. Cardinality(Above(U, r)) # 0
  BY <1>2, <1>4, ListIsFinite, FS_EmptySet
<1>6. ASSUME NEW q \in U, r < q
      PROVE  Cardinality(Above(U, q)) < Cardinality(Above(U, r))
  <2>1. Above(U, r) \in SUBSET Records
    BY <1>2
  <2>2. Above(U, q) \in SUBSET Above(U, r) /\ r \notin Above(U, q)
    BY <1>1, <1>6 DEF Above
  <2>3. Above(U, q) # Above(U, r)
    BY <1>4, <2>2
  <2>4. /\ Cardinality(Above(U, q)) \in Nat
        /\ Cardinality(Above(U, q)) <= Cardinality(Above(U, r))
        /\ Cardinality(Above(U, q)) # Cardinality(Above(U, r))
    BY <2>1, <2>2, <2>3, ListIsFinite
  <2> QED BY <1>3, <2>4
<1> QED BY <1>2, <1>3, <1>5, <1>6

(* Every place in the list is taken.                                        *)
LEMMA PlacesAreTaken ==
  ASSUME NEW U \in SUBSET Records, NEW n \in 1..Cardinality(U)
  PROVE  \E r \in U : Cardinality(Above(U, r)) = n
<1> DEFINE c == Cardinality(U)
           f == [r \in U |-> Cardinality(Above(U, r))]
<1>1. c \in Nat /\ IsFiniteSet(U)
  BY ListIsFinite
<1>2. IsFiniteSet(1..c) /\ Cardinality(1..c) = c
  <2>1. /\ IsFiniteSet(1..c)
        /\ Cardinality(1..c) = IF 1 > c THEN 0 ELSE c - 1 + 1
    BY <1>1, FS_Interval
  <2> QED BY <1>1, <2>1
<1>3. f \in [U -> 1..c]
  BY PlacesAreOrdered
<1>4. ASSUME NEW r \in U, NEW q \in U, f[r] = f[q] PROVE r = q
  <2>1. r \in Int /\ q \in Int
    BY DEF Records
  <2>2. /\ r < q => Cardinality(Above(U, q)) < Cardinality(Above(U, r))
        /\ q < r => Cardinality(Above(U, r)) < Cardinality(Above(U, q))
        /\ Cardinality(Above(U, r)) \in Int /\ Cardinality(Above(U, q)) \in Int
    BY <1>1, PlacesAreOrdered
  <2> QED BY <1>4, <2>1, <2>2
<1>5. f \in Injection(U, 1..c)
  <2> HIDE DEF f, c
  <2>1. IsInjective(f)
    BY <1>3, <1>4 DEF IsInjective
  <2> QED BY <1>3, <2>1 DEF Injection
<1>6. f \in Surjection(U, 1..c)
  BY <1>2, <1>5, FS_Injection
<1>7. PICK r \in U : f[r] = n
  BY <1>6 DEF Surjection
<1> QED BY <1>7

(* A newer record moves every other down by one place.                      *)
LEMMA PlacesMoveDown ==
  ASSUME NEW U \in SUBSET Records, NEW x \in Records, \A r \in U : r < x
  PROVE  /\ Cardinality(U \cup {x}) = Cardinality(U) + 1
         /\ \A r \in U : Cardinality(Above(U \cup {x}, r)) = Cardinality(Above(U, r)) + 1
<1>1. \A r \in U \cup {x} : r \in Int
  BY DEF Records
<1>2. x \notin U
  BY <1>1
<1>3. Cardinality(U \cup {x}) = Cardinality(U) + 1
  BY <1>2, ListIsFinite, FS_AddElement
<1>4. ASSUME NEW r \in U
      PROVE  Cardinality(Above(U \cup {x}, r)) = Cardinality(Above(U, r)) + 1
  <2>1. Above(U \cup {x}, r) = Above(U, r) \cup {x}
    BY <1>1 DEF Above
  <2>2. Above(U, r) \in SUBSET U /\ x \notin Above(U, r)
    BY <1>2 DEF Above
  <2>3. IsFiniteSet(Above(U, r))
    BY <2>2, ListIsFinite
  <2>4. Cardinality(Above(U, r) \cup {x}) = Cardinality(Above(U, r)) + 1
    BY <2>2, <2>3, FS_AddElement
  <2> QED BY <2>1, <2>4
<1> QED BY <1>3, <1>4

(* Pages lie end to end.                                                    *)
LEMMA PagesInARow ==
  ASSUME NEW n \in 1..MaxPages
  PROVE  /\ PageSize \in Nat /\ PageSize >= 1
         /\ (n - 1) * PageSize \in Nat
         /\ n * PageSize = (n - 1) * PageSize + PageSize
<1>1. PageSize \in Nat /\ PageSize >= 1 /\ MaxPages \in Nat
  BY CrawlAssumption
<1>2. n \in Nat /\ n - 1 \in Nat
  BY <1>1
<1>3. ASSUME NEW k \in Nat, NEW p \in Nat
      PROVE  k * p \in Nat /\ (k + 1) * p = k * p + p
  BY SMT
<1>4. /\ (n - 1) * PageSize \in Nat
      /\ (n - 1 + 1) * PageSize = (n - 1) * PageSize + PageSize
  BY <1>1, <1>2, <1>3
<1>5. n - 1 + 1 = n
  BY <1>2
<1> QED BY <1>1, <1>4, <1>5

(* What a page holds: it is empty only past the end of the list, and only   *)
(* a page before the safety rail is followed by another.                    *)
LEMMA PageHolds ==
  ASSUME upstream \in SUBSET Records, NEW n \in 1..MaxPages
  PROVE  /\ Count \in Nat
         /\ Page(n) \in SUBSET upstream
         /\ \A r \in upstream : Rank(r) \in 1..Count
         /\ \A r, q \in upstream : r < q => Rank(q) < Rank(r)
         /\ \A k \in 1..Count : \E r \in upstream : Rank(r) = k
         /\ Page(n) = {} => Count <= (n - 1) * PageSize
         /\ MorePages(n) => n + 1 \in 1..MaxPages
<1> DEFINE p == (n - 1) * PageSize
<1>1. /\ PageSize \in Nat /\ PageSize >= 1 /\ p \in Nat
      /\ n * PageSize = p + PageSize
  BY PagesInARow
<1> HIDE DEF p
<1>2. Count \in Nat /\ Count <= LastRecord
  BY ListIsFinite DEF Count
<1>3. \A r : Rank(r) = Cardinality(Above(upstream, r))
  BY DEF Rank, Above
<1>4. Page(n) \in SUBSET upstream
  BY DEF Page
<1>5. \A r \in upstream : Rank(r) \in 1..Count
  BY <1>3, PlacesAreOrdered DEF Count
<1>6. \A r, q \in upstream : r < q => Rank(q) < Rank(r)
  BY <1>3, PlacesAreOrdered
<1>7. \A k \in 1..Count : \E r \in upstream : Rank(r) = k
  BY <1>3, PlacesAreTaken DEF Count
<1>8. ASSUME Page(n) = {}, ~(Count <= p) PROVE FALSE
  <2>1. p + 1 \in 1..Count
    BY <1>1, <1>2, <1>8
  <2>2. PICK r \in upstream : Rank(r) = p + 1
    BY <1>7, <2>1
  <2>3. p < Rank(r) /\ Rank(r) <= n * PageSize
    BY <1>1, <2>2
  <2>4. r \in Page(n)
    BY <2>3 DEF Page, p
  <2> QED BY <1>8, <2>4
<1>9. ASSUME MorePages(n) PROVE n + 1 \in 1..MaxPages
  <2>1. MaxPages \in Nat /\ n \in Nat
    BY CrawlAssumption
  <2>2. LastRecord \in Nat /\ LastRecord <= PageSize * MaxPages
    BY CrawlAssumption
  <2>3. Count > n * PageSize
    BY <1>9 DEF MorePages
  <2>4. n # MaxPages
    <3>1. SUFFICES ASSUME n = MaxPages PROVE FALSE
      OBVIOUS
    <3>2. PageSize * MaxPages = n * PageSize
      BY <1>1, <2>1, <3>1
    <3> QED BY <1>1, <1>2, <2>2, <2>3, <3>2
  <2> QED BY <2>1, <2>4
<1> QED BY <1>2, <1>4, <1>5, <1>6, <1>7, <1>8, <1>9 DEF p

-----------------------------------------------------------------------------
(* Every variable stays in its range: in particular no attempt reads beyond *)
(* the safety rail.                                                         *)
LEMMA CrawlTypeStep == TypeOK /\ [Next]_vars => TypeOK'
<1> SUFFICES ASSUME TypeOK, [Next]_vars PROVE TypeOK'
  OBVIOUS
<1> USE DEF TypeOK, Job, feed, crawl
<1>0. LastRecord \in Nat /\ PageSize \in Nat
  BY CrawlAssumption
<1>1. CASE Publish
  <2>1. born + 1 \in Records
    BY <1>0, <1>1 DEF Publish, Records
  <2> QED BY <1>1, <2>1 DEF Publish
<1>2. ASSUME NEW r \in Records, Remove(r) PROVE TypeOK'
  BY <1>2 DEF Remove
<1>3. CASE Probe
  <2>1. Count \in Nat
    BY ListIsFinite DEF Count
  <2> QED BY <1>3, <2>1 DEF Probe, ModeFor
<1>4. CASE StartCrawl
  <2>1. 1 \in 1..MaxPages
    BY CrawlAssumption
  <2>2. job' \in Job
    <3>1. job' = [status |-> "running", mode |-> job.mode, count |-> job.count,
                  attempts |-> job.attempts + 1]
      BY <1>4 DEF StartCrawl
    <3>2. job.mode \in {"full", "incremental"} /\ job.count \in Nat /\ job.attempts \in Nat
      OBVIOUS
    <3> QED BY <3>1, <3>2
  <2>3. /\ UNCHANGED <<feed, stored, watermark, observed, cuts, excuses>>
        /\ phase' = "reading" /\ page' = 1 /\ seen' = {}
        /\ begun' = removals /\ atStart' = upstream /\ arrivals' = 0
    BY <1>4 DEF StartCrawl
  <2> QED BY <2>1, <2>2, <2>3
<1>5. CASE ReadPage
  <2> DEFINE items == IF page <= MaxPages THEN Page(page) ELSE {}
  <2>1. items \in SUBSET Records /\ (MorePages(page) => page + 1 \in 1..MaxPages)
    BY PageHolds
  <2> HIDE DEF items
  <2>2. stored' = [r \in Records |-> IF r \in items THEN "listed" ELSE stored[r]]
        /\ seen' = seen \cup items
    BY <1>5 DEF ReadPage, items
  <2>3. /\ page' \in 1..MaxPages
        /\ phase' \in {"reading", "walked"}
    BY <1>5, <2>1 DEF ReadPage
  <2>4. UNCHANGED <<feed, watermark, job, observed, begun, atStart, cuts, arrivals, excuses>>
    BY <1>5 DEF ReadPage
  <2> QED BY <2>1, <2>2, <2>3, <2>4
<1>6. CASE Withdraw
  BY <1>6 DEF Withdraw
<1>7. CASE Commit
  BY <1>7 DEF Commit
<1>8. CASE JobDone
  BY <1>8 DEF JobDone, NoJob
<1>9. CASE CutShort
  BY <1>9 DEF CutShort, NoJob
<1>10. CASE UNCHANGED vars
  BY <1>10 DEF vars
<1> QED BY <1>1, <1>2, <1>3, <1>4, <1>5, <1>6, <1>7, <1>8, <1>9, <1>10 DEF Next, CrawlStep

LEMMA CrawlTypeInit == Init => TypeOK
<1> SUFFICES ASSUME Init PROVE TypeOK
  OBVIOUS
<1>1. /\ {LastRecord, Seed, Removals, Cuts} \subseteq Nat /\ Seed <= LastRecord
      /\ 1 \in 1..MaxPages
  BY CrawlAssumption
<1>2. 1..Seed \in SUBSET Records
  BY <1>1 DEF Records
<1> QED BY <1>1, <1>2 DEF Init, TypeOK, Job, NoJob

(* Upstream's list, the mirror, the job and its place in the list keep      *)
(* their types.                                                             *)
THEOREM CrawlTypes == Spec => []TypeOK
BY CrawlTypeInit, CrawlTypeStep, PTL DEF Spec

-----------------------------------------------------------------------------
(* Upstream moves.                                                          *)
LEMMA PublishKeeps == CrawlInv /\ Publish => FeedInv' /\ AttemptInv' /\ SteadyInv' /\ CountInv' /\ ExcuseInv'
<1> SUFFICES ASSUME CrawlInv, Publish
             PROVE  FeedInv' /\ AttemptInv' /\ SteadyInv' /\ CountInv' /\ ExcuseInv'
  OBVIOUS
<1> DEFINE x == born + 1
<1>0. TypeOK /\ FeedInv /\ AttemptInv /\ SteadyInv /\ CountInv /\ ExcuseInv
  BY DEF CrawlInv
<1>1. /\ upstream' = upstream \cup {x} /\ born' = x /\ arrivals' = arrivals + 1
      /\ removals' = removals /\ stored' = stored /\ watermark' = watermark /\ job' = job
      /\ phase' = phase /\ page' = page /\ seen' = seen /\ observed' = observed
      /\ begun' = begun /\ atStart' = atStart /\ cuts' = cuts
      /\ excuses' = {} => /\ excuses = {}
                          /\ ~(Running /\ ~Full /\ Reading /\ arrivals + 1 >= PageSize)
  BY <1>0 DEF Publish, crawl, Running, Full, Reading, TypeOK, Job
<1>2. /\ x \in Records /\ upstream \in SUBSET Records /\ born \in Nat /\ arrivals \in Nat
      /\ \A r \in Records : r \in Int
  BY <1>0, CrawlAssumption DEF Publish, TypeOK, Records
<1>3. /\ \A r \in upstream : r < x
      /\ stored[x] = "absent"
  BY <1>0, <1>2 DEF FeedInv
<1>4. /\ Count' = Count + 1
      /\ \A r \in upstream : Rank(r)' = Rank(r) + 1
  BY <1>1, <1>2, <1>3, PlacesMoveDown DEF Count, Rank, Above
<1>5. /\ Count \in Nat
      /\ \A r \in upstream : Rank(r) \in Nat
  BY <1>0, PageHolds DEF TypeOK
<1>6. PageSize \in Nat /\ (page - 1) * PageSize \in Nat
  BY <1>0, PagesInARow DEF TypeOK
<1> HIDE DEF x
<1>7. FeedInv'
  BY <1>0, <1>1, <1>2, <1>3 DEF FeedInv, Running, x
<1>8. AttemptInv'
  BY <1>0, <1>1, <1>3 DEF AttemptInv, Running, Reading, Full
<1>9. ASSUME Running, ~RemovedSince(begun)
      PROVE  /\ atStart \subseteq upstream /\ seen \subseteq upstream
             /\ x \notin atStart /\ ~\E q \in seen : x < q
  <2>1. atStart \subseteq upstream /\ seen \subseteq upstream
    BY <1>0, <1>9 DEF SteadyInv
  <2> QED BY <1>2, <1>3, <2>1
<1>10. SteadyInv'
  <2> SUFFICES ASSUME Running, ~RemovedSince(begun)
               PROVE  /\ atStart' \subseteq upstream' /\ seen' \subseteq upstream'
                      /\ Reading' =>
                           /\ \A r \in upstream' :
                                Covered(r)' /\ Rank(r)' <= (page' - 1) * PageSize => r \in seen'
                           /\ \A r \in seen' : Rank(r)' <= (page' - 1) * PageSize + arrivals'
                      /\ Walked' /\ Full' => \A r \in upstream' : Covered(r)' => r \in seen'
    BY <1>1 DEF SteadyInv, Running, RemovedSince
  <2>1. atStart' \subseteq upstream' /\ seen' \subseteq upstream'
    BY <1>1, <1>9
  <2>2. ASSUME Reading', NEW r \in upstream',
               Covered(r)', Rank(r)' <= (page' - 1) * PageSize
        PROVE  r \in seen'
    <3>1. r \in upstream /\ Covered(r)
      BY <1>1, <1>9, <2>2 DEF Covered
    <3>2. Rank(r) <= (page - 1) * PageSize
      BY <1>1, <1>4, <1>5, <1>6, <2>2, <3>1
    <3>3. Reading
      BY <1>1, <2>2 DEF Reading
    <3> QED BY <1>0, <1>1, <3>1, <3>2, <3>3 DEF SteadyInv
  <2>3. ASSUME Reading', NEW r \in seen'
        PROVE  Rank(r)' <= (page' - 1) * PageSize + arrivals'
    <3>1. Reading /\ r \in seen /\ r \in upstream
      BY <1>1, <1>9, <2>3 DEF Reading
    <3>2. Rank(r) <= (page - 1) * PageSize + arrivals
      BY <1>0, <3>1 DEF SteadyInv
    <3> QED BY <1>1, <1>2, <1>4, <1>5, <1>6, <3>1, <3>2
  <2>4. ASSUME Walked', Full', NEW r \in upstream', Covered(r)' PROVE r \in seen'
    BY <1>0, <1>1, <1>9, <2>4 DEF SteadyInv, Walked, Full, Covered
  <2> QED BY <2>1, <2>2, <2>3, <2>4
<1>11. CountInv'
  <2>1. job \in Job /\ job.count \in Nat
    BY <1>0 DEF TypeOK, Job
  <2> QED BY <1>0, <1>1, <1>4, <1>5, <2>1 DEF CountInv, Running, RemovedSince
<1>12. ExcuseInv'
  <2> SUFFICES ASSUME excuses' = {} PROVE ExcuseInv'
    BY DEF ExcuseInv
  <2>0. excuses = {} /\ ~(Running /\ ~Full /\ Reading /\ arrivals + 1 >= PageSize)
    BY <1>1
  <2>1. /\ job'.status # "none" => ~RemovedSince(observed)'
        /\ Running' => ~RemovedSince(begun)'
    BY <1>0, <1>1, <2>0 DEF ExcuseInv, RemovedSince, Running
  <2>2. \A r \in Records : /\ stored'[r] = "listed" => r \in upstream'
                           /\ stored'[r] = "withdrawn" => r \notin upstream'
    BY <1>0, <1>1, <1>3, <2>0 DEF ExcuseInv
  <2>3. LowerPart'
    BY <1>0, <1>1, <1>2, <1>3, <2>0 DEF ExcuseInv, LowerPart, Known, Running
  <2>4. (Running /\ Reading /\ ~Full => arrivals < PageSize)'
    BY <1>1, <1>2, <1>6, <2>0 DEF Running, Reading, Full
  <2>5. (Running /\ Walked => \A r \in upstream : Covered(r) => Known(r))'
    <3> SUFFICES ASSUME Running, Walked, NEW r \in upstream', Covered(r)'
                 PROVE  Known(r)'
      BY <1>1 DEF Running, Walked
    <3>1. ~RemovedSince(begun)
      BY <1>0, <2>0 DEF ExcuseInv
    <3>2. r \in upstream /\ Covered(r)
      BY <1>1, <1>9, <3>1 DEF Covered
    <3> QED BY <1>0, <1>1, <2>0, <3>2 DEF ExcuseInv, Known
  <2>6. {r \in upstream' : Known(r)'} = {r \in upstream : Known(r)}
    BY <1>1, <1>3 DEF Known
  <2>7. (watermark # NoCount => watermark <= Cardinality({r \in upstream : Known(r)}))'
    BY <1>0, <1>1, <2>0, <2>6 DEF ExcuseInv
  <2> QED BY <2>1, <2>2, <2>3, <2>4, <2>5, <2>7 DEF ExcuseInv
<1> QED BY <1>7, <1>8, <1>10, <1>11, <1>12

LEMMA RemoveKeeps ==
  ASSUME CrawlInv, NEW r \in Records, Remove(r)
  PROVE  FeedInv' /\ AttemptInv' /\ SteadyInv' /\ CountInv' /\ ExcuseInv'
<1>0. TypeOK /\ FeedInv /\ AttemptInv
  BY DEF CrawlInv
<1>1. /\ upstream' = upstream \ {r} /\ born' = born /\ removals' = removals - 1
      /\ stored' = stored /\ job' = job /\ phase' = phase /\ page' = page /\ seen' = seen
      /\ observed' = observed /\ begun' = begun /\ atStart' = atStart
      /\ excuses' # {}
  BY DEF Remove, crawl
<1>2. removals \in Nat /\ observed \in Nat /\ begun \in Nat
  BY <1>0 DEF TypeOK
<1>3. FeedInv'
  BY <1>0, <1>1, <1>2 DEF FeedInv, Running
<1>4. AttemptInv'
  BY <1>0, <1>1 DEF AttemptInv, Running, Reading, Full
<1>5. SteadyInv'
  BY <1>0, <1>1, <1>2 DEF SteadyInv, FeedInv, Running, RemovedSince
<1>6. CountInv'
  BY <1>0, <1>1, <1>2 DEF CountInv, FeedInv, RemovedSince
<1>7. ExcuseInv'
  BY <1>1 DEF ExcuseInv
<1> QED BY <1>3, <1>4, <1>5, <1>6, <1>7

-----------------------------------------------------------------------------
(* The probe queues a crawl, and an attempt begins at the first page.       *)
LEMMA ProbeKeeps == CrawlInv /\ Probe => FeedInv' /\ AttemptInv' /\ SteadyInv' /\ CountInv' /\ ExcuseInv'
<1> SUFFICES ASSUME CrawlInv, Probe
             PROVE  FeedInv' /\ AttemptInv' /\ SteadyInv' /\ CountInv' /\ ExcuseInv'
  OBVIOUS
<1>0. TypeOK /\ FeedInv /\ CountInv /\ ExcuseInv
  BY DEF CrawlInv
<1>1. /\ upstream' = upstream /\ born' = born /\ removals' = removals
      /\ stored' = stored /\ watermark' = watermark /\ phase' = phase
      /\ job'.status = "pending" /\ job'.count = Count /\ observed' = removals
      /\ excuses' = excuses /\ job.status = "none"
  BY DEF Probe, feed
<1>2. removals \in Nat /\ Count \in Nat /\ Count' = Count
  BY <1>0, <1>1, ListIsFinite DEF TypeOK, Count
<1>3. ~Running /\ ~Running'
  BY <1>1 DEF Running
<1>4. FeedInv'
  BY <1>0, <1>1, <1>2, <1>3 DEF FeedInv
<1>5. CountInv'
  BY <1>1, <1>2, <1>3 DEF CountInv
<1>6. ExcuseInv'
  BY <1>0, <1>1, <1>2, <1>3 DEF ExcuseInv, RemovedSince, LowerPart, Known
<1> QED BY <1>3, <1>4, <1>5, <1>6 DEF AttemptInv, SteadyInv

LEMMA StartKeeps == CrawlInv /\ StartCrawl => FeedInv' /\ AttemptInv' /\ SteadyInv' /\ CountInv' /\ ExcuseInv'
<1> SUFFICES ASSUME CrawlInv, StartCrawl
             PROVE  FeedInv' /\ AttemptInv' /\ SteadyInv' /\ CountInv' /\ ExcuseInv'
  OBVIOUS
<1>0. TypeOK /\ FeedInv /\ CountInv /\ ExcuseInv
  BY DEF CrawlInv
<1>1. /\ upstream' = upstream /\ born' = born /\ removals' = removals
      /\ stored' = stored /\ watermark' = watermark
      /\ phase' = "reading" /\ page' = 1 /\ seen' = {} /\ observed' = observed
      /\ begun' = removals /\ atStart' = upstream /\ arrivals' = 0
      /\ excuses' = excuses /\ job.status = "pending"
  BY DEF StartCrawl, feed
<1>2. job'.status = "running" /\ job'.count = job.count
  BY <1>0 DEF StartCrawl, TypeOK, Job
<1>3. removals \in Nat /\ observed \in Nat /\ PageSize \in Nat /\ PageSize >= 1
  BY <1>0, CrawlAssumption DEF TypeOK
<1>4. ~Running /\ Running' /\ Reading' /\ ~Walked'
  BY <1>1, <1>2 DEF Running, Reading, Walked
<1>5. FeedInv'
  BY <1>0, <1>1, <1>2, <1>3, <1>4 DEF FeedInv
<1>6. AttemptInv'
  BY <1>1, <1>4 DEF AttemptInv
<1>7. SteadyInv'
  <2>1. 1 \in 1..MaxPages /\ (1 - 1) * PageSize = 0
    BY <1>3, CrawlAssumption
  <2>2. \A r \in upstream : Rank(r)' = Rank(r) /\ Rank(r) \in 1..Count
    BY <1>0, <1>1, <2>1, PageHolds DEF TypeOK, Rank
  <2>3. \A r \in upstream : ~(Rank(r)' <= (page' - 1) * PageSize)
    BY <1>1, <2>1, <2>2, ListIsFinite, <1>0 DEF TypeOK, Count
  <2> QED BY <1>1, <1>4, <2>3 DEF SteadyInv
<1>8. CountInv'
  BY <1>0, <1>1, <1>2, <1>4 DEF CountInv, RemovedSince, Count
<1>9. ExcuseInv'
  BY <1>0, <1>1, <1>2, <1>3, <1>4 DEF ExcuseInv, RemovedSince, LowerPart, Known
<1> QED BY <1>5, <1>6, <1>7, <1>8, <1>9

-----------------------------------------------------------------------------
(* A page is read.                                                          *)
LEMMA ReadKeeps == CrawlInv /\ ReadPage => FeedInv' /\ AttemptInv' /\ SteadyInv' /\ CountInv' /\ ExcuseInv'
<1> SUFFICES ASSUME CrawlInv, ReadPage
             PROVE  FeedInv' /\ AttemptInv' /\ SteadyInv' /\ CountInv' /\ ExcuseInv'
  OBVIOUS
<1> DEFINE items == Page(page)
           above == (page - 1) * PageSize
           below == page * PageSize
<1>0. TypeOK /\ FeedInv /\ AttemptInv /\ SteadyInv /\ CountInv /\ ExcuseInv
  BY DEF CrawlInv
<1>1. /\ page \in 1..MaxPages /\ page \in Nat /\ arrivals \in Nat /\ born \in Nat
      /\ upstream \in SUBSET Records /\ seen \in SUBSET Records
      /\ \A r \in Records : r \in Int
  BY <1>0, CrawlAssumption DEF TypeOK, Records
<1>2. /\ PageSize \in Nat /\ PageSize >= 1
      /\ above \in Nat /\ below = above + PageSize
  BY <1>1, PagesInARow
<1>3. /\ Count \in Nat
      /\ items \in SUBSET upstream
      /\ \A r \in upstream : Rank(r) \in 1..Count
      /\ \A r, q \in upstream : r < q => Rank(q) < Rank(r)
      /\ \A k \in 1..Count : \E r \in upstream : Rank(r) = k
      /\ items = {} => Count <= above
  BY <1>1, PageHolds
<1>4. \A r \in upstream : r \in items <=> above < Rank(r) /\ Rank(r) <= below
  BY DEF Page
<1>5. ~MorePages(page) => Count <= below
  BY <1>2, <1>3 DEF MorePages
<1>6. StopsEarly(items) => ~Full /\ \A r \in items : Known(r)
  BY DEF StopsEarly, Full, Known
<1>7. /\ stored' = [r \in Records |-> IF r \in items THEN "listed" ELSE stored[r]]
      /\ seen' = seen \cup items
      /\ \/ /\ phase' = "walked" /\ page' = page
            /\ items = {} \/ StopsEarly(items) \/ ~MorePages(page)
         \/ /\ phase' = "reading" /\ page' = page + 1
  <2>1. page <= MaxPages
    BY <1>1, CrawlAssumption
  <2> QED BY <2>1 DEF ReadPage
<1>8. /\ upstream' = upstream /\ born' = born /\ removals' = removals
      /\ watermark' = watermark /\ job' = job /\ observed' = observed
      /\ begun' = begun /\ atStart' = atStart /\ arrivals' = arrivals /\ excuses' = excuses
      /\ Running /\ Reading /\ Running' /\ (Full' <=> Full)
  BY DEF ReadPage, feed, Running, Reading, Full
<1>9. /\ \A r \in upstream : Rank(r)' = Rank(r)
      /\ Count' = Count
  BY <1>8 DEF Rank, Count
<1> HIDE DEF items, above, below
<1>10. FeedInv'
  BY <1>0, <1>1, <1>3, <1>7, <1>8 DEF FeedInv
<1>11. AttemptInv'
  <2>1. \A r \in seen' : stored'[r] = "listed"
    BY <1>0, <1>1, <1>3, <1>7, <1>8 DEF AttemptInv
  <2>2. \A r \in upstream' \ atStart' : /\ stored'[r] = "listed" => r \in seen'
                                        /\ stored'[r] # "withdrawn"
    BY <1>0, <1>1, <1>7, <1>8 DEF AttemptInv
  <2>3. ~(Reading' /\ page' = 1)
    BY <1>1, <1>7 DEF Reading
  <2> QED BY <1>7, <2>1, <2>2, <2>3 DEF AttemptInv
<1>12. ASSUME ~RemovedSince(begun)
       PROVE  /\ atStart \subseteq upstream /\ seen' \subseteq upstream
              /\ \A r \in upstream : Covered(r)' /\ Rank(r) <= below => r \in seen'
              /\ \A r \in seen : Rank(r) <= above + arrivals
              /\ \A r \in seen' : Rank(r) <= below + arrivals
  <2>1. /\ atStart \subseteq upstream /\ seen \subseteq upstream
        /\ \A r \in upstream : Covered(r) /\ Rank(r) <= above => r \in seen
        /\ \A r \in seen : Rank(r) <= above + arrivals
    BY <1>0, <1>8, <1>12 DEF SteadyInv, above
  <2>2. ASSUME NEW r \in upstream, Covered(r)', Rank(r) <= below PROVE r \in seen'
    <3>1. CASE above < Rank(r)
      BY <1>4, <1>7, <2>2, <3>1
    <3>2. CASE Rank(r) <= above
      <4>1. \A q \in items : ~(r < q)
        BY <1>2, <1>3, <1>4, <3>2
      <4>2. Covered(r)
        BY <1>7, <1>8, <2>2, <4>1 DEF Covered
      <4> QED BY <1>7, <2>1, <3>2, <4>2
    <3> QED BY <1>2, <1>3, <3>1, <3>2
  <2>3. ASSUME NEW r \in seen' PROVE Rank(r) <= below + arrivals
    BY <1>1, <1>2, <1>3, <1>4, <1>7, <2>1, <2>3
  <2> QED BY <1>3, <1>7, <2>1, <2>2, <2>3
<1>13. ASSUME items = {} \/ ~MorePages(page), ~RemovedSince(begun)
       PROVE  \A r \in upstream : Covered(r)' => r \in seen'
  <2>1. \A r \in upstream : Rank(r) <= below
    BY <1>2, <1>3, <1>5, <1>13
  <2> QED BY <1>12, <1>13, <2>1
<1>14. SteadyInv'
  <2> SUFFICES ASSUME ~RemovedSince(begun)
               PROVE  /\ atStart' \subseteq upstream' /\ seen' \subseteq upstream'
                      /\ Reading' =>
                           /\ \A r \in upstream' :
                                Covered(r)' /\ Rank(r)' <= (page' - 1) * PageSize => r \in seen'
                           /\ \A r \in seen' : Rank(r)' <= (page' - 1) * PageSize + arrivals'
                      /\ Walked' /\ Full' => \A r \in upstream' : Covered(r)' => r \in seen'
    BY <1>8 DEF SteadyInv, RemovedSince
  <2>1. ASSUME Reading' PROVE (page' - 1) * PageSize = below
    <3>1. page' = page + 1
      BY <1>7, <2>1 DEF Reading
    <3>2. page' - 1 = page
      BY <1>1, <3>1
    <3>3. (page' - 1) * PageSize = page * PageSize
      BY <3>2
    <3> QED BY <3>3 DEF below
  <2>2. Reading' => \A r \in upstream' :
                       Covered(r)' /\ Rank(r)' <= (page' - 1) * PageSize => r \in seen'
    BY <1>8, <1>9, <1>12, <2>1
  <2>3. Reading' => \A r \in seen' : Rank(r)' <= (page' - 1) * PageSize + arrivals'
    BY <1>8, <1>9, <1>12, <2>1
  <2>4. Walked' /\ Full' => \A r \in upstream' : Covered(r)' => r \in seen'
    BY <1>6, <1>7, <1>8, <1>13 DEF Walked
  <2> QED BY <1>8, <1>12, <2>2, <2>3, <2>4
<1>15. CountInv'
  BY <1>0, <1>8, <1>9 DEF CountInv, RemovedSince
<1>16. ExcuseInv'
  <2> SUFFICES ASSUME excuses = {} PROVE ExcuseInv'
    BY <1>8 DEF ExcuseInv
  <2>1. /\ ~RemovedSince(begun) /\ LowerPart
        /\ ~Full => arrivals < PageSize
    BY <1>0, <1>8 DEF ExcuseInv
  <2>2. /\ job'.status # "none" => ~RemovedSince(observed)'
        /\ Running' => ~RemovedSince(begun)'
    BY <1>0, <1>8 DEF ExcuseInv, RemovedSince
  <2>3. \A r \in Records : /\ stored'[r] = "listed" => r \in upstream'
                           /\ stored'[r] = "withdrawn" => r \notin upstream'
    BY <1>0, <1>3, <1>7, <1>8 DEF ExcuseInv
  <2>4. \A r \in Records : /\ Known(r) => Known(r)'
                           /\ r \in seen' => Known(r)'
                           /\ r \notin seen' => (Known(r)' => Known(r))
    BY <1>0, <1>7, <1>8 DEF Known, AttemptInv
  <2>5. LowerPart'
    BY <1>1, <1>7, <1>8, <2>1, <2>4 DEF LowerPart
  <2>6. Reading' /\ ~Full' => arrivals' < PageSize
    BY <1>8, <2>1
  <2>7. ASSUME Walked', NEW r \in upstream, Covered(r)' PROVE Known(r)'
    <3>1. CASE Rank(r) <= below
      BY <1>1, <1>12, <2>1, <2>4, <2>7, <3>1
    <3>2. CASE below < Rank(r)
      <4>1. CASE items = {} \/ ~MorePages(page)
        BY <1>1, <1>13, <2>1, <2>4, <2>7, <4>1
      <4>2. CASE StopsEarly(items)
        <5>1. ~Full /\ arrivals < PageSize
          BY <1>6, <2>1, <4>2
        <5>2. below \in 1..Count
          BY <1>2, <1>3, <3>2
        <5>3. PICK q \in upstream : Rank(q) = below
          BY <1>3, <5>2
        <5>4. q \in items /\ Known(q)
          BY <1>2, <1>4, <1>6, <4>2, <5>3
        <5>5. q \notin seen
          <6>1. ~(Rank(q) <= above + arrivals)
            BY <1>1, <1>2, <5>1, <5>3
          <6> QED BY <1>12, <2>1, <6>1
        <5>6. r < q
          <6>1. r \in Int /\ q \in Int /\ Rank(r) \in Int /\ Rank(q) \in Int
            BY <1>1, <1>3
          <6>2. ~(q < r)
            BY <1>2, <1>3, <3>2, <5>3, <6>1
          <6>3. r # q
            BY <1>2, <3>2, <5>3, <6>1
          <6> QED BY <6>1, <6>2, <6>3
        <5>7. Known(r)
          BY <2>1, <5>4, <5>5, <5>6 DEF LowerPart
        <5> QED BY <1>1, <2>4, <5>7
      <4> QED BY <1>7, <2>7, <4>1, <4>2 DEF Walked
    <3> QED BY <1>2, <1>3, <3>1, <3>2
  <2>8. (watermark # NoCount => watermark <= Cardinality({r \in upstream : Known(r)}))'
    <3> SUFFICES ASSUME watermark # NoCount
                 PROVE  watermark <= Cardinality({r \in upstream : Known(r)'})
      BY <1>8
    <3> DEFINE was == {r \in upstream : Known(r)}
               now == {r \in upstream : Known(r)'}
    <3>1. watermark \in Nat /\ watermark <= Cardinality(was)
      BY <1>0 DEF TypeOK, ExcuseInv
    <3>2. now \in SUBSET Records /\ was \in SUBSET now
      BY <1>1, <2>4
    <3> HIDE DEF was, now
    <3>3. /\ Cardinality(was) \in Nat /\ Cardinality(now) \in Nat
          /\ Cardinality(was) <= Cardinality(now)
      BY <3>2, ListIsFinite
    <3>4. watermark <= Cardinality(now)
      BY <3>1, <3>3
    <3> QED BY <3>4 DEF now
  <2> QED BY <1>8, <2>2, <2>3, <2>5, <2>6, <2>7, <2>8 DEF ExcuseInv
<1> QED BY <1>10, <1>11, <1>14, <1>15, <1>16

-----------------------------------------------------------------------------
(* A full crawl withdraws: with no excuse there is nothing to withdraw.     *)
LEMMA WithdrawKeeps == CrawlInv /\ Withdraw => FeedInv' /\ AttemptInv' /\ SteadyInv' /\ CountInv' /\ ExcuseInv'
<1> SUFFICES ASSUME CrawlInv, Withdraw
             PROVE  FeedInv' /\ AttemptInv' /\ SteadyInv' /\ CountInv' /\ ExcuseInv'
  OBVIOUS
<1>0. TypeOK /\ FeedInv /\ AttemptInv /\ SteadyInv /\ CountInv /\ ExcuseInv
  BY DEF CrawlInv
<1>1. /\ upstream' = upstream /\ born' = born /\ removals' = removals
      /\ watermark' = watermark /\ job' = job /\ page' = page /\ seen' = seen
      /\ observed' = observed /\ begun' = begun /\ atStart' = atStart
      /\ arrivals' = arrivals /\ excuses' = excuses
      /\ phase = "walked" /\ phase' = "withdrawn"
      /\ Running /\ Full /\ Running' /\ Full' /\ Walked /\ Walked' /\ ~Reading'
  BY DEF Withdraw, feed, Running, Full, Walked, Reading
<1>2. \A r \in Records :
         stored'[r] = IF stored[r] = "listed" /\ r \notin seen THEN "withdrawn" ELSE stored[r]
  BY DEF Withdraw
<1>3. upstream \in SUBSET Records /\ seen \in SUBSET Records /\ atStart \in SUBSET Records
  BY <1>0 DEF TypeOK
<1>4. \A r \in Records : Known(r)' <=> Known(r)
  BY <1>2 DEF Known
<1>5. FeedInv'
  BY <1>0, <1>1, <1>2 DEF FeedInv
<1>6. AttemptInv'
  <2>1. \A r \in Records : stored'[r] = "listed" => stored[r] = "listed" /\ r \in seen
    BY <1>2
  <2>2. \A r \in seen : stored'[r] = "listed"
    BY <1>0, <1>1, <1>2, <1>3 DEF AttemptInv
  <2>3. \A r \in upstream \ atStart : stored'[r] # "withdrawn"
    BY <1>0, <1>1, <1>2, <1>3 DEF AttemptInv
  <2> QED BY <1>1, <1>3, <2>1, <2>2, <2>3 DEF AttemptInv
<1>7. SteadyInv'
  BY <1>0, <1>1 DEF SteadyInv, RemovedSince, Covered
<1>8. CountInv'
  BY <1>0, <1>1 DEF CountInv, RemovedSince
<1>9. ExcuseInv'
  <2> SUFFICES ASSUME excuses = {} PROVE ExcuseInv'
    BY <1>1 DEF ExcuseInv
  <2>1. ~RemovedSince(begun)
    BY <1>0, <1>1 DEF ExcuseInv
  <2>2. \A r \in upstream : r \in atStart => r \in seen
    BY <1>0, <1>1, <2>1 DEF SteadyInv, Covered
  <2>3. \A r \in Records : /\ stored'[r] = "listed" => r \in upstream
                           /\ stored'[r] = "withdrawn" => r \notin upstream
    BY <1>0, <1>1, <1>2, <2>2 DEF ExcuseInv, AttemptInv
  <2>4. LowerPart'
    BY <1>0, <1>1, <1>3, <1>4 DEF ExcuseInv, LowerPart
  <2>5. \A r \in upstream : Covered(r)' => Known(r)'
    BY <1>0, <1>1, <1>3, <1>4 DEF ExcuseInv, Covered
  <2>6. {r \in upstream : Known(r)'} = {r \in upstream : Known(r)}
    BY <1>3, <1>4
  <2>7. (watermark # NoCount => watermark <= Cardinality({r \in upstream : Known(r)}))'
    BY <1>0, <1>1, <2>6 DEF ExcuseInv
  <2> QED BY <1>0, <1>1, <2>3, <2>4, <2>5, <2>7 DEF ExcuseInv, RemovedSince
<1> QED BY <1>5, <1>6, <1>7, <1>8, <1>9

-----------------------------------------------------------------------------
(* A complete full crawl with nothing removed since the probe leaves the    *)
(* mirror exact but for what arrived unseen.                                *)
LEMMA FullCrawlMends ==
  ASSUME CrawlInv, Running, Full, phase = "withdrawn", ~RemovedSince(observed)
  PROVE  /\ ~RemovedSince(begun) /\ atStart \subseteq upstream
         /\ \A r \in Records : /\ stored[r] = "listed" => r \in upstream /\ r \in seen
                               /\ stored[r] = "withdrawn" => r \notin upstream
         /\ \A r \in upstream : Covered(r) => Known(r)
<1>0. TypeOK /\ FeedInv /\ AttemptInv /\ SteadyInv
  BY DEF CrawlInv
<1>1. removals \in Nat /\ observed \in Nat /\ begun \in Nat
  BY <1>0 DEF TypeOK
<1>2. ~RemovedSince(begun)
  BY <1>0, <1>1 DEF FeedInv, RemovedSince
<1>3. /\ atStart \subseteq upstream /\ seen \subseteq upstream
      /\ \A r \in upstream : Covered(r) => r \in seen
  BY <1>0, <1>2 DEF SteadyInv, Walked
<1>4. \A r \in upstream : r \in atStart => r \in seen
  BY <1>3 DEF Covered
<1>5. \A r \in Records : stored[r] = "listed" => r \in seen
  BY <1>0 DEF AttemptInv
<1>6. ASSUME NEW r \in upstream PROVE stored[r] # "withdrawn"
  BY <1>0, <1>4 DEF AttemptInv
<1>7. \A r \in upstream : Covered(r) => Known(r)
  BY <1>0, <1>3 DEF AttemptInv, Known
<1> QED BY <1>2, <1>3, <1>5, <1>6, <1>7

LEMMA CommitKeeps == CrawlInv /\ Commit => FeedInv' /\ AttemptInv' /\ SteadyInv' /\ CountInv' /\ ExcuseInv'
<1> SUFFICES ASSUME CrawlInv, Commit
             PROVE  FeedInv' /\ AttemptInv' /\ SteadyInv' /\ CountInv' /\ ExcuseInv'
  OBVIOUS
<1>0. TypeOK /\ FeedInv /\ AttemptInv /\ SteadyInv /\ CountInv /\ ExcuseInv
  BY DEF CrawlInv
<1>1. /\ upstream' = upstream /\ born' = born /\ removals' = removals /\ stored' = stored
      /\ watermark' = job.count /\ job' = job /\ page' = page /\ seen' = seen
      /\ observed' = observed /\ begun' = begun /\ atStart' = atStart
      /\ arrivals' = arrivals /\ phase' = "committed"
      /\ Running /\ Running' /\ (Full' <=> Full) /\ Walked /\ Walked' /\ ~Reading'
      /\ Full => phase = "withdrawn"
      /\ excuses' = IF Full /\ ~RemovedSince(observed) THEN {} ELSE excuses
  BY DEF Commit, ReadyToCommit, feed, Running, Full, Walked, Reading
<1>2. upstream \in SUBSET Records /\ seen \in SUBSET Records /\ atStart \in SUBSET Records
  BY <1>0 DEF TypeOK
<1>3. \A r : (Known(r)' <=> Known(r)) /\ (Covered(r)' <=> Covered(r))
  BY <1>1 DEF Known, Covered
<1>4. FeedInv'
  BY <1>0, <1>1 DEF FeedInv
<1>5. AttemptInv'
  BY <1>0, <1>1 DEF AttemptInv
<1>6. SteadyInv'
  BY <1>0, <1>1, <1>3 DEF SteadyInv, RemovedSince
<1>7. CountInv'
  BY <1>0, <1>1 DEF CountInv, RemovedSince
<1>8. ExcuseInv'
  <2> SUFFICES ASSUME excuses' = {} PROVE ExcuseInv'
    BY DEF ExcuseInv
  <2>1. /\ ~RemovedSince(observed) /\ ~RemovedSince(begun)
        /\ atStart \subseteq upstream
        /\ \A r \in Records : /\ stored[r] = "listed" => r \in upstream
                              /\ stored[r] = "withdrawn" => r \notin upstream
        /\ \A r \in upstream : Covered(r) => Known(r)
        /\ LowerPart
    <3>1. CASE Full /\ ~RemovedSince(observed)
      <4>1. /\ ~RemovedSince(begun) /\ atStart \subseteq upstream
            /\ \A r \in Records : /\ stored[r] = "listed" => r \in upstream /\ r \in seen
                                  /\ stored[r] = "withdrawn" => r \notin upstream
            /\ \A r \in upstream : Covered(r) => Known(r)
        BY <1>1, <3>1, FullCrawlMends
      <4>2. \A q \in upstream : Known(q) => q \in seen
        BY <1>0, <1>2, <4>1 DEF Known, TypeOK
      <4>3. LowerPart
        BY <1>1, <4>2 DEF LowerPart
      <4> QED BY <3>1, <4>1, <4>3
    <3>2. CASE excuses = {}
      <4>1. ~RemovedSince(begun)
        BY <1>0, <1>1, <3>2 DEF ExcuseInv
      <4>2. job.status # "none"
        BY <1>1 DEF Running
      <4>3. atStart \subseteq upstream
        BY <1>0, <1>1, <4>1 DEF SteadyInv
      <4> QED BY <1>0, <1>1, <3>2, <4>1, <4>2, <4>3 DEF ExcuseInv
    <3> QED BY <1>1, <3>1, <3>2
  <2>2. LowerPart'
    BY <1>1, <1>3, <2>1 DEF LowerPart
  <2>3. watermark' <= Cardinality({r \in upstream : Known(r)})
    <3> DEFINE known == {r \in upstream : Known(r)}
    <3>1. job.status # "none" /\ job.count \in Nat
      BY <1>0, <1>1 DEF Running, TypeOK, Job
    <3>2. job.count <= Cardinality(atStart)
      BY <1>0, <1>1, <2>1, <3>1 DEF CountInv
    <3>3. atStart \in SUBSET known /\ known \in SUBSET Records
      BY <1>2, <2>1 DEF Covered
    <3> HIDE DEF known
    <3>4. /\ Cardinality(atStart) \in Nat /\ Cardinality(known) \in Nat
          /\ Cardinality(atStart) <= Cardinality(known)
      BY <3>3, ListIsFinite
    <3>5. watermark' <= Cardinality(known)
      BY <1>1, <3>1, <3>2, <3>4
    <3> QED BY <3>5 DEF known
  <2>4. {r \in upstream' : Known(r)'} = {r \in upstream : Known(r)}
    BY <1>1, <1>3
  <2>5. (watermark # NoCount => watermark <= Cardinality({r \in upstream : Known(r)}))'
    BY <2>3, <2>4
  <2> QED BY <1>1, <1>3, <2>1, <2>2, <2>5 DEF ExcuseInv, RemovedSince
<1> QED BY <1>4, <1>5, <1>6, <1>7, <1>8

-----------------------------------------------------------------------------
(* An attempt ends.  Unless it was cut after its first page, all that is    *)
(* older than what it saw is known.                                         *)
LEMMA AttemptEnds ==
  ASSUME CrawlInv, Running, ~Running',
         Walked \/ (Reading /\ page = 1),
         phase' = "idle",
         UNCHANGED <<upstream, born, removals, stored, watermark, observed, excuses>>,
         job'.status # "none" => job'.count = job.count
  PROVE  FeedInv' /\ AttemptInv' /\ SteadyInv' /\ CountInv' /\ ExcuseInv'
<1>0. TypeOK /\ FeedInv /\ AttemptInv /\ SteadyInv /\ CountInv /\ ExcuseInv
  BY DEF CrawlInv
<1>1. /\ removals \in Nat /\ observed \in Nat /\ begun \in Nat
      /\ upstream \in SUBSET Records /\ job.count \in Nat
      /\ job.status # "none"
  BY <1>0 DEF TypeOK, Job, Running
<1>2. FeedInv'
  BY <1>0, <1>1 DEF FeedInv
<1>3. CountInv'
  <2> SUFFICES ASSUME job'.status # "none", ~RemovedSince(observed)
               PROVE  job.count <= Count'
    BY DEF CountInv, RemovedSince
  <2>1. ~RemovedSince(begun)
    BY <1>0, <1>1 DEF FeedInv, RemovedSince
  <2>2. atStart \subseteq upstream
    BY <1>0, <2>1 DEF SteadyInv
  <2>3. Cardinality(atStart) \in Nat /\ Count \in Nat /\ Cardinality(atStart) <= Count
    BY <1>1, <2>2, ListIsFinite DEF Count
  <2>4. job.count <= Cardinality(atStart)
    BY <1>0, <1>1 DEF CountInv
  <2>5. Count' = Count
    BY DEF Count
  <2> QED BY <1>1, <2>3, <2>4, <2>5
<1>4. ExcuseInv'
  <2> SUFFICES ASSUME excuses = {} PROVE ExcuseInv'
    BY DEF ExcuseInv
  <2>1. \A r : Known(r)' <=> Known(r)
    BY DEF Known
  <2>2. \A r \in upstream, q \in seen : r < q => Known(r)
    <3>1. CASE Walked
      BY <1>0, <3>1 DEF ExcuseInv, Covered
    <3>2. CASE Reading /\ page = 1
      BY <1>0, <3>2 DEF AttemptInv
    <3> QED BY <3>1, <3>2
  <2>3. LowerPart'
    BY <1>0, <2>1, <2>2 DEF ExcuseInv, LowerPart
  <2>4. {r \in upstream' : Known(r)'} = {r \in upstream : Known(r)}
    BY <2>1
  <2>5. (watermark # NoCount => watermark <= Cardinality({r \in upstream : Known(r)}))'
    BY <1>0, <2>4 DEF ExcuseInv
  <2> QED BY <1>0, <1>1, <2>3, <2>5 DEF ExcuseInv, RemovedSince
<1> QED BY <1>2, <1>3, <1>4 DEF AttemptInv, SteadyInv

LEMMA DoneKeeps == CrawlInv /\ JobDone => FeedInv' /\ AttemptInv' /\ SteadyInv' /\ CountInv' /\ ExcuseInv'
<1> SUFFICES ASSUME CrawlInv, JobDone
             PROVE  FeedInv' /\ AttemptInv' /\ SteadyInv' /\ CountInv' /\ ExcuseInv'
  OBVIOUS
<1>1. /\ Running /\ ~Running' /\ Walked /\ phase' = "idle" /\ job'.status = "none"
      /\ UNCHANGED <<upstream, born, removals, stored, watermark, observed, excuses>>
  BY DEF JobDone, NoJob, feed, Running, Walked
<1> QED BY <1>1, AttemptEnds

LEMMA CutKeeps == CrawlInv /\ CutShort => FeedInv' /\ AttemptInv' /\ SteadyInv' /\ CountInv' /\ ExcuseInv'
<1> SUFFICES ASSUME CrawlInv, CutShort
             PROVE  FeedInv' /\ AttemptInv' /\ SteadyInv' /\ CountInv' /\ ExcuseInv'
  OBVIOUS
<1>0. TypeOK /\ FeedInv /\ AttemptInv /\ SteadyInv /\ CountInv /\ ExcuseInv
  BY DEF CrawlInv
<1>1. /\ Running /\ phase' = "idle"
      /\ UNCHANGED <<upstream, born, removals, stored, watermark, observed>>
      /\ excuses' = IF Reading /\ page > 1 THEN excuses \cup {"cut"} ELSE excuses
  BY DEF CutShort, feed, Running, Reading
<1>2. /\ ~Running'
      /\ job'.status # "none" => job'.count = job.count
  BY <1>0 DEF CutShort, NoJob, Running, TypeOK, Job
<1>3. phase # "idle"
  BY <1>0, <1>1 DEF FeedInv
<1>4. CASE Walked \/ (Reading /\ page = 1)
  BY <1>1, <1>2, <1>4, AttemptEnds DEF Walked, Reading
<1>5. CASE Reading /\ page # 1
  <2>1. page > 1
    BY <1>0, <1>5 DEF TypeOK
  <2>2. excuses' # {}
    BY <1>1, <1>5, <2>1
  <2>3. /\ removals \in Nat /\ observed \in Nat /\ begun \in Nat
        /\ upstream \in SUBSET Records /\ job.count \in Nat /\ job.status # "none"
    BY <1>0, <1>1 DEF TypeOK, Job, Running
  <2>4. FeedInv'
    BY <1>0, <1>1, <1>2, <2>3 DEF FeedInv
  <2>5. CountInv'
    <3> SUFFICES ASSUME job'.status # "none", ~RemovedSince(observed)
                 PROVE  job.count <= Count'
      BY <1>1, <1>2 DEF CountInv, RemovedSince
    <3>1. ~RemovedSince(begun)
      BY <1>0, <1>1, <2>3 DEF FeedInv, RemovedSince
    <3>2. atStart \subseteq upstream
      BY <1>0, <1>1, <3>1 DEF SteadyInv
    <3>3. Cardinality(atStart) \in Nat /\ Count \in Nat /\ Cardinality(atStart) <= Count
      BY <2>3, <3>2, ListIsFinite DEF Count
    <3>4. job.count <= Cardinality(atStart)
      BY <1>0, <1>1, <2>3 DEF CountInv
    <3>5. Count' = Count
      BY <1>1 DEF Count
    <3> QED BY <2>3, <3>3, <3>4, <3>5
  <2> QED BY <1>2, <2>2, <2>4, <2>5 DEF AttemptInv, SteadyInv, ExcuseInv
<1>6. Reading \/ Walked
  BY <1>0, <1>3 DEF TypeOK, Reading, Walked
<1> QED BY <1>4, <1>5, <1>6

-----------------------------------------------------------------------------
(* The invariant.                                                           *)
LEMMA CrawlInvInit == Init => CrawlInv
<1> SUFFICES ASSUME Init PROVE CrawlInv
  OBVIOUS
<1>1. TypeOK
  BY CrawlTypeInit
<1>2. /\ Seed \in Nat /\ Removals \in Nat
      /\ upstream = 1..Seed /\ born = Seed /\ upstream \in SUBSET Records
      /\ stored = [r \in Records |-> "absent"]
      /\ watermark = NoCount /\ job.status = "none" /\ phase = "idle" /\ excuses = {}
  BY <1>1, CrawlAssumption DEF Init, NoJob, TypeOK
<1>3. ~Running
  BY <1>2 DEF Running
<1>4. FeedInv
  BY <1>2, <1>3 DEF FeedInv
<1>5. ExcuseInv
  BY <1>2, <1>3 DEF ExcuseInv, LowerPart, Known
<1> QED BY <1>1, <1>2, <1>3, <1>4, <1>5 DEF CrawlInv, AttemptInv, SteadyInv, CountInv

LEMMA CrawlInvStep == CrawlInv /\ [Next]_vars => CrawlInv'
<1> SUFFICES ASSUME CrawlInv, [Next]_vars PROVE CrawlInv'
  OBVIOUS
<1>0. TypeOK'
  BY CrawlTypeStep DEF CrawlInv
<1>1. CASE UNCHANGED vars
  BY <1>0, <1>1 DEF vars, feed, crawl, CrawlInv, FeedInv, AttemptInv, SteadyInv, CountInv,
     ExcuseInv, LowerPart, Running, Reading, Walked, Full, Known, Covered, RemovedSince,
     Count, Rank
<1>2. ASSUME Next PROVE FeedInv' /\ AttemptInv' /\ SteadyInv' /\ CountInv' /\ ExcuseInv'
  BY <1>2, PublishKeeps, RemoveKeeps, ProbeKeeps, StartKeeps, ReadKeeps, WithdrawKeeps,
     CommitKeeps, DoneKeeps, CutKeeps DEF Next, CrawlStep
<1> QED BY <1>0, <1>1, <1>2 DEF CrawlInv

LEMMA CrawlInvHolds == Spec => []CrawlInv
BY CrawlInvInit, CrawlInvStep, PTL DEF Spec

(* A mirror the probe is content with is exact unless there is an excuse:   *)
(* it knows as many of upstream's records as the watermark says, and that   *)
(* is all of them.                                                          *)
THEOREM CrawlGapsAreExcused == Spec => []GapsAreExcused
<1>1. CrawlInv => GapsAreExcused
  <2> SUFFICES ASSUME CrawlInv, Settled, excuses = {} PROVE InStep
    BY DEF GapsAreExcused
  <2>0. TypeOK /\ ExcuseInv
    BY DEF CrawlInv
  <2> DEFINE known == {r \in upstream : Known(r)}
  <2>1. upstream \in SUBSET Records /\ stored \in [Records -> {"absent", "listed", "withdrawn"}]
    BY <2>0 DEF TypeOK
  <2>2. known \in SUBSET upstream /\ Count \in Nat
    BY <2>1, ListIsFinite DEF Count
  <2>3. watermark = Count /\ watermark # NoCount
    BY <2>2, CrawlAssumption DEF Settled
  <2>4. Count <= Cardinality(known)
    BY <2>0, <2>3 DEF ExcuseInv
  <2> HIDE DEF known
  <2>5. known = upstream
    <3>1. Cardinality(known) \in Nat /\ Cardinality(known) <= Cardinality(upstream)
      BY <2>1, <2>2, ListIsFinite
    <3>2. Cardinality(known) = Cardinality(upstream)
      BY <2>2, <2>4, <3>1 DEF Count
    <3> QED BY <2>1, <2>2, <3>2, ListIsFinite
  <2>6. ASSUME NEW r \in Records PROVE stored[r] = "listed" <=> r \in upstream
    BY <2>0, <2>1, <2>5 DEF ExcuseInv, Known, known
  <2> QED BY <2>6 DEF InStep
<1> QED BY <1>1, CrawlInvHolds, PTL

(* A full crawl withdraws exactly what is gone, whatever was published      *)
(* while it ran and however often it was cut short before, unless a record  *)
(* was removed while it ran.                                                *)
THEOREM FullCrawlsAreExact == Spec => FullCrawlExact
<1> DEFINE Exact == \A r \in Records : /\ r \in atStart => stored'[r] = "listed"
                                       /\ r \notin upstream => stored'[r] # "listed"
<1>1. CrawlInv /\ [Next]_vars => [Withdraw /\ ~RemovedSince(begun) => Exact]_vars
  <2> SUFFICES ASSUME CrawlInv, Withdraw, ~RemovedSince(begun), NEW r \in Records
               PROVE  /\ r \in atStart => stored'[r] = "listed"
                      /\ r \notin upstream => stored'[r] # "listed"
    OBVIOUS
  <2>1. AttemptInv /\ SteadyInv
    BY DEF CrawlInv
  <2>2. /\ Running /\ Full /\ Walked
        /\ stored'[r] = IF stored[r] = "listed" /\ r \notin seen THEN "withdrawn" ELSE stored[r]
    BY DEF Withdraw, Running, Full, Walked
  <2>3. /\ atStart \subseteq upstream /\ seen \subseteq upstream
        /\ \A q \in upstream : Covered(q) => q \in seen
    BY <2>1, <2>2 DEF SteadyInv
  <2>4. ASSUME r \in atStart PROVE stored'[r] = "listed"
    <3>1. r \in seen
      BY <2>3, <2>4 DEF Covered
    <3> QED BY <2>1, <2>2, <3>1 DEF AttemptInv
  <2>5. ASSUME r \notin upstream PROVE stored'[r] # "listed"
    BY <2>2, <2>3, <2>5
  <2> QED BY <2>4, <2>5
<1> QED BY <1>1, CrawlInvHolds, PTL DEF Spec, FullCrawlExact
=============================================================================
