-------------------------- MODULE RealtySyncProofs --------------------------
(***************************************************************************)
(* No stale region is forgotten, for any number of regions, seconds, page  *)
(* sizes, changes and faults.  The index counts only what is registered,   *)
(* the poll leaves nothing between its watermark and what it has read, and *)
(* a detail that was overtaken has its event still in reach.               *)
(***************************************************************************)
EXTENDS RealtySync, FiniteSetTheorems, WellFoundedInduction, TLAPS

(* The state of the lane: what each job leaves alone is as in LaneFree.     *)
Lanes == [job : {"none", "index", "activity", "detail"},
          phase : {"idle", "reading", "read", "queued", "fetched", "region stored",
                   "freehold stored"},
          page : Nat \ {0}, touched : SUBSET Regions, newest : Seconds \cup {NoSince},
          region : Regions, found : Contracts]

LaneInv ==
  /\ lane \in Lanes
  /\ lane.job = "none" <=> lane.phase = "idle"
  /\ lane.job = "detail" <=> lane.phase \in {"fetched", "region stored", "freehold stored"}
  /\ lane.job = "index" => indexJob # NoStats

(* No event is of the future, and the watermark lies below an event of the  *)
(* feed, as it will after a poll.                                           *)
TimeInv ==
  /\ \A e \in activityFeed \cup unpublished : e[1] <= now
  /\ sinceMark # NoSince => \E e \in activityFeed : sinceMark < e[1]
  /\ lane.newest # NoSince => \E e \in activityFeed : e[1] = lane.newest
  /\ lane.job = "activity" /\ lane.newest = NoSince =>
       lane.phase = "reading" /\ lane.page = 1 /\ Shown # {}

(* As long as nothing was removed: what is stored is registered, and the    *)
(* count lags behind while an index is due.                                 *)
CountInv ==
  realtyExcuses = {} =>
    /\ detailed \subseteq registered
    /\ lane.job = "detail" => lane.region \in registered
    /\ statsMark # NoStats => statsMark <= Cardinality(registered)
    /\ indexJob # NoStats =>
         /\ indexJob <= Cardinality(registered)
         /\ statsMark # Cardinality(registered)

(* If nothing was registered since the probe, the walk of the index has     *)
(* found all regions without a detail on the pages it has read.             *)
IndexInv ==
  realtyExcuses = {} /\ lane.job = "index" /\ indexJob = Cardinality(registered) =>
    \A r \in registered \ detailed :
      /\ lane.phase = "reading" =>
           r \in lane.touched \/ IndexRank(r) > (lane.page - 1) * IndexPageSize
      /\ lane.phase = "read" => r \in lane.touched
      /\ lane.phase = "queued" => r \in detailJobs

(* A poll has every event in hand, below the page it reads next, or within  *)
(* the second it will leave to the next poll.                               *)
PollInv ==
  realtyExcuses = {} /\ lane.job = "activity" =>
    \A e \in Shown :
      \/ lane.newest # NoSince /\ e[1] >= lane.newest - 1
      \/ /\ lane.phase = "reading"
         /\ e[2] \in lane.touched \/ ActivityRank(e) > (lane.page - 1) * ActivityPageSize
      \/ lane.phase = "read" /\ e[2] \in lane.touched
      \/ lane.phase = "queued" /\ e[2] \in detailJobs

(* A contract that changed after it was fetched has its event in reach.     *)
DetailInv ==
  /\ lane.job = "detail" =>
       /\ lane.region \in detailJobs
       /\ lane.phase # "fetched" => lane.region \in detailed
       /\ lane.phase = "freehold stored" =>
            (lane.region \in freeholds <=> lane.found = "freehold")
  /\ realtyExcuses = {} /\ lane.job = "detail" =>
       lane.found = contract[lane.region] \/ EventInReach(lane.region)

RealtyInv == /\ RealtyTypeOK /\ LaneInv /\ TimeInv /\ CountInv /\ IndexInv /\ PollInv
             /\ DetailInv /\ StalenessIsPending

-----------------------------------------------------------------------------
(* Sets of regions, of seconds and of events are finite.                    *)
LEMMA RealtyNumbers ==
  /\ RegionCount \in Nat /\ LastSecond \in Nat /\ RealtyEvents \in Nat
  /\ IndexPageSize \in Nat \ {0} /\ ActivityPageSize \in Nat \ {0}
  /\ NoStats \notin Nat /\ NoSince \notin Int
BY RealtyAssumption

LEMMA RegionsAreFinite ==
  ASSUME NEW S \in SUBSET Regions
  PROVE  IsFiniteSet(S) /\ Cardinality(S) \in Nat
<1>1. IsFiniteSet(Regions)
  BY RealtyNumbers, FS_Interval DEF Regions
<1> QED BY <1>1, FS_Subset, FS_CardinalityType

LEMMA EventsAreFinite ==
  ASSUME NEW S \in SUBSET Events
  PROVE  IsFiniteSet(S) /\ Cardinality(S) \in Nat
<1>1. IsFiniteSet(Seconds) /\ IsFiniteSet(Regions)
  BY RealtyNumbers, FS_Interval DEF Seconds, Regions
<1>2. IsFiniteSet(Events)
  BY <1>1, FS_Product DEF Events
<1> QED BY <1>2, FS_Subset, FS_CardinalityType

(* A nonempty set of seconds has a last one.                                *)
LEMMA LastOf ==
  ASSUME NEW T \in SUBSET Seconds, T # {}
  PROVE  \E m \in T : \A s \in T : s <= m
<1> DEFINE R == OpToRel(<, Nat)
           D == {LastSecond - s : s \in T}
<1>0. LastSecond \in Nat
  BY RealtyNumbers
<1>1. IsWellFoundedOn(R, Nat)
  BY NatLessThanWellFounded
<1>2. \A x, y \in Nat : x < y => <<x, y>> \in R
  BY DEF OpToRel
<1>3. \A s \in T : s \in Nat /\ LastSecond - s \in Nat
  BY <1>0 DEF Seconds
<1>4. D \subseteq Nat /\ D # {}
  BY <1>3
<1> HIDE DEF R
<1>5. PICK d \in D : \A y \in D : <<y, d>> \notin R
  <2> HIDE DEF D
  <2> QED BY <1>1, <1>4, WFMin
<1>6. PICK m \in T : d = LastSecond - m
  OBVIOUS
<1>7. ASSUME NEW s \in T PROVE s <= m
  <2>1. LastSecond - s \in D
    OBVIOUS
  <2>2. ~(LastSecond - s < d)
    <3> HIDE DEF D
    <3> QED BY <1>2, <1>4, <1>5, <2>1
  <2> QED BY <1>0, <1>3, <1>6, <2>2
<1> QED BY <1>7

(* The newest second of a feed is that of one of its events, and none is    *)
(* later.                                                                   *)
LEMMA NewestOf ==
  ASSUME NEW events \in SUBSET Events, events # {}
  PROVE  \E s \in Newest(events) : \A e \in events : e[1] <= s
<1> DEFINE T == {e[1] : e \in events}
<1>1. T \in SUBSET Seconds /\ T # {}
  BY DEF Events
<1>2. PICK m \in T : \A s \in T : s <= m
  <2> HIDE DEF T
  <2> QED BY <1>1, LastOf
<1>3. PICK x \in events : m = x[1]
  OBVIOUS
<1>4. \A y \in events : y[1] <= x[1]
  BY <1>2, <1>3
<1> QED BY <1>3, <1>4 DEF Newest

(* What a poll has read up to, after another page.                          *)
LEMMA LatestOf ==
  ASSUME NEW events \in SUBSET Events, NEW old \in Seconds \cup {NoSince}
  PROVE  /\ Latest(old, events) \in Seconds \cup {NoSince}
         /\ Latest(old, events) = NoSince <=> events = {} /\ old = NoSince
         /\ Latest(old, events) # NoSince =>
              \/ Latest(old, events) = old
              \/ \E x \in events : x[1] = Latest(old, events)
<1> DEFINE T == {e[1] : e \in events} \cup (IF old = NoSince THEN {} ELSE {old})
<1>0. NoSince \notin Seconds
  BY RealtyNumbers DEF Seconds
<1>1. T \in SUBSET Seconds
  BY DEF Events
<1>2. T = {} <=> events = {} /\ old = NoSince
  OBVIOUS
<1>3. ASSUME T # {}
      PROVE  /\ Latest(old, events) \in T
             /\ \A s \in T : s <= Latest(old, events)
  <2>1. \E m \in T : \A s \in T : s <= m
    <3> HIDE DEF T
    <3> QED BY <1>1, <1>3, LastOf
  <2>2. Latest(old, events) = CHOOSE s \in T : \A t \in T : t <= s
    BY <1>3 DEF Latest
  <2> HIDE DEF T
  <2> QED BY <2>1, <2>2
<1>4. T = {} => Latest(old, events) = NoSince
  BY DEF Latest
<1>5. Latest(old, events) \in T => \/ Latest(old, events) = old
                                   \/ \E x \in events : x[1] = Latest(old, events)
  OBVIOUS
<1> HIDE DEF T
<1> QED BY <1>0, <1>1, <1>2, <1>3, <1>4, <1>5

-----------------------------------------------------------------------------
(* The types.                                                               *)
LEMMA RealtyTypesInit == RealtyInit => RealtyTypeOK /\ LaneInv
<1> SUFFICES ASSUME RealtyInit PROVE RealtyTypeOK /\ LaneInv
  OBVIOUS
<1>1. /\ 0 \in Seconds /\ 1 \in Regions /\ FirstRegions \subseteq Regions
  BY RealtyAssumption DEF Seconds, Regions
<1>2. LaneInv
  BY <1>1 DEF RealtyInit, LaneInv, Lanes, LaneFree, Contracts
<1> QED BY <1>1, <1>2 DEF RealtyInit, RealtyTypeOK, LaneFree, Contracts

LEMMA RealtyTypesNext ==
  RealtyTypeOK /\ LaneInv /\ [RealtyNext]_realtyVars => RealtyTypeOK' /\ LaneInv'
<1> SUFFICES ASSUME RealtyTypeOK, LaneInv, [RealtyNext]_realtyVars
             PROVE  RealtyTypeOK' /\ LaneInv'
  OBVIOUS
<1> USE DEF RealtyTypeOK, upstreamRealty, realtyTables, contractRows, realtyJobs, Spend
<1>0. /\ LaneFree \in Lanes /\ LaneFree.job = "none" /\ LaneFree.phase = "idle"
      /\ LaneFree.touched = {}
  BY RealtyAssumption DEF LaneFree, Lanes, Regions, Contracts
<1>1. ASSUME NEW r \in Regions, Trade(r) PROVE RealtyTypeOK' /\ LaneInv'
  <2>1. <<now, r>> \in Events
    BY DEF Events
  <2> QED BY <1>1, <2>1 DEF Trade, LaneInv
<1>2. ASSUME NEW r \in Regions, Register(r) PROVE RealtyTypeOK' /\ LaneInv'
  BY <1>2 DEF Register, LaneInv
<1>3. ASSUME NEW r \in Regions, Deregister(r) PROVE RealtyTypeOK' /\ LaneInv'
  BY <1>3 DEF Deregister, LaneInv
<1>4. ASSUME NEW e \in Events, PublishLate(e) PROVE RealtyTypeOK' /\ LaneInv'
  BY <1>4 DEF PublishLate, LaneInv
<1>5. CASE Tick
  <2>1. now' \in Seconds
    BY <1>5, RealtyNumbers DEF Tick, Seconds
  <2> QED BY <1>5, <2>1 DEF Tick, LaneInv
<1>6. CASE ProbeStats
  BY <1>6, RegionsAreFinite, RealtyNumbers DEF ProbeStats, LaneInv
<1>7. CASE StartIndex
  <2>1. lane' \in Lanes /\ lane'.job = "index" /\ lane'.phase = "reading" /\ lane'.touched = {}
    BY <1>0, <1>7 DEF StartIndex, Lanes, LaneFree
  <2> QED BY <1>7, <2>1 DEF StartIndex, LaneInv
<1>8. CASE StartPoll
  <2>1. lane' \in Lanes /\ lane'.job = "activity" /\ lane'.phase = "reading" /\ lane'.touched = {}
    BY <1>0, <1>8 DEF StartPoll, Lanes, LaneFree
  <2> QED BY <1>8, <2>1 DEF StartPoll, LaneInv
<1>9. CASE ReadIndexPage
  <2> DEFINE rows == IndexPage(lane.page)
  <2>1. rows \in SUBSET Regions /\ NeedsDetail(rows) \in SUBSET Regions
    BY DEF IndexPage, NeedsDetail
  <2> DEFINE more == lane.page * IndexPageSize < Cardinality(registered)
  <2>2. /\ lane' = [lane EXCEPT !.touched = lane.touched \cup NeedsDetail(rows),
                               !.page = IF more THEN lane.page + 1 ELSE lane.page,
                               !.phase = IF more THEN "reading" ELSE "read"]
        /\ regionRows' = regionRows \cup rows
    BY <1>9 DEF ReadIndexPage
  <2> HIDE DEF rows, more
  <2>3. lane' \in Lanes /\ lane'.job = "index" /\ lane'.phase \in {"reading", "read"}
    <3>1. lane \in Lanes /\ lane.job = "index"
      BY <1>9 DEF ReadIndexPage, LaneInv
    <3>2. /\ lane.touched \cup NeedsDetail(rows) \in SUBSET Regions
          /\ (IF more THEN lane.page + 1 ELSE lane.page) \in Nat \ {0}
          /\ (IF more THEN "reading" ELSE "read") \in {"reading", "read"}
      <4>1. lane.touched \in SUBSET Regions /\ lane.page \in Nat \ {0}
        BY <3>1 DEF Lanes
      <4>2. lane.page + 1 \in Nat \ {0}
        BY <4>1
      <4> QED BY <2>1, <4>1, <4>2
    <3> QED BY <2>2, <3>1, <3>2 DEF Lanes
  <2> QED BY <1>9, <2>1, <2>2, <2>3 DEF ReadIndexPage, LaneInv, Lanes
<1>10. CASE ReadActivityPage
  <2> DEFINE events == ActivityPage(lane.page)
  <2>1. events \in SUBSET Events /\ TouchedBy(events) \in SUBSET Regions
    BY DEF ActivityPage, Shown, TouchedBy, Events
  <2>2. Latest(lane.newest, events) \in Seconds \cup {NoSince}
    BY <2>1, LatestOf DEF LaneInv, Lanes
  <2> DEFINE more == events # {} /\ lane.page * ActivityPageSize < Cardinality(Shown)
  <2>3. /\ lane' = [lane EXCEPT !.touched = lane.touched \cup TouchedBy(events),
                               !.newest = Latest(lane.newest, events),
                               !.page = IF more THEN lane.page + 1 ELSE lane.page,
                               !.phase = IF more THEN "reading" ELSE "read"]
        /\ heard' = heard \cup events
    BY <1>10 DEF ReadActivityPage
  <2> HIDE DEF events, more
  <2>4. lane' \in Lanes /\ lane'.job = "activity" /\ lane'.phase \in {"reading", "read"}
    <3>1. lane \in Lanes /\ lane.job = "activity"
      BY <1>10 DEF ReadActivityPage, LaneInv
    <3>2. /\ lane.touched \cup TouchedBy(events) \in SUBSET Regions
          /\ (IF more THEN lane.page + 1 ELSE lane.page) \in Nat \ {0}
          /\ (IF more THEN "reading" ELSE "read") \in {"reading", "read"}
      <4>1. lane.touched \in SUBSET Regions /\ lane.page \in Nat \ {0}
        BY <3>1 DEF Lanes
      <4>2. lane.page + 1 \in Nat \ {0}
        BY <4>1
      <4> QED BY <2>1, <4>1, <4>2
    <3> QED BY <2>2, <2>3, <3>1, <3>2 DEF Lanes
  <2> QED BY <1>10, <2>1, <2>3, <2>4 DEF ReadActivityPage, LaneInv, Lanes
<1>11. CASE QueueDetails
  <2>1. /\ lane' \in Lanes /\ lane'.phase = "queued" /\ lane'.job = lane.job
        /\ lane'.touched = lane.touched /\ lane.job \in {"index", "activity"}
    BY <1>11 DEF QueueDetails, LaneInv, Lanes
  <2> QED BY <1>11, <2>1 DEF QueueDetails, LaneInv
<1>12. CASE CommitIndex
  BY <1>0, <1>12 DEF CommitIndex, LaneInv
<1>13. CASE CommitPoll
  <2>1. lane.newest # NoSince => lane.newest - 1 \in Int
    <3>1. lane.newest \in Seconds \cup {NoSince}
      BY DEF LaneInv, Lanes
    <3>2. \A s \in Seconds : s - 1 \in Int
      BY RealtyNumbers DEF Seconds
    <3> QED BY <3>1, <3>2
  <2> QED BY <1>0, <1>13, <2>1 DEF CommitPoll, LaneInv
<1>14. ASSUME NEW r \in Regions, FetchDetail(r) PROVE RealtyTypeOK' /\ LaneInv'
  <2>1. CASE r \in registered
    <3>1. /\ lane' \in Lanes /\ lane'.job = "detail" /\ lane'.phase = "fetched"
          /\ lane'.region = r /\ lane'.touched = {}
      <4>1. lane' = [LaneFree EXCEPT !.job = "detail", !.phase = "fetched", !.region = r,
                                     !.found = contract[r]]
        BY <1>14, <2>1 DEF FetchDetail
      <4>2. contract[r] \in Contracts
        OBVIOUS
      <4> QED BY <1>0, <4>1, <4>2 DEF Lanes
    <3> QED BY <1>14, <2>1, <3>1 DEF FetchDetail, LaneInv
  <2>2. CASE r \notin registered
    BY <1>14, <2>2 DEF FetchDetail, LaneInv
  <2> QED BY <2>1, <2>2
<1>15. CASE PersistRegion
  <2>1. /\ lane' \in Lanes /\ lane'.job = "detail" /\ lane'.phase = "region stored"
        /\ lane'.region = lane.region /\ lane'.touched = lane.touched /\ lane.region \in Regions
    BY <1>15 DEF PersistRegion, Lanes, LaneInv
  <2>2. /\ regionRows' = regionRows \cup {lane.region} /\ detailed' = detailed \cup {lane.region}
        /\ UNCHANGED <<upstreamRealty, contractRows, heard, statsMark, sinceMark, realtyJobs>>
        /\ lane.job = "detail"
    BY <1>15 DEF PersistRegion
  <2> QED BY <2>1, <2>2 DEF LaneInv
<1>16. CASE PersistFreehold
  <2>1. /\ lane' \in Lanes /\ lane'.job = "detail" /\ lane'.phase = "freehold stored"
        /\ lane'.region = lane.region /\ lane'.touched = lane.touched /\ lane.region \in Regions
    BY <1>16 DEF PersistFreehold, Lanes, LaneInv
  <2>2. /\ freeholds' \subseteq freeholds \cup {lane.region}
        /\ UNCHANGED <<upstreamRealty, regionRows, detailed, leaseholds, heard, statsMark,
                       sinceMark, realtyJobs>>
        /\ lane.job = "detail"
    BY <1>16 DEF PersistFreehold, UpsertOrDelete
  <2> QED BY <2>1, <2>2 DEF LaneInv
<1>17. CASE PersistLeasehold
  <2>1. lane.region \in Regions
    BY DEF LaneInv, Lanes
  <2> QED BY <1>0, <1>17, <2>1 DEF PersistLeasehold, LaneInv, UpsertOrDelete
<1>18. CASE CutRealty
  BY <1>0, <1>18 DEF CutRealty, LaneInv
<1>19. CASE UNCHANGED realtyVars
  BY <1>19 DEF realtyVars, LaneInv
<1> QED BY <1>1, <1>2, <1>3, <1>4, <1>5, <1>6, <1>7, <1>8, <1>9, <1>10, <1>11, <1>12, <1>13,
           <1>14, <1>15, <1>16, <1>17, <1>18, <1>19 DEF RealtyNext, LaneStep

(* The tables hold regions and events, no job is for a region there never   *)
(* was, and a running detail job is still live.                             *)
THEOREM RealtyTypes == RealtySpec => []RealtyTypeOK
<1>1. RealtySpec => [](RealtyTypeOK /\ LaneInv)
  BY RealtyTypesInit, RealtyTypesNext, PTL DEF RealtySpec
<1> QED BY <1>1, PTL

-----------------------------------------------------------------------------
(* The place of x in a finite set under a total order, and what makes the   *)
(* pages cut from it.                                                       *)
Place(S, R, x) == Cardinality({y \in S : <<y, x>> \in R})

TotalOrder(S, R) ==
  /\ \A x \in S : <<x, x>> \in R
  /\ \A x, y \in S : <<x, y>> \in R \/ <<y, x>> \in R
  /\ \A x, y \in S : <<x, y>> \in R /\ <<y, x>> \in R => x = y
  /\ \A x, y, z \in S : <<x, y>> \in R /\ <<y, z>> \in R => <<x, z>> \in R

LEMMA PlacesInOrder ==
  ASSUME NEW S, IsFiniteSet(S), NEW R, TotalOrder(S, R)
  PROVE  /\ Cardinality(S) \in Nat
         /\ \A x \in S : Place(S, R, x) \in 1..Cardinality(S)
         /\ \A x, y \in S : <<x, y>> \in R /\ x # y => Place(S, R, x) < Place(S, R, y)
         /\ \A n \in 1..Cardinality(S) : \E x \in S : Place(S, R, x) = n
<1> DEFINE upTo(x) == {y \in S : <<y, x>> \in R}
           c == Cardinality(S)
<1>1. c \in Nat
  BY FS_CardinalityType
<1>2. ASSUME NEW x \in S
      PROVE  /\ upTo(x) \in SUBSET S /\ x \in upTo(x) /\ IsFiniteSet(upTo(x))
             /\ Cardinality(upTo(x)) \in Nat /\ Cardinality(upTo(x)) <= c
             /\ Cardinality(upTo(x)) # 0
  <2>1. upTo(x) \in SUBSET S /\ x \in upTo(x)
    BY DEF TotalOrder
  <2> HIDE DEF upTo, c
  <2>2. IsFiniteSet(upTo(x)) /\ Cardinality(upTo(x)) <= c
    BY <2>1, FS_Subset DEF c
  <2> QED BY <2>1, <2>2, FS_CardinalityType, FS_EmptySet
<1>3. ASSUME NEW x \in S, NEW y \in S, <<x, y>> \in R, x # y
      PROVE  Cardinality(upTo(x)) < Cardinality(upTo(y))
  <2>1. upTo(x) \in SUBSET upTo(y) /\ y \notin upTo(x) /\ y \in upTo(y)
    BY <1>3 DEF TotalOrder
  <2>2. /\ IsFiniteSet(upTo(y)) /\ Cardinality(upTo(x)) \in Nat /\ Cardinality(upTo(y)) \in Nat
    BY <1>2
  <2> HIDE DEF upTo
  <2>3. /\ Cardinality(upTo(x)) <= Cardinality(upTo(y))
        /\ Cardinality(upTo(x)) # Cardinality(upTo(y))
    BY <2>1, <2>2, FS_Subset
  <2> QED BY <2>2, <2>3
<1>4. ASSUME NEW n \in 1..c PROVE \E x \in S : Cardinality(upTo(x)) = n
  <2> DEFINE f == [x \in S |-> Cardinality(upTo(x))]
  <2>1. IsFiniteSet(1..c) /\ Cardinality(1..c) = c
    <3> HIDE DEF c
    <3>1. IsFiniteSet(1..c) /\ Cardinality(1..c) = IF 1 > c THEN 0 ELSE c - 1 + 1
      BY <1>1, FS_Interval
    <3> QED BY <1>1, <3>1
  <2>2. f \in [S -> 1..c]
    <3> HIDE DEF upTo, c
    <3> QED BY <1>1, <1>2
  <2>3. ASSUME NEW x \in S, NEW y \in S, f[x] = f[y] PROVE x = y
    <3>1. <<x, y>> \in R \/ <<y, x>> \in R
      BY DEF TotalOrder
    <3>2. Cardinality(upTo(x)) = Cardinality(upTo(y)) /\ Cardinality(upTo(x)) \in Nat
      BY <1>2, <2>3
    <3> HIDE DEF upTo
    <3> QED BY <1>3, <3>1, <3>2
  <2>4. f \in Surjection(S, 1..c)
    <3> HIDE DEF f, c
    <3>1. f \in Injection(S, 1..c)
      BY <2>2, <2>3 DEF Injection, IsInjective
    <3> QED BY <2>1, <3>1, FS_Injection DEF c
  <2>5. PICK x \in S : f[x] = n
    BY <2>4 DEF Surjection
  <2> QED BY <2>5
<1>5. \A x \in S : Place(S, R, x) = Cardinality(upTo(x))
  BY DEF Place
<1> HIDE DEF upTo
<1>6. \A x \in S : Place(S, R, x) \in 1..c
  BY <1>1, <1>2, <1>5
<1>7. \A x, y \in S : <<x, y>> \in R /\ x # y => Place(S, R, x) < Place(S, R, y)
  BY <1>3, <1>5
<1>8. \A n \in 1..c : \E x \in S : Place(S, R, x) = n
  BY <1>4, <1>5
<1> QED BY <1>1, <1>6, <1>7, <1>8

(* Pages lie end to end.                                                    *)
LEMMA PagesInARow ==
  ASSUME NEW n \in Nat \ {0}, NEW size \in Nat \ {0}
  PROVE  /\ (n - 1) * size \in Nat
         /\ n * size = (n - 1) * size + size
         /\ (n + 1 - 1) * size = n * size
         /\ n = 1 => (n - 1) * size = 0
<1>1. ASSUME NEW k \in Nat, NEW m \in Nat
      PROVE  k * m \in Nat /\ (k + 1) * m = k * m + m /\ 0 * m = 0
  BY SMT
<1>2. n - 1 \in Nat /\ size \in Nat
  OBVIOUS
<1>3. (n - 1) * size \in Nat /\ (n - 1 + 1) * size = (n - 1) * size + size /\ 0 * size = 0
  BY <1>1, <1>2
<1>4. n - 1 + 1 = n /\ n + 1 - 1 = n /\ (n = 1 => n - 1 = 0)
  OBVIOUS
<1> QED BY <1>3, <1>4

-----------------------------------------------------------------------------
(* The index in the order of the regions, ...                               *)
LEMMA IndexPages ==
  ASSUME RealtyTypeOK, NEW n \in Nat \ {0}
  PROVE  /\ Cardinality(registered) \in Nat
         /\ \A r \in registered : IndexRank(r) \in 1..Cardinality(registered)
         /\ \A r \in registered : r \in IndexPage(n) <=>
              (n - 1) * IndexPageSize < IndexRank(r) /\ IndexRank(r) <= n * IndexPageSize
<1> DEFINE R == {pair \in Regions \X Regions : pair[1] <= pair[2]}
<1>1. IsFiniteSet(registered) /\ registered \in SUBSET Regions
  BY RegionsAreFinite DEF RealtyTypeOK
<1>2. \A x, y \in Regions : x \in Int /\ y \in Int /\ (<<x, y>> \in R <=> x <= y)
  BY DEF Regions
<1>3. TotalOrder(registered, R)
  <2> HIDE DEF R
  <2> QED BY <1>1, <1>2 DEF TotalOrder
<1>4. \A r \in registered : IndexRank(r) = Place(registered, R, r)
  <2> HIDE DEF R
  <2>1. ASSUME NEW r \in registered
        PROVE  {s \in registered : s <= r} = {s \in registered : <<s, r>> \in R}
    BY <1>1, <1>2
  <2> QED BY <2>1 DEF IndexRank, Place
<1> HIDE DEF R
<1>5. /\ Cardinality(registered) \in Nat
      /\ \A r \in registered : IndexRank(r) \in 1..Cardinality(registered)
  BY <1>1, <1>3, <1>4, PlacesInOrder
<1> QED BY <1>5 DEF IndexPage

(* ... and the activity, newest first.                                      *)
LEMMA ActivityPages ==
  ASSUME RealtyTypeOK, NEW n \in Nat \ {0}
  PROVE  /\ Cardinality(Shown) \in Nat
         /\ ActivityPage(n) \in SUBSET Shown
         /\ \A e \in Shown : ActivityRank(e) \in 1..Cardinality(Shown)
         /\ \A d, e \in Shown : d[1] > e[1] => ActivityRank(d) < ActivityRank(e)
         /\ \A e \in Shown : e \in ActivityPage(n) <=>
              /\ (n - 1) * ActivityPageSize < ActivityRank(e)
              /\ ActivityRank(e) <= n * ActivityPageSize
         /\ ActivityPage(n) = {} => Cardinality(Shown) <= (n - 1) * ActivityPageSize
<1> DEFINE R == {pair \in Events \X Events : Before(pair[1], pair[2])}
           above == (n - 1) * ActivityPageSize
<1>1. IsFiniteSet(Shown) /\ Shown \in SUBSET Events
  BY EventsAreFinite DEF RealtyTypeOK, Shown
<1>2. /\ \A d, e \in Events : <<d, e>> \in R <=> Before(d, e)
      /\ \A e \in Events : e[1] \in Int /\ e[2] \in Int /\ e = <<e[1], e[2]>>
  BY DEF Events, Seconds, Regions
<1>3. TotalOrder(Shown, R)
  <2> HIDE DEF R
  <2>1. \A e \in Shown : <<e, e>> \in R
    BY <1>1, <1>2 DEF Before
  <2>2. ASSUME NEW d \in Shown, NEW e \in Shown PROVE <<d, e>> \in R \/ <<e, d>> \in R
    <3>1. d[1] \in Int /\ d[2] \in Int /\ e[1] \in Int /\ e[2] \in Int
      BY <1>1, <1>2
    <3>2. Before(d, e) \/ Before(e, d)
      BY <3>1 DEF Before
    <3> QED BY <1>1, <1>2, <3>2
  <2>3. \A d, e \in Shown : <<d, e>> \in R /\ <<e, d>> \in R => d = e
    <3> SUFFICES ASSUME NEW d \in Shown, NEW e \in Shown, Before(d, e), Before(e, d)
                 PROVE  d = e
      BY <1>1, <1>2
    <3>1. d[1] = e[1] /\ d[2] = e[2]
      BY <1>1, <1>2 DEF Before
    <3> QED BY <1>1, <1>2, <3>1
  <2>4. \A c, d, e \in Shown : <<c, d>> \in R /\ <<d, e>> \in R => <<c, e>> \in R
    BY <1>1, <1>2 DEF Before
  <2> QED BY <2>1, <2>2, <2>3, <2>4 DEF TotalOrder
<1>4. \A e \in Shown : ActivityRank(e) = Place(Shown, R, e)
  <2> HIDE DEF R
  <2>1. ASSUME NEW e \in Shown
        PROVE  {d \in Shown : Before(d, e)} = {d \in Shown : <<d, e>> \in R}
    BY <1>1, <1>2
  <2> QED BY <2>1 DEF ActivityRank, Place
<1>5. \A d, e \in Shown : d[1] > e[1] => <<d, e>> \in R /\ d # e
  <2> HIDE DEF R
  <2> QED BY <1>1, <1>2 DEF Before
<1> HIDE DEF R
<1>6. /\ Cardinality(Shown) \in Nat
      /\ \A e \in Shown : ActivityRank(e) \in 1..Cardinality(Shown)
      /\ \A d, e \in Shown : d[1] > e[1] => ActivityRank(d) < ActivityRank(e)
      /\ \A k \in 1..Cardinality(Shown) : \E e \in Shown : ActivityRank(e) = k
  <2>1. /\ Cardinality(Shown) \in Nat
        /\ \A e \in Shown : Place(Shown, R, e) \in 1..Cardinality(Shown)
        /\ \A d, e \in Shown : <<d, e>> \in R /\ d # e => Place(Shown, R, d) < Place(Shown, R, e)
        /\ \A k \in 1..Cardinality(Shown) : \E e \in Shown : Place(Shown, R, e) = k
    BY <1>1, <1>3, PlacesInOrder
  <2>2. \A d, e \in Shown : d[1] > e[1] => Place(Shown, R, d) < Place(Shown, R, e)
    BY <1>5, <2>1
  <2> QED BY <1>4, <2>1, <2>2
<1>7. /\ above \in Nat /\ n * ActivityPageSize = above + ActivityPageSize
      /\ ActivityPageSize \in Nat \ {0}
  BY PagesInARow, RealtyNumbers
<1>8. ASSUME ActivityPage(n) = {}, ~(Cardinality(Shown) <= above) PROVE FALSE
  <2> HIDE DEF above
  <2>1. above + 1 \in 1..Cardinality(Shown)
    BY <1>6, <1>7, <1>8
  <2>2. PICK e \in Shown : ActivityRank(e) = above + 1
    BY <1>6, <2>1
  <2>3. above < ActivityRank(e) /\ ActivityRank(e) <= n * ActivityPageSize
    BY <1>7, <2>2
  <2>4. e \in ActivityPage(n)
    BY <2>3 DEF ActivityPage, above
  <2> QED BY <1>8, <2>4
<1> QED BY <1>6, <1>8 DEF ActivityPage

(* What joins the feed moves an event down, if at all.                      *)
LEMMA EventsMoveDown ==
  ASSUME RealtyTypeOK, RealtyTypeOK', Shown \subseteq Shown'
  PROVE  \A e \in Shown : ActivityRank(e)' >= ActivityRank(e)
<1> SUFFICES ASSUME NEW e \in Shown PROVE ActivityRank(e)' >= ActivityRank(e)
  OBVIOUS
<1> DEFINE old == {d \in Shown : Before(d, e)}
           new == {d \in Shown' : Before(d, e)}
<1>1. old \in SUBSET new /\ new \in SUBSET Events
  BY DEF RealtyTypeOK, Shown
<1>2. ActivityRank(e) = Cardinality(old) /\ ActivityRank(e)' = Cardinality(new)
  BY DEF ActivityRank, Before
<1> HIDE DEF old, new
<1>3. IsFiniteSet(new) /\ Cardinality(new) \in Nat
  BY <1>1, EventsAreFinite
<1>4. Cardinality(old) \in Nat /\ Cardinality(old) <= Cardinality(new)
  BY <1>1, <1>3, FS_Subset, FS_CardinalityType
<1> QED BY <1>2, <1>3, <1>4

-----------------------------------------------------------------------------
(* Where the poll begins is never after now.                                *)
LEMMA SinceIsPast ==
  ASSUME RealtyTypeOK, TimeInv
  PROVE  Since \in Int /\ Since <= now /\ (sinceMark # NoSince => Since = sinceMark)
<1>1. now \in Nat /\ \A e \in Events : e[1] \in Int
  BY RealtyNumbers DEF RealtyTypeOK, Seconds, Events
<1>2. CASE sinceMark = NoSince
  BY <1>1, <1>2 DEF Since
<1>3. CASE sinceMark # NoSince
  <2>1. sinceMark \in Int
    BY <1>3 DEF RealtyTypeOK
  <2>2. PICK e \in activityFeed : sinceMark < e[1]
    BY <1>3 DEF TimeInv
  <2>3. e[1] <= now /\ e[1] \in Int
    BY <1>1 DEF TimeInv, RealtyTypeOK
  <2> QED BY <1>1, <1>3, <2>1, <2>2, <2>3 DEF Since
<1> QED BY <1>2, <1>3

(* Excuses and the feed only grow, and what surfaces is at most a second    *)
(* behind what the feed shows.                                              *)
Surfaced == (activityFeed' \ activityFeed) \cup (unpublished \ unpublished')

LEMMA FeedSteps ==
  ASSUME RealtyTypeOK, TimeInv, [RealtyNext]_realtyVars
  PROVE  /\ realtyExcuses \subseteq realtyExcuses' /\ now <= now'
         /\ activityFeed \subseteq activityFeed'
         /\ activityFeed \cup unpublished \subseteq activityFeed' \cup unpublished'
         /\ \A e \in activityFeed' \cup unpublished' : e \in activityFeed \cup unpublished \/ e[1] = now
         /\ realtyExcuses' = {} =>
              \A e \in Surfaced : e[1] >= Since /\ \A d \in activityFeed : e[1] >= d[1] - 1
<1> DEFINE Goal == /\ realtyExcuses \subseteq realtyExcuses' /\ now <= now'
                   /\ activityFeed \subseteq activityFeed'
                   /\ activityFeed \cup unpublished \subseteq activityFeed' \cup unpublished'
                   /\ \A e \in activityFeed' \cup unpublished' :
                         e \in activityFeed \cup unpublished \/ e[1] = now
                   /\ realtyExcuses' = {} =>
                        \A e \in Surfaced : /\ e[1] >= Since
                                            /\ \A d \in activityFeed : e[1] >= d[1] - 1
<1>1. /\ now \in Nat /\ activityFeed \in SUBSET Events
      /\ \A e \in Events : e[1] \in Int
  BY RealtyNumbers DEF RealtyTypeOK, Seconds, Events
<1>2. Since \in Int /\ Since <= now /\ (sinceMark # NoSince => Since = sinceMark)
  BY SinceIsPast
<1>3. \A d \in activityFeed : d[1] <= now /\ d[1] \in Int
  BY <1>1 DEF TimeInv
<1>4. ASSUME NEW r \in Regions, Trade(r) PROVE Goal
  <2>1. /\ activityFeed' \in {activityFeed, activityFeed \cup {<<now, r>>}}
        /\ unpublished' \in {unpublished, unpublished \cup {<<now, r>>}}
        /\ realtyExcuses' = realtyExcuses /\ now' = now
    BY <1>4 DEF Trade
  <2>2. \A e \in Surfaced : e[1] = now
    BY <2>1 DEF Surfaced
  <2>3. \A e \in activityFeed' \cup unpublished' : e \in activityFeed \cup unpublished \/ e[1] = now
    BY <2>1
  <2> QED BY <1>1, <1>2, <1>3, <2>1, <2>2, <2>3
<1>5. ASSUME NEW e \in Events, PublishLate(e) PROVE Goal
  <2>1. /\ unpublished' = unpublished \ {e} /\ activityFeed' = activityFeed \cup {e}
        /\ e \in unpublished /\ now' = now /\ realtyExcuses \subseteq realtyExcuses'
        /\ realtyExcuses' = {} => ~\E s \in Newest(activityFeed) : e[1] < s - 1
    BY <1>5 DEF PublishLate
  <2>2. e[1] \in Nat
    BY RealtyNumbers DEF Events, Seconds
  <2>3. ASSUME realtyExcuses' = {}, NEW d \in activityFeed PROVE e[1] >= d[1] - 1
    <3>1. PICK s \in Newest(activityFeed) : \A x \in activityFeed : x[1] <= s
      BY <1>1, NewestOf
    <3>2. s \in Int
      BY <1>1, <3>1 DEF Newest
    <3> QED BY <1>3, <2>1, <2>2, <2>3, <3>1, <3>2
  <2>4. ASSUME realtyExcuses' = {} PROVE e[1] >= Since
    <3>1. CASE sinceMark = NoSince
      BY <2>2, <3>1 DEF Since
    <3>2. CASE sinceMark # NoSince
      <4>1. PICK d \in activityFeed : sinceMark < d[1]
        BY <3>2 DEF TimeInv
      <4> QED BY <1>2, <1>3, <2>2, <2>3, <2>4, <3>2, <4>1
    <3> QED BY <3>1, <3>2
  <2> QED BY <1>1, <2>1, <2>3, <2>4 DEF Surfaced
<1>6. ASSUME UNCHANGED <<activityFeed, unpublished>>, realtyExcuses \subseteq realtyExcuses',
             now' >= now
      PROVE  Goal
  BY <1>1, <1>6 DEF Surfaced
<1>7. ASSUME NEW r \in Regions, Register(r) \/ Deregister(r) \/ FetchDetail(r)
      PROVE  UNCHANGED <<activityFeed, unpublished>> /\ realtyExcuses \subseteq realtyExcuses' /\ now' = now
  BY <1>7 DEF Register, Deregister, FetchDetail, upstreamRealty
<1>8. ASSUME LaneStep \/ CutRealty \/ ProbeStats \/ StartIndex \/ StartPoll \/ UNCHANGED realtyVars
      PROVE  UNCHANGED <<activityFeed, unpublished>> /\ realtyExcuses \subseteq realtyExcuses' /\ now' = now
  BY <1>8 DEF LaneStep, CutRealty, ProbeStats, StartIndex, StartPoll, ReadIndexPage,
     ReadActivityPage, QueueDetails, CommitIndex, CommitPoll, PersistRegion, PersistFreehold,
     PersistLeasehold, upstreamRealty, realtyVars
<1>9. ASSUME Tick PROVE Goal
  BY <1>1, <1>6, <1>9 DEF Tick
<1> HIDE DEF Goal
<1>10. Goal
  <2>1. now' = now => now' >= now
    BY <1>1
  <2> QED BY <1>4, <1>5, <1>6, <1>7, <1>8, <1>9, <2>1 DEF RealtyNext
<1> QED BY <1>10 DEF Goal

(* So as long as the watermark stays, nothing leaves the reach of the poll. *)
LEMMA ReachIsKept ==
  ASSUME RealtyTypeOK, TimeInv, [RealtyNext]_realtyVars,
         realtyExcuses' = {}, sinceMark' = sinceMark
  PROVE  /\ Since' = Since /\ Shown \subseteq Shown'
         /\ \A e \in Shown' \ Shown : \A d \in activityFeed : e[1] >= d[1] - 1
         /\ \A r : EventInReach(r) => EventInReach(r)'
<1>1. /\ activityFeed \subseteq activityFeed'
      /\ activityFeed \cup unpublished \subseteq activityFeed' \cup unpublished'
      /\ \A e \in Surfaced : e[1] >= Since /\ \A d \in activityFeed : e[1] >= d[1] - 1
  BY FeedSteps
<1>2. Since' = Since
  BY DEF Since
<1>3. Shown \subseteq Shown' /\ \A e \in Shown' \ Shown : e \in Surfaced
  BY <1>1, <1>2 DEF Shown, Surfaced
<1>4. ASSUME NEW r, EventInReach(r) PROVE EventInReach(r)'
  <2>1. PICK e \in Shown \cup unpublished : e[2] = r
    BY <1>4 DEF EventInReach
  <2>2. e \in Shown' \cup unpublished'
    BY <1>1, <1>2, <1>3, <2>1 DEF Shown, Surfaced
  <2> QED BY <2>1, <2>2 DEF EventInReach
<1> QED BY <1>1, <1>2, <1>3, <1>4

(* A change has its event in reach.                                         *)
LEMMA TradesAreInReach ==
  ASSUME RealtyTypeOK, TimeInv, NEW r \in Regions, Trade(r)
  PROVE  EventInReach(r)'
<1>1. <<now, r>> \in activityFeed' \cup unpublished' /\ sinceMark' = sinceMark
  BY DEF Trade, realtyTables
<1>2. Since' = Since /\ Since <= now /\ Since \in Int /\ now \in Int
  BY <1>1, SinceIsPast, RealtyNumbers DEF Since, RealtyTypeOK, Seconds
<1>3. <<now, r>> \in Shown' \cup unpublished'
  BY <1>1, <1>2 DEF Shown
<1> QED BY <1>3 DEF EventInReach

-----------------------------------------------------------------------------
(* Which job the lane runs after a step.                                    *)
LEMMA LaneJobs ==
  ASSUME RealtyTypeOK, LaneInv
  PROVE  /\ StartIndex => /\ lane'.job = "index" /\ lane'.phase = "reading" /\ lane'.page = 1
                          /\ lane'.newest = NoSince
         /\ StartPoll => /\ lane'.job = "activity" /\ lane'.phase = "reading" /\ lane'.page = 1
                         /\ lane'.newest = NoSince
         /\ CommitIndex \/ CommitPoll \/ PersistLeasehold \/ CutRealty =>
              lane'.job = "none" /\ lane'.newest = NoSince
         /\ ReadIndexPage => lane'.job = "index" /\ lane.job = "index" /\ lane'.newest = lane.newest
         /\ ReadActivityPage => lane'.job = "activity" /\ lane.job = "activity"
         /\ QueueDetails => lane'.job = lane.job /\ lane.job \in {"index", "activity"}
         /\ PersistRegion \/ PersistFreehold =>
              /\ lane'.job = "detail" /\ lane.job = "detail" /\ lane'.region = lane.region
              /\ lane'.newest = lane.newest /\ lane'.found = lane.found
         /\ ProbeStats => lane' = lane /\ lane.job = "none"
<1>1. /\ LaneFree.job = "none" /\ LaneFree.newest = NoSince /\ LaneFree.page = 1
  BY DEF LaneFree
<1>2. StartIndex => /\ lane'.job = "index" /\ lane'.phase = "reading" /\ lane'.page = 1
                    /\ lane'.newest = NoSince
  BY DEF StartIndex, LaneFree
<1>3. StartPoll => /\ lane'.job = "activity" /\ lane'.phase = "reading" /\ lane'.page = 1
                   /\ lane'.newest = NoSince
  BY DEF StartPoll, LaneFree
<1>4. CommitIndex => lane' = LaneFree
  BY DEF CommitIndex
<1>5. CommitPoll => lane' = LaneFree
  BY DEF CommitPoll
<1>6. PersistLeasehold => lane' = LaneFree
  BY DEF PersistLeasehold
<1>7. CutRealty => lane' = LaneFree
  BY DEF CutRealty
<1>8. ReadIndexPage => lane'.job = "index" /\ lane.job = "index" /\ lane'.newest = lane.newest
  BY DEF ReadIndexPage, LaneInv, Lanes
<1>9. ReadActivityPage => lane'.job = "activity" /\ lane.job = "activity"
  BY DEF ReadActivityPage, LaneInv, Lanes
<1>10. QueueDetails => lane'.job = lane.job /\ lane.job \in {"index", "activity"}
  BY DEF QueueDetails, LaneInv, Lanes
<1>11. PersistRegion => /\ lane'.job = "detail" /\ lane.job = "detail" /\ lane'.region = lane.region
                        /\ lane'.newest = lane.newest /\ lane'.found = lane.found
  BY DEF PersistRegion, LaneInv, Lanes
<1>12. PersistFreehold => /\ lane'.job = "detail" /\ lane.job = "detail"
                          /\ lane'.region = lane.region
                          /\ lane'.newest = lane.newest /\ lane'.found = lane.found
  BY DEF PersistFreehold, LaneInv, Lanes
<1>13. ProbeStats => lane' = lane /\ lane.job = "none"
  BY DEF ProbeStats
<1> QED BY <1>1, <1>2, <1>3, <1>4, <1>5, <1>6, <1>7, <1>8, <1>9, <1>10, <1>11, <1>12, <1>13

-----------------------------------------------------------------------------
(* The feed never runs ahead of the clock, nor the watermark of the feed.   *)
LEMMA TimeNext ==
  ASSUME RealtyTypeOK, LaneInv, TimeInv, [RealtyNext]_realtyVars, RealtyTypeOK'
  PROVE  TimeInv'
<1>0. /\ now \in Int /\ now' \in Int /\ activityFeed \in SUBSET Events
      /\ \A e \in Events : e[1] \in Int
      /\ \A s \in Seconds : s \in Int
      /\ lane.newest \in Seconds \cup {NoSince}
      /\ NoSince \notin Int
      /\ \A e \in activityFeed \cup unpublished : e \in Events
  <2>1. \A s \in Seconds : s \in Int
    BY RealtyNumbers DEF Seconds
  <2>2. \A e \in Events : e[1] \in Seconds
    BY DEF Events
  <2>3. lane.newest \in Seconds \cup {NoSince}
    BY DEF LaneInv, Lanes
  <2> QED BY <2>1, <2>2, <2>3, RealtyNumbers DEF RealtyTypeOK
<1>1. /\ now <= now' /\ activityFeed \subseteq activityFeed'
      /\ \A e \in activityFeed' \cup unpublished' : e \in activityFeed \cup unpublished \/ e[1] = now
  BY FeedSteps
<1>2. \A e \in activityFeed' \cup unpublished' : e[1] <= now'
  BY <1>0, <1>1 DEF TimeInv
<1>3. sinceMark' # NoSince => \E e \in activityFeed' : sinceMark' < e[1]
  <2>1. CASE sinceMark' = sinceMark
    BY <1>1, <2>1 DEF TimeInv
  <2>2. CASE CommitPoll
    <3>1. CASE lane.newest = NoSince
      BY <2>1, <2>2, <3>1 DEF CommitPoll
    <3>2. CASE lane.newest # NoSince
      <4>1. sinceMark' = lane.newest - 1
        BY <2>2, <3>2 DEF CommitPoll
      <4>2. PICK e \in activityFeed : e[1] = lane.newest
        BY <3>2 DEF TimeInv
      <4>3. lane.newest - 1 < e[1]
        BY <1>0, <3>2, <4>2
      <4> QED BY <1>1, <4>1, <4>3
    <3> QED BY <3>1, <3>2
  <2>3. ~CommitPoll => sinceMark' = sinceMark
    BY DEF RealtyNext, LaneStep, CutRealty, ProbeStats, StartIndex, StartPoll, ReadIndexPage,
       ReadActivityPage, QueueDetails, CommitIndex, PersistRegion, PersistFreehold,
       PersistLeasehold, Register, Deregister, FetchDetail, Trade, PublishLate, Tick,
       realtyTables, realtyVars
  <2> QED BY <2>1, <2>2, <2>3
<1> DEFINE Newer == /\ lane'.newest # NoSince => \E e \in activityFeed' : e[1] = lane'.newest
                    /\ lane'.job = "activity" /\ lane'.newest = NoSince =>
                         lane'.phase = "reading" /\ lane'.page = 1 /\ Shown' # {}
<1> SUFFICES Newer
  BY <1>2, <1>3 DEF TimeInv
<1>4. ASSUME lane'.newest = NoSince, lane'.job # "activity" PROVE Newer
  BY <1>4
<1>5. ASSUME lane'.newest = lane.newest, lane'.job # "activity" PROVE Newer
  BY <1>1, <1>5 DEF TimeInv
<1>6. CASE StartPoll
  BY <1>6 DEF StartPoll, LaneFree, Shown, Since, upstreamRealty, realtyTables
<1>7. CASE ReadActivityPage
  <2> DEFINE events == ActivityPage(lane.page)
  <2>1. /\ lane.page \in Nat \ {0} /\ lane.newest \in Seconds \cup {NoSince}
        /\ lane'.newest = Latest(lane.newest, events) /\ lane.job = "activity"
    BY <1>7 DEF ReadActivityPage, LaneInv, Lanes
  <2>2. events \in SUBSET Events /\ events \in SUBSET activityFeed
    BY <1>0 DEF ActivityPage, Shown
  <2>3. /\ lane'.newest = NoSince <=> events = {} /\ lane.newest = NoSince
        /\ lane'.newest # NoSince => lane'.newest = lane.newest \/ \E x \in events : x[1] = lane'.newest
    <3> HIDE DEF events
    <3> QED BY <2>1, <2>2, LatestOf
  <2>4. lane'.newest # NoSince
    <3> SUFFICES ASSUME events = {}, lane.newest = NoSince PROVE FALSE
      BY <2>3
    <3>1. lane.page = 1 /\ Shown # {}
      BY <2>1 DEF TimeInv
    <3>2. Cardinality(Shown) <= (lane.page - 1) * ActivityPageSize /\ Cardinality(Shown) \in Nat
      BY <2>1, ActivityPages
    <3>3. (lane.page - 1) * ActivityPageSize = 0
      BY <2>1, <3>1, PagesInARow, RealtyNumbers
    <3>4. Shown \in SUBSET Events
      BY <1>0 DEF Shown
    <3> QED BY <3>1, <3>2, <3>3, <3>4, EventsAreFinite, FS_EmptySet
  <2> QED BY <1>1, <2>2, <2>3, <2>4 DEF TimeInv
<1>8. CASE QueueDetails
  <2>1. /\ lane'.newest = lane.newest /\ lane'.job = lane.job /\ lane.phase = "read"
    BY <1>8 DEF QueueDetails, LaneInv, Lanes
  <2> QED BY <1>1, <2>1 DEF TimeInv
<1>9. CASE lane' = lane
  <2>1. sinceMark' = sinceMark \/ CommitPoll
    BY DEF RealtyNext, LaneStep, CutRealty, ProbeStats, StartIndex, StartPoll, ReadIndexPage,
       ReadActivityPage, QueueDetails, CommitIndex, PersistRegion, PersistFreehold,
       PersistLeasehold, Register, Deregister, FetchDetail, Trade, PublishLate, Tick,
       realtyTables, realtyVars
  <2>2. CASE CommitPoll
    BY <1>4, <2>2 DEF CommitPoll, LaneFree
  <2>3. CASE sinceMark' = sinceMark
    <3>1. Shown \subseteq Shown'
      BY <1>1, <2>3 DEF Shown, Since
    <3> QED BY <1>1, <1>9, <3>1 DEF TimeInv
  <2> QED BY <2>1, <2>2, <2>3
<1>10. ASSUME StartIndex \/ CommitIndex \/ CommitPoll \/ PersistLeasehold \/ CutRealty PROVE Newer
  <2>1. lane'.newest = NoSince /\ lane'.job # "activity"
    BY <1>10, LaneJobs
  <2> QED BY <1>4, <2>1
<1>11. ASSUME NEW r \in Regions, FetchDetail(r) PROVE Newer
  <2>1. CASE r \in registered
    BY <1>4, <1>11, <2>1 DEF FetchDetail, LaneFree
  <2>2. CASE r \notin registered
    BY <1>9, <1>11, <2>2 DEF FetchDetail
  <2> QED BY <2>1, <2>2
<1>12. ASSUME ReadIndexPage \/ PersistRegion \/ PersistFreehold PROVE Newer
  <2>1. lane'.newest = lane.newest /\ lane'.job = lane.job /\ lane.job # "activity"
    BY <1>12, LaneJobs
  <2> QED BY <1>5, <2>1
<1>13. ASSUME \/ \E r \in Regions : Trade(r) \/ Register(r) \/ Deregister(r)
              \/ \E e \in Events : PublishLate(e)
              \/ Tick \/ ProbeStats \/ UNCHANGED realtyVars
       PROVE  lane' = lane
  BY <1>13 DEF Trade, Register, Deregister, PublishLate, Tick, ProbeStats, realtyVars
<1> HIDE DEF Newer
<1> QED BY <1>6, <1>7, <1>8, <1>9, <1>10, <1>11, <1>12, <1>13 DEF RealtyNext, LaneStep

-----------------------------------------------------------------------------
(* What is stored is registered, and no count is ahead of the registry.     *)
LEMMA CountNext ==
  ASSUME RealtyTypeOK, LaneInv, TimeInv, CountInv, [RealtyNext]_realtyVars, RealtyTypeOK'
  PROVE  CountInv'
<1> SUFFICES ASSUME realtyExcuses' = {} PROVE CountInv'
  BY DEF CountInv
<1>0. /\ realtyExcuses = {}
      /\ detailed \subseteq registered
      /\ lane.job = "detail" => lane.region \in registered
      /\ statsMark # NoStats => statsMark <= Cardinality(registered)
      /\ indexJob # NoStats => /\ indexJob <= Cardinality(registered)
                               /\ statsMark # Cardinality(registered)
  BY FeedSteps DEF CountInv
<1>1. /\ Cardinality(registered) \in Nat /\ NoStats \notin Nat
      /\ statsMark \in Nat \cup {NoStats} /\ indexJob \in Nat \cup {NoStats}
  BY RegionsAreFinite, RealtyNumbers DEF RealtyTypeOK
<1>2. ASSUME NEW r \in Regions, Register(r) PROVE CountInv'
  <2>1. /\ registered' = registered \cup {r} /\ r \notin registered
        /\ UNCHANGED <<detailed, lane, statsMark, indexJob>>
    BY <1>2 DEF Register, realtyTables, realtyJobs
  <2>2. Cardinality(registered') = Cardinality(registered) + 1
    BY <2>1, RegionsAreFinite, FS_AddElement DEF RealtyTypeOK
  <2> QED BY <1>0, <1>1, <2>1, <2>2 DEF CountInv
<1>3. ASSUME NEW r \in Regions, Deregister(r) PROVE FALSE
  BY <1>3 DEF Deregister
<1>4. CASE ProbeStats
  <2>1. /\ indexJob' = Cardinality(registered) /\ Cardinality(registered) # statsMark
        /\ UNCHANGED <<registered, detailed, lane, statsMark>>
    BY <1>4 DEF ProbeStats, upstreamRealty, realtyTables
  <2> QED BY <1>0, <1>1, <2>1 DEF CountInv
<1>5. CASE CommitIndex
  <2>1. /\ statsMark' = indexJob /\ indexJob' = NoStats /\ lane'.job = "none"
        /\ UNCHANGED <<registered, detailed>>
    BY <1>5 DEF CommitIndex, LaneFree, upstreamRealty
  <2> QED BY <1>0, <1>1, <2>1 DEF CountInv
<1>6. ASSUME NEW r \in Regions, FetchDetail(r) PROVE CountInv'
  <2>1. /\ detailed' \subseteq detailed /\ UNCHANGED <<registered, statsMark, indexJob>>
        /\ lane'.job = "detail" => lane'.region \in registered
    BY <1>0, <1>6 DEF FetchDetail, LaneFree, upstreamRealty
  <2> QED BY <1>0, <2>1 DEF CountInv
<1>7. CASE PersistRegion
  <2>1. /\ detailed' = detailed \cup {lane.region} /\ lane.job = "detail"
        /\ lane'.region = lane.region
        /\ UNCHANGED <<registered, statsMark, indexJob>>
    BY <1>7 DEF PersistRegion, upstreamRealty, realtyJobs, LaneInv, Lanes
  <2> QED BY <1>0, <2>1 DEF CountInv
<1>8. CASE CutRealty
  <2>1. /\ lane'.job = "none" /\ UNCHANGED <<registered, detailed, statsMark>>
        /\ indexJob' \in {indexJob, NoStats}
    BY <1>8 DEF CutRealty, LaneFree, upstreamRealty, realtyTables, realtyJobs
  <2> QED BY <1>0, <2>1 DEF CountInv
<1>9. ASSUME UNCHANGED <<registered, detailed, statsMark, indexJob>>,
             lane'.job = "detail" => lane.job = "detail" /\ lane'.region = lane.region
      PROVE  CountInv'
  BY <1>0, <1>9 DEF CountInv
<1>10. ASSUME StartIndex \/ StartPoll \/ ReadIndexPage \/ ReadActivityPage \/ QueueDetails
              \/ CommitPoll \/ PersistFreehold \/ PersistLeasehold
       PROVE  /\ UNCHANGED <<registered, detailed, statsMark, indexJob>>
              /\ lane'.job = "detail" => lane.job = "detail" /\ lane'.region = lane.region
  <2>1. lane'.job = "detail" => lane.job = "detail" /\ lane'.region = lane.region
    BY <1>10, LaneJobs
  <2>2. UNCHANGED <<registered, detailed, statsMark, indexJob>>
    BY <1>10 DEF StartIndex, StartPoll, ReadIndexPage, ReadActivityPage, QueueDetails,
       CommitPoll, PersistFreehold, PersistLeasehold, upstreamRealty, realtyTables, realtyJobs
  <2> QED BY <2>1, <2>2
<1>11. ASSUME NEW r \in Regions, Trade(r) PROVE CountInv'
  BY <1>9, <1>11 DEF Trade, realtyTables, realtyJobs
<1>12. ASSUME NEW e \in Events, PublishLate(e) PROVE CountInv'
  BY <1>9, <1>12 DEF PublishLate, realtyTables, realtyJobs
<1>13. ASSUME Tick \/ UNCHANGED realtyVars PROVE CountInv'
  BY <1>9, <1>13 DEF Tick, realtyVars, realtyTables, realtyJobs, upstreamRealty
<1> QED BY <1>2, <1>3, <1>4, <1>5, <1>6, <1>7, <1>8, <1>9, <1>10, <1>11, <1>12, <1>13
        DEF RealtyNext, LaneStep

-----------------------------------------------------------------------------
(* The walk of the index.                                                   *)
LEMMA IndexNext ==
  ASSUME RealtyTypeOK, LaneInv, TimeInv, CountInv, IndexInv, [RealtyNext]_realtyVars, RealtyTypeOK'
  PROVE  IndexInv'
<1> SUFFICES ASSUME realtyExcuses' = {}, lane'.job = "index",
                    indexJob' = Cardinality(registered'),
                    NEW r \in registered', r \notin detailed'
             PROVE  /\ lane'.phase = "reading" =>
                         \/ r \in lane'.touched
                         \/ IndexRank(r)' > (lane'.page - 1) * IndexPageSize
                    /\ lane'.phase = "read" => r \in lane'.touched
                    /\ lane'.phase = "queued" => r \in detailJobs'
  BY DEF IndexInv
<1> DEFINE Goal == /\ lane'.phase = "reading" =>
                        \/ r \in lane'.touched
                        \/ IndexRank(r)' > (lane'.page - 1) * IndexPageSize
                   /\ lane'.phase = "read" => r \in lane'.touched
                   /\ lane'.phase = "queued" => r \in detailJobs'
<1>0. realtyExcuses = {}
  BY FeedSteps
<1>1. lane.page \in Nat \ {0}
  BY DEF LaneInv, Lanes
<1>2. ASSUME UNCHANGED <<registered, detailed, indexJob>>, lane.job = "index"
      PROVE  /\ r \in registered /\ r \notin detailed /\ indexJob = Cardinality(registered)
             /\ IndexRank(r)' = IndexRank(r)
             /\ lane.phase = "reading" =>
                  r \in lane.touched \/ IndexRank(r) > (lane.page - 1) * IndexPageSize
             /\ lane.phase = "read" => r \in lane.touched
             /\ lane.phase = "queued" => r \in detailJobs
  BY <1>0, <1>2 DEF IndexInv, IndexRank
<1>3. CASE StartIndex
  <2>1. lane'.phase = "reading" /\ lane'.page = 1 /\ registered' = registered
    BY <1>3 DEF StartIndex, LaneFree, upstreamRealty
  <2>2. IndexRank(r)' = IndexRank(r) /\ IndexRank(r) \in 1..Cardinality(registered)
        /\ Cardinality(registered) \in Nat
    BY <2>1, IndexPages DEF IndexRank
  <2>3. (lane'.page - 1) * IndexPageSize = 0
    BY <2>1, PagesInARow, RealtyNumbers
  <2> QED BY <2>1, <2>2, <2>3
<1>4. CASE ReadIndexPage
  <2> DEFINE rows == IndexPage(lane.page)
             more == lane.page * IndexPageSize < Cardinality(registered)
             below == lane.page * IndexPageSize
             above == (lane.page - 1) * IndexPageSize
  <2>1. /\ lane'.touched = lane.touched \cup NeedsDetail(rows)
        /\ more => lane'.phase = "reading" /\ lane'.page = lane.page + 1
        /\ ~more => lane'.phase = "read"
        /\ UNCHANGED <<registered, detailed, indexJob>> /\ lane.job = "index"
        /\ lane.phase = "reading"
    BY <1>4 DEF ReadIndexPage, LaneInv, Lanes, upstreamRealty, realtyJobs
  <2>2. /\ above \in Nat /\ below \in Nat /\ below = above + IndexPageSize
        /\ (lane.page + 1 - 1) * IndexPageSize = below /\ IndexPageSize \in Nat
    BY <1>1, PagesInARow, RealtyNumbers
  <2>3. /\ IndexRank(r) \in 1..Cardinality(registered) /\ Cardinality(registered) \in Nat
        /\ r \in rows <=> above < IndexRank(r) /\ IndexRank(r) <= below
    BY <1>1, <1>2, <2>1, IndexPages
  <2>4. more <=> below < Cardinality(registered)
    OBVIOUS
  <2> HIDE DEF rows, more, below, above
  <2>5. r \in lane.touched \/ IndexRank(r) > above
    BY <1>2, <2>1 DEF above
  <2>6. r \in rows => r \in lane'.touched
    BY <1>2, <2>1 DEF NeedsDetail
  <2>7. r \in lane'.touched \/ IndexRank(r) > below
    BY <2>1, <2>2, <2>3, <2>5, <2>6
  <2>8. CASE more
    <3>0. lane'.page = lane.page + 1 /\ lane'.phase = "reading"
      BY <2>1, <2>8
    <3>1. (lane'.page - 1) * IndexPageSize = below
      <4>1. lane'.page - 1 = lane.page
        BY <1>1, <3>0
      <4> QED BY <4>1 DEF below
    <3> QED BY <1>2, <2>1, <2>7, <3>0, <3>1
  <2>9. CASE ~more
    BY <2>1, <2>2, <2>3, <2>4, <2>7, <2>9
  <2> QED BY <2>8, <2>9
<1>5. CASE QueueDetails
  <2>1. /\ lane.job = "index" /\ lane.phase = "read" /\ lane'.phase = "queued"
        /\ detailJobs' = detailJobs \cup lane.touched
        /\ UNCHANGED <<registered, detailed, indexJob>>
    BY <1>5 DEF QueueDetails, LaneInv, Lanes, upstreamRealty, realtyTables
  <2> QED BY <1>2, <2>1
<1>6. ASSUME UNCHANGED <<registered, detailed, indexJob, lane, detailJobs>> PROVE Goal
  BY <1>2, <1>6
<1>7. ASSUME NEW x \in Regions, Register(x) PROVE FALSE
  <2>1. /\ registered' = registered \cup {x} /\ x \notin registered
        /\ UNCHANGED <<lane, indexJob>>
    BY <1>7 DEF Register, realtyJobs
  <2>2. Cardinality(registered') = Cardinality(registered) + 1
    BY <2>1, RegionsAreFinite, FS_AddElement DEF RealtyTypeOK
  <2>3. Cardinality(registered) \in Nat /\ indexJob # NoStats
    BY <2>1, RegionsAreFinite DEF RealtyTypeOK, LaneInv
  <2>4. indexJob <= Cardinality(registered) /\ indexJob \in Nat
    BY <1>0, <2>3 DEF CountInv, RealtyTypeOK
  <2>5. indexJob = Cardinality(registered) + 1
    <3>1. indexJob' = Cardinality(registered')
      OBVIOUS
    <3> QED BY <2>1, <2>2, <3>1
  <2> QED BY <2>3, <2>4, <2>5
<1>8. ASSUME NEW x \in Regions, Deregister(x) PROVE FALSE
  BY <1>8 DEF Deregister
<1>9. ASSUME NEW x \in Regions, FetchDetail(x) PROVE FALSE
  BY <1>9 DEF FetchDetail, LaneFree
<1>10. ASSUME StartPoll \/ ReadActivityPage \/ CommitIndex \/ CommitPoll \/ PersistRegion
              \/ PersistFreehold \/ PersistLeasehold \/ CutRealty \/ ProbeStats
       PROVE  FALSE
  BY <1>10, LaneJobs
<1>11. ASSUME NEW x \in Regions, Trade(x) PROVE Goal
  BY <1>6, <1>11 DEF Trade, realtyTables, realtyJobs
<1>12. ASSUME NEW e \in Events, PublishLate(e) PROVE Goal
  BY <1>6, <1>12 DEF PublishLate, realtyTables, realtyJobs
<1>13. ASSUME Tick \/ UNCHANGED realtyVars PROVE Goal
  BY <1>6, <1>13 DEF Tick, realtyVars, realtyTables, realtyJobs, upstreamRealty
<1> QED BY <1>3, <1>4, <1>5, <1>7, <1>8, <1>9, <1>10, <1>11, <1>12, <1>13
        DEF RealtyNext, LaneStep

-----------------------------------------------------------------------------
(* The walk of the poll.                                                    *)
LEMMA PollNext ==
  ASSUME RealtyTypeOK, LaneInv, TimeInv, PollInv, [RealtyNext]_realtyVars, RealtyTypeOK'
  PROVE  PollInv'
<1> SUFFICES ASSUME realtyExcuses' = {}, lane'.job = "activity", NEW e \in Shown'
             PROVE  \/ lane'.newest # NoSince /\ e[1] >= lane'.newest - 1
                    \/ /\ lane'.phase = "reading"
                       /\ \/ e[2] \in lane'.touched
                          \/ ActivityRank(e)' > (lane'.page - 1) * ActivityPageSize
                    \/ lane'.phase = "read" /\ e[2] \in lane'.touched
                    \/ lane'.phase = "queued" /\ e[2] \in detailJobs'
  BY DEF PollInv
<1> DEFINE Goal == \/ lane'.newest # NoSince /\ e[1] >= lane'.newest - 1
                   \/ /\ lane'.phase = "reading"
                      /\ \/ e[2] \in lane'.touched
                         \/ ActivityRank(e)' > (lane'.page - 1) * ActivityPageSize
                   \/ lane'.phase = "read" /\ e[2] \in lane'.touched
                   \/ lane'.phase = "queued" /\ e[2] \in detailJobs'
<1>0. /\ realtyExcuses = {} /\ Shown \in SUBSET Events /\ Shown' \in SUBSET Events
      /\ Shown \subseteq activityFeed
  BY FeedSteps DEF RealtyTypeOK, Shown
<1>1. /\ lane.page \in Nat \ {0} /\ lane.newest \in Seconds \cup {NoSince}
      /\ NoSince \notin Seconds /\ Seconds \subseteq Int /\ \A d \in Events : d[1] \in Int
  <2>1. Seconds \subseteq Int /\ NoSince \notin Seconds
    BY RealtyNumbers DEF Seconds
  <2> QED BY <2>1 DEF LaneInv, Lanes, Events
<1>2. /\ ActivityPageSize \in Nat
      /\ (lane.page - 1) * ActivityPageSize \in Nat
      /\ lane.page * ActivityPageSize = (lane.page - 1) * ActivityPageSize + ActivityPageSize
      /\ (lane.page + 1 - 1) * ActivityPageSize = lane.page * ActivityPageSize
      /\ (1 - 1) * ActivityPageSize = 0
  BY <1>1, PagesInARow, RealtyNumbers
<1>3. ASSUME e \in Shown, lane.job = "activity"
      PROVE  \/ lane.newest # NoSince /\ e[1] >= lane.newest - 1
             \/ /\ lane.phase = "reading"
                /\ \/ e[2] \in lane.touched
                   \/ ActivityRank(e) > (lane.page - 1) * ActivityPageSize
             \/ lane.phase = "read" /\ e[2] \in lane.touched
             \/ lane.phase = "queued" /\ e[2] \in detailJobs
  BY <1>0, <1>3 DEF PollInv
<1>4. ActivityRank(e)' >= 1 /\ ActivityRank(e)' \in Int
  <2>1. IsFiniteSet({d \in Shown' : Before(d, e)}) /\ Cardinality({d \in Shown' : Before(d, e)}) \in Nat
    <3>1. {d \in Shown' : Before(d, e)} \in SUBSET Events
      BY <1>0
    <3> QED BY <3>1, EventsAreFinite
  <2>2. e \in {d \in Shown' : Before(d, e)}
    BY <1>0 DEF Before, Events, Regions
  <2>3. ActivityRank(e)' = Cardinality({d \in Shown' : Before(d, e)})
    BY DEF ActivityRank, Before
  <2> QED BY <2>1, <2>2, <2>3, FS_EmptySet
<1>5. CASE StartPoll
  <2>1. lane'.phase = "reading" /\ lane'.page = 1
    BY <1>5 DEF StartPoll, LaneFree
  <2> QED BY <1>2, <1>4, <2>1
<1>6. CASE ReadActivityPage
  <2> DEFINE events == ActivityPage(lane.page)
             below == lane.page * ActivityPageSize
             above == (lane.page - 1) * ActivityPageSize
             more == events # {} /\ below < Cardinality(Shown)
  <2>1. /\ lane'.touched = lane.touched \cup TouchedBy(events)
        /\ lane'.newest = Latest(lane.newest, events)
        /\ more => lane'.phase = "reading" /\ lane'.page = lane.page + 1
        /\ ~more => lane'.phase = "read"
        /\ lane.job = "activity" /\ lane.phase = "reading"
        /\ UNCHANGED <<activityFeed, sinceMark>>
    BY <1>6 DEF ReadActivityPage, LaneInv, Lanes, upstreamRealty
  <2>2. Shown' = Shown /\ ActivityRank(e)' = ActivityRank(e) /\ e \in Shown
    BY <2>1 DEF Shown, Since, ActivityRank, Before
  <2>3. /\ Cardinality(Shown) \in Nat /\ events \in SUBSET Shown
        /\ \A d \in Shown : ActivityRank(d) \in 1..Cardinality(Shown)
        /\ \A d \in Shown : d[1] > e[1] => ActivityRank(d) < ActivityRank(e)
        /\ \A d \in Shown : d \in events <=> above < ActivityRank(d) /\ ActivityRank(d) <= below
        /\ events = {} => Cardinality(Shown) <= above
    BY <1>1, <2>2, ActivityPages
  <2>4. /\ above \in Nat /\ below = above + ActivityPageSize
        /\ (lane.page + 1 - 1) * ActivityPageSize = below
    BY <1>2
  <2>5. ~more => Cardinality(Shown) <= below
    BY <1>2, <2>3, <2>4
  <2>6. /\ lane'.newest # NoSince => \/ lane'.newest = lane.newest
                                     \/ \E x \in events : x[1] = lane'.newest
        /\ lane'.newest = NoSince => lane.newest = NoSince
        /\ lane'.newest \in Seconds \cup {NoSince}
    <3> DEFINE latest == Latest(lane.newest, events)
    <3>1. events \in SUBSET Events /\ lane.newest \in Seconds \cup {NoSince} /\ lane'.newest = latest
      BY <1>0, <1>1, <2>1, <2>3
    <3> HIDE DEF events
    <3>2. /\ latest \in Seconds \cup {NoSince}
          /\ latest = NoSince <=> events = {} /\ lane.newest = NoSince
          /\ latest # NoSince => latest = lane.newest \/ \E x \in events : x[1] = latest
      BY <3>1, LatestOf
    <3> HIDE DEF latest
    <3> QED BY <3>1, <3>2
  <2> HIDE DEF events, below, above, more
  <2>7. e \in events => e[2] \in lane'.touched
    BY <2>1 DEF TouchedBy
  <2>8. \/ lane'.newest # NoSince /\ e[1] >= lane'.newest - 1
        \/ e[2] \in lane.touched
        \/ ActivityRank(e) > above
    <3>1. CASE lane.newest # NoSince /\ e[1] >= lane.newest - 1
      <4>1. CASE lane'.newest = lane.newest
        BY <3>1, <4>1
      <4>2. CASE lane'.newest # lane.newest
        <5>1. PICK x \in events : x[1] = lane'.newest
          BY <2>6, <3>1, <4>2
        <5>2. above < ActivityRank(x) /\ ActivityRank(x) \in Nat /\ ActivityRank(e) \in Nat
          BY <2>2, <2>3
        <5>3. x[1] > e[1] \/ e[1] >= lane'.newest - 1
          BY <1>0, <1>1, <2>2, <2>3, <5>1
        <5>4. lane'.newest # NoSince
          BY <2>6, <3>1
        <5>5. x[1] > e[1] => ActivityRank(e) > above
          BY <2>3, <2>4, <5>2
        <5> QED BY <5>3, <5>4, <5>5
      <4> QED BY <4>1, <4>2
    <3>2. CASE ~(lane.newest # NoSince /\ e[1] >= lane.newest - 1)
      BY <1>3, <2>1, <2>2, <3>2 DEF above
    <3> QED BY <3>1, <3>2
  <2>9. \/ lane'.newest # NoSince /\ e[1] >= lane'.newest - 1
        \/ e[2] \in lane'.touched
        \/ ActivityRank(e) > below
    BY <2>1, <2>2, <2>3, <2>4, <2>7, <2>8
  <2>10. CASE more
    <3>0. lane'.page = lane.page + 1 /\ lane'.phase = "reading"
      BY <2>1, <2>10
    <3>1. (lane'.page - 1) * ActivityPageSize = below
      <4>1. lane'.page - 1 = lane.page
        BY <1>1, <3>0
      <4> QED BY <4>1 DEF below
    <3> QED BY <2>2, <2>9, <3>0, <3>1
  <2>11. CASE ~more
    BY <1>2, <2>1, <2>2, <2>3, <2>4, <2>5, <2>9, <2>11
  <2> QED BY <2>10, <2>11
<1>7. CASE QueueDetails
  <2>1. /\ lane.job = "activity" /\ lane.phase = "read" /\ lane'.phase = "queued"
        /\ lane'.newest = lane.newest
        /\ detailJobs' = detailJobs \cup lane.touched
        /\ UNCHANGED <<activityFeed, sinceMark>>
    BY <1>7 DEF QueueDetails, LaneInv, Lanes, upstreamRealty, realtyTables
  <2>2. e \in Shown
    BY <2>1 DEF Shown, Since
  <2> QED BY <1>3, <2>1, <2>2
<1>8. ASSUME UNCHANGED <<lane, detailJobs, sinceMark>> PROVE Goal
  <2>1. /\ Shown \subseteq Shown'
        /\ \A x \in Shown' \ Shown : \A d \in activityFeed : x[1] >= d[1] - 1
    BY <1>8, ReachIsKept
  <2>2. CASE e \in Shown
    <3>1. ActivityRank(e)' >= ActivityRank(e) /\ ActivityRank(e) \in Int
      BY <1>1, <2>1, <2>2, ActivityPages, EventsMoveDown
    <3>2. ActivityRank(e) > (lane.page - 1) * ActivityPageSize =>
          ActivityRank(e)' > (lane.page - 1) * ActivityPageSize
      BY <1>2, <1>4, <3>1
    <3> QED BY <1>3, <1>8, <2>2, <3>2
  <2>3. CASE e \notin Shown
    <3>1. CASE lane.newest = NoSince
      <4>1. lane'.phase = "reading" /\ lane'.page = 1
        BY <1>8, <3>1 DEF TimeInv
      <4> QED BY <1>2, <1>4, <4>1
    <3>2. CASE lane.newest # NoSince
      <4>1. PICK d \in activityFeed : d[1] = lane.newest
        BY <3>2 DEF TimeInv
      <4> QED BY <1>8, <2>1, <2>3, <3>2, <4>1
    <3> QED BY <3>1, <3>2
  <2> QED BY <2>2, <2>3
<1>9. ASSUME NEW r \in Regions, Trade(r) \/ Register(r) \/ Deregister(r) PROVE Goal
  BY <1>8, <1>9 DEF Trade, Register, Deregister, realtyTables, realtyJobs
<1>10. ASSUME NEW x \in Events, PublishLate(x) PROVE Goal
  BY <1>8, <1>10 DEF PublishLate, realtyTables, realtyJobs
<1>11. ASSUME Tick \/ ProbeStats \/ UNCHANGED realtyVars PROVE Goal
  BY <1>8, <1>11 DEF Tick, ProbeStats, realtyVars, realtyTables, realtyJobs
<1>12. ASSUME NEW r \in Regions, FetchDetail(r) PROVE FALSE
  BY <1>12 DEF FetchDetail, LaneFree
<1>13. ASSUME StartIndex \/ ReadIndexPage \/ CommitIndex \/ CommitPoll \/ PersistRegion
              \/ PersistFreehold \/ PersistLeasehold \/ CutRealty
       PROVE  FALSE
  BY <1>13, LaneJobs
<1> QED BY <1>5, <1>6, <1>7, <1>9, <1>10, <1>11, <1>12, <1>13 DEF RealtyNext, LaneStep

-----------------------------------------------------------------------------
(* The running detail fetch.                                                *)
LEMMA DetailNext ==
  ASSUME RealtyTypeOK, LaneInv, TimeInv, DetailInv, [RealtyNext]_realtyVars, RealtyTypeOK'
  PROVE  DetailInv'
<1>0. /\ realtyExcuses' = {} => realtyExcuses = {}
      /\ realtyExcuses' = {} /\ sinceMark' = sinceMark =>
           \A r : EventInReach(r) => EventInReach(r)'
  BY FeedSteps, ReachIsKept
<1>1. ASSUME lane'.job # "detail" PROVE DetailInv'
  BY <1>1 DEF DetailInv
<1>2. ASSUME UNCHANGED <<lane, detailJobs, detailed, freeholds, sinceMark>>,
             contract' = contract \/ \E x \in Regions : Trade(x)
      PROVE  DetailInv'
  <2> SUFFICES ASSUME lane.job = "detail" PROVE DetailInv'
    BY <1>1, <1>2
  <2>0. PICK r \in Regions : r = lane.region
    BY DEF LaneInv, Lanes
  <2>1. /\ r \in detailJobs
        /\ lane.phase # "fetched" => lane.region \in detailed
        /\ lane.phase = "freehold stored" =>
             (lane.region \in freeholds <=> lane.found = "freehold")
    BY <2>0 DEF DetailInv
  <2>2. ASSUME realtyExcuses' = {}
        PROVE  lane.found = contract'[r] \/ EventInReach(r)'
    <3>1. lane.found = contract[r] \/ EventInReach(r)
      BY <1>0, <2>0, <2>2 DEF DetailInv
    <3>2. CASE contract' = contract
      BY <1>0, <1>2, <2>2, <3>1, <3>2
    <3>3. CASE \E x \in Regions : Trade(x)
      <4>1. PICK x \in Regions : Trade(x)
        BY <3>3
      <4>2. CASE x = r
        BY <4>1, <4>2, TradesAreInReach
      <4>3. CASE x # r
        <5>1. contract'[r] = contract[r]
          BY <4>1, <4>3 DEF Trade, RealtyTypeOK
        <5> QED BY <1>0, <1>2, <2>2, <3>1, <5>1
      <4> QED BY <4>2, <4>3
    <3> QED BY <1>2, <3>2, <3>3
  <2>3. EventInReach(r)' => EventInReach(lane.region)'
    BY <1>2, <2>0 DEF EventInReach
  <2> QED BY <1>2, <2>0, <2>1, <2>2, <2>3 DEF DetailInv
<1>3. ASSUME NEW r \in Regions, Trade(r) PROVE DetailInv'
  BY <1>2, <1>3 DEF Trade, realtyTables, realtyJobs, contractRows
<1>4. ASSUME NEW r \in Regions, Register(r) \/ Deregister(r) PROVE DetailInv'
  BY <1>2, <1>4 DEF Register, Deregister, realtyTables, realtyJobs, contractRows
<1>5. ASSUME NEW e \in Events, PublishLate(e) PROVE DetailInv'
  BY <1>2, <1>5 DEF PublishLate, realtyTables, realtyJobs, contractRows
<1>6. ASSUME Tick \/ UNCHANGED realtyVars PROVE DetailInv'
  BY <1>2, <1>6 DEF Tick, realtyVars, upstreamRealty, realtyTables, realtyJobs, contractRows
<1>7. ASSUME \/ ProbeStats \/ StartIndex \/ StartPoll \/ ReadIndexPage \/ ReadActivityPage
             \/ QueueDetails \/ CommitIndex \/ CommitPoll \/ PersistLeasehold \/ CutRealty
      PROVE  DetailInv'
  BY <1>1, <1>7, LaneJobs
<1>8. ASSUME NEW r \in Regions, FetchDetail(r) PROVE DetailInv'
  <2>1. CASE r \in registered
    <3>1. /\ lane'.job = "detail" /\ lane'.phase = "fetched" /\ lane'.region = r
          /\ lane'.found = contract[r] /\ r \in detailJobs
          /\ UNCHANGED <<contract, detailJobs>>
      BY <1>8, <2>1 DEF FetchDetail, LaneFree, upstreamRealty
    <3> QED BY <3>1 DEF DetailInv
  <2>2. CASE r \notin registered
    BY <1>1, <1>8, <2>2 DEF FetchDetail
  <2> QED BY <2>1, <2>2
<1>9. ASSUME PersistRegion \/ PersistFreehold PROVE DetailInv'
  <2>0. PICK r \in Regions : r = lane.region
    BY DEF LaneInv, Lanes
  <2>1. /\ lane'.job = "detail" /\ lane.job = "detail" /\ lane'.region = lane.region
        /\ lane'.found = lane.found
    BY <1>9, LaneJobs
  <2>2. UNCHANGED <<contract, sinceMark, detailJobs>>
    BY <1>9 DEF PersistRegion, PersistFreehold, upstreamRealty, realtyJobs
  <2>3. /\ r \in detailJobs
        /\ realtyExcuses' = {} => lane.found = contract[r] \/ EventInReach(r)
    BY <1>0, <2>0, <2>1 DEF DetailInv
  <2>4. realtyExcuses' = {} => lane'.found = contract'[lane'.region] \/ EventInReach(lane.region)'
    <3>1. EventInReach(r)' => EventInReach(lane.region)'
      BY <2>0, <2>1 DEF EventInReach
    <3> QED BY <1>0, <2>0, <2>1, <2>2, <2>3, <3>1
  <2>5. CASE PersistRegion
    <3>1. lane'.phase = "region stored" /\ lane.region \in detailed'
      BY <2>5 DEF PersistRegion, LaneInv, Lanes
    <3> QED BY <2>0, <2>1, <2>2, <2>3, <2>4, <3>1 DEF DetailInv
  <2>6. CASE PersistFreehold
    <3>1. /\ lane.phase = "region stored" /\ detailed' = detailed
          /\ lane.region \in freeholds' <=> lane.found = "freehold"
      BY <2>6 DEF PersistFreehold, UpsertOrDelete
    <3>2. lane.region \in detailed
      BY <2>1, <3>1 DEF DetailInv
    <3> QED BY <2>0, <2>1, <2>2, <2>3, <2>4, <3>1, <3>2 DEF DetailInv
  <2> QED BY <1>9, <2>5, <2>6
<1> QED BY <1>3, <1>4, <1>5, <1>6, <1>7, <1>8, <1>9 DEF RealtyNext, LaneStep

-----------------------------------------------------------------------------
(* A region is up to date or will be.                                       *)
Settled(r) == \/ RegionInStep(r) \/ r \in detailJobs \/ EventInReach(r)
              \/ r \notin detailed /\ IndexComing

LEMMA StaleNext ==
  ASSUME RealtyInv, [RealtyNext]_realtyVars, RealtyTypeOK'
  PROVE  StalenessIsPending'
<1> SUFFICES ASSUME realtyExcuses' = {}, NEW r \in registered' PROVE Settled(r)'
  BY DEF StalenessIsPending, Settled
<1> USE DEF RealtyInv
<1>0. /\ realtyExcuses = {}
      /\ r \in registered => Settled(r)
      /\ sinceMark' = sinceMark => (EventInReach(r) => EventInReach(r)')
      /\ r \in Regions /\ contract \in [Regions -> Contracts]
  BY FeedSteps, ReachIsKept DEF StalenessIsPending, Settled, RealtyTypeOK
<1>1. /\ Cardinality(registered) \in Nat /\ NoStats \notin Nat
      /\ statsMark # NoStats => statsMark <= Cardinality(registered)
      /\ statsMark \in Nat \cup {NoStats} /\ indexJob \in Nat \cup {NoStats}
      /\ detailed \subseteq registered
      /\ indexJob # NoStats => statsMark # Cardinality(registered)
  BY <1>0, RegionsAreFinite, RealtyNumbers DEF CountInv, RealtyTypeOK
<1>2. ASSUME r \in registered, UNCHANGED sinceMark,
             r \in detailJobs => r \in detailJobs',
             r \in detailed' <=> r \in detailed, r \in freeholds' <=> r \in freeholds,
             r \in leaseholds' <=> r \in leaseholds, contract'[r] = contract[r],
             IndexComing => IndexComing'
      PROVE  Settled(r)'
  BY <1>0, <1>2 DEF Settled, RegionInStep
<1>3. ASSUME UNCHANGED <<registered, contract, detailed, freeholds, leaseholds, sinceMark, statsMark,
                         indexJob>>,
             detailJobs \subseteq detailJobs'
      PROVE  Settled(r)'
  BY <1>2, <1>3 DEF IndexComing
<1>4. ASSUME NEW x \in Regions, Trade(x) PROVE Settled(r)'
  <2>1. UNCHANGED <<registered, detailed, freeholds, leaseholds, sinceMark, statsMark, indexJob,
                    detailJobs>>
    BY <1>4 DEF Trade, realtyTables, realtyJobs, contractRows
  <2>2. CASE x = r
    BY <1>4, <2>2, TradesAreInReach DEF Settled
  <2>3. CASE x # r
    <3>1. contract'[r] = contract[r]
      BY <1>0, <1>4, <2>3 DEF Trade
    <3> QED BY <1>2, <2>1, <3>1 DEF IndexComing
  <2> QED BY <2>2, <2>3
<1>5. ASSUME NEW x \in Regions, Register(x) PROVE Settled(r)'
  <2>1. /\ registered' = registered \cup {x} /\ x \notin registered
        /\ UNCHANGED <<contract, detailed, freeholds, leaseholds, sinceMark, statsMark, indexJob,
                       detailJobs>>
    BY <1>5 DEF Register, realtyTables, realtyJobs, contractRows
  <2>2. Cardinality(registered') = Cardinality(registered) + 1
    BY <2>1, RegionsAreFinite, FS_AddElement DEF RealtyTypeOK
  <2>3. IndexComing'
    BY <1>1, <2>1, <2>2 DEF IndexComing
  <2>4. CASE r \in registered
    BY <1>2, <2>1, <2>3, <2>4
  <2>5. CASE r \notin registered
    BY <1>1, <2>1, <2>3, <2>5 DEF Settled
  <2> QED BY <2>4, <2>5
<1>6. ASSUME NEW x \in Regions, Deregister(x) PROVE FALSE
  BY <1>6 DEF Deregister
<1>7. ASSUME NEW e \in Events, PublishLate(e) PROVE Settled(r)'
  BY <1>3, <1>7 DEF PublishLate, realtyTables, realtyJobs, contractRows
<1>8. ASSUME Tick \/ StartIndex \/ StartPoll \/ UNCHANGED realtyVars PROVE Settled(r)'
  BY <1>3, <1>8 DEF Tick, StartIndex, StartPoll, realtyVars, upstreamRealty, realtyTables,
     realtyJobs, contractRows
<1>9. ASSUME ReadIndexPage \/ ReadActivityPage \/ QueueDetails PROVE Settled(r)'
  <2>1. /\ UNCHANGED <<registered, contract, detailed, freeholds, leaseholds, sinceMark, statsMark,
                       indexJob>>
        /\ detailJobs \subseteq detailJobs'
    BY <1>9 DEF ReadIndexPage, ReadActivityPage, QueueDetails, upstreamRealty, realtyTables,
       realtyJobs, contractRows
  <2> QED BY <1>3, <2>1
<1>10. CASE ProbeStats
  <2>1. /\ indexJob' = Cardinality(registered)
        /\ UNCHANGED <<registered, contract, detailed, freeholds, leaseholds, sinceMark, detailJobs>>
    BY <1>10 DEF ProbeStats, upstreamRealty, realtyTables, contractRows
  <2>2. IndexComing'
    BY <1>1, <2>1 DEF IndexComing
  <2> QED BY <1>2, <2>1, <2>2
<1>11. CASE CommitIndex
  <2>1. /\ statsMark' = indexJob /\ lane.job = "index" /\ lane.phase = "queued"
        /\ UNCHANGED <<registered, contract, detailed, freeholds, leaseholds, sinceMark, detailJobs>>
    BY <1>11 DEF CommitIndex, upstreamRealty, contractRows
  <2>2. CASE indexJob = Cardinality(registered)
    <3>1. r \in detailed \/ r \in detailJobs
      BY <1>0, <2>1, <2>2 DEF IndexInv
    <3> QED BY <1>0, <2>1, <3>1 DEF Settled, RegionInStep
  <2>3. CASE indexJob # Cardinality(registered)
    <3>1. IndexComing'
      BY <2>1, <2>3 DEF IndexComing
    <3> QED BY <1>2, <2>1, <3>1
  <2> QED BY <2>2, <2>3
<1>12. CASE CommitPoll
  <2>1. /\ sinceMark' = IF lane.newest = NoSince THEN sinceMark ELSE lane.newest - 1
        /\ lane.job = "activity" /\ lane.phase = "queued"
        /\ UNCHANGED <<registered, contract, activityFeed, unpublished, detailed, freeholds,
                       leaseholds, statsMark, indexJob, detailJobs>>
    BY <1>12 DEF CommitPoll, upstreamRealty, realtyJobs, contractRows
  <2>2. lane.newest # NoSince /\ lane.newest \in Int /\ NoSince \notin Int
    <3>1. lane.newest # NoSince
      BY <2>1 DEF TimeInv
    <3>2. lane.newest \in Seconds \cup {NoSince}
      BY DEF LaneInv, Lanes
    <3>3. Seconds \subseteq Int
      BY RealtyNumbers DEF Seconds
    <3> QED BY <3>1, <3>2, <3>3, RealtyNumbers
  <2>3. Since' = lane.newest - 1
    BY <2>1, <2>2 DEF Since
  <2>4. EventInReach(r) => EventInReach(r)' \/ r \in detailJobs
    <3> SUFFICES ASSUME NEW e \in Shown \cup unpublished, e[2] = r
                 PROVE  EventInReach(r)' \/ r \in detailJobs
      BY DEF EventInReach
    <3>1. CASE e \in unpublished
      BY <2>1, <3>1 DEF EventInReach
    <3>2. CASE e \in Shown
      <4>1. e[1] >= lane.newest - 1 \/ e[2] \in detailJobs
        BY <1>0, <2>1, <3>2 DEF PollInv
      <4>2. e[1] >= lane.newest - 1 => e \in Shown'
        BY <2>1, <2>3, <3>2 DEF Shown
      <4> QED BY <4>1, <4>2 DEF EventInReach
    <3> QED BY <3>1, <3>2
  <2> QED BY <1>0, <2>1, <2>4 DEF Settled, RegionInStep, IndexComing
<1>13. ASSUME NEW x \in Regions, FetchDetail(x) PROVE Settled(r)'
  <2>1. UNCHANGED <<registered, contract, freeholds, leaseholds, sinceMark, statsMark, indexJob>>
    BY <1>13 DEF FetchDetail, upstreamRealty, contractRows
  <2>2. CASE x \in registered
    BY <1>3, <1>13, <2>1, <2>2 DEF FetchDetail
  <2>3. CASE x \notin registered
    <3>1. detailed' = detailed \ {x} /\ detailJobs' = detailJobs \ {x} /\ x # r
      BY <1>13, <2>1, <2>3 DEF FetchDetail
    <3> QED BY <1>2, <2>1, <3>1 DEF IndexComing
  <2> QED BY <2>2, <2>3
<1>14. ASSUME PersistRegion \/ PersistFreehold PROVE Settled(r)'
  <2>1. /\ lane.job = "detail"
        /\ UNCHANGED <<registered, contract, leaseholds, sinceMark, statsMark, indexJob, detailJobs>>
        /\ detailed' \in {detailed, detailed \cup {lane.region}}
        /\ freeholds' \in {freeholds, freeholds \cup {lane.region}, freeholds \ {lane.region}}
    BY <1>14 DEF PersistRegion, PersistFreehold, UpsertOrDelete, upstreamRealty, realtyJobs,
       contractRows
  <2>2. CASE r = lane.region
    BY <2>1, <2>2 DEF Settled, RealtyTypeOK
  <2>3. CASE r # lane.region
    <3>1. (r \in detailed' <=> r \in detailed) /\ (r \in freeholds' <=> r \in freeholds)
      BY <2>1, <2>3
    <3> QED BY <1>2, <2>1, <3>1 DEF IndexComing
  <2> QED BY <2>2, <2>3
<1>15. CASE PersistLeasehold
  <2>1. /\ lane.job = "detail" /\ lane.phase = "freehold stored"
        /\ UNCHANGED <<registered, contract, detailed, freeholds, sinceMark, statsMark, indexJob>>
        /\ leaseholds' = UpsertOrDelete(leaseholds, lane.region, lane.found = "leasehold")
        /\ detailJobs' = detailJobs \ {lane.region}
    BY <1>15 DEF PersistLeasehold, upstreamRealty
  <2>2. CASE r = lane.region
    <3>1. /\ r \in detailed /\ (r \in freeholds <=> lane.found = "freehold")
          /\ lane.found = contract[r] \/ EventInReach(r)
      BY <1>0, <2>1, <2>2 DEF DetailInv
    <3>2. r \in leaseholds' <=> lane.found = "leasehold"
      BY <2>1, <2>2 DEF UpsertOrDelete
    <3> QED BY <1>0, <2>1, <3>1, <3>2 DEF Settled, RegionInStep
  <2>3. CASE r # lane.region
    <3>1. (r \in leaseholds' <=> r \in leaseholds) /\ (r \in detailJobs => r \in detailJobs')
      BY <2>1, <2>3 DEF UpsertOrDelete
    <3> QED BY <1>2, <2>1, <3>1 DEF IndexComing
  <2> QED BY <2>2, <2>3
<1>16. CASE CutRealty
  <2>1. /\ UNCHANGED <<registered, contract, detailed, freeholds, leaseholds, sinceMark, statsMark>>
        /\ (lane.job = "index" /\ UNCHANGED detailJobs) \/ UNCHANGED <<indexJob, detailJobs>>
    BY <1>16 DEF CutRealty, upstreamRealty, realtyTables, realtyJobs, contractRows
  <2>2. CASE lane.job = "index" /\ UNCHANGED detailJobs
    <3>1. statsMark # Cardinality(registered)
      BY <1>1, <2>2 DEF LaneInv
    <3>2. IndexComing'
      BY <2>1, <3>1 DEF IndexComing
    <3> QED BY <1>2, <2>1, <2>2, <3>2
  <2>3. CASE UNCHANGED <<indexJob, detailJobs>>
    BY <1>3, <2>1, <2>3
  <2> QED BY <2>1, <2>2, <2>3
<1> QED BY <1>4, <1>5, <1>6, <1>7, <1>8, <1>9, <1>10, <1>11, <1>12, <1>13, <1>14, <1>15, <1>16
        DEF RealtyNext, LaneStep

-----------------------------------------------------------------------------
LEMMA RealtyInvInit == RealtyInit => RealtyInv
<1> SUFFICES ASSUME RealtyInit PROVE RealtyInv
  OBVIOUS
<1>1. RealtyTypeOK /\ LaneInv
  BY RealtyTypesInit
<1>2. lane.job = "none" /\ lane.newest = NoSince
  BY DEF RealtyInit, LaneFree
<1>3. Cardinality(registered) \in Nat
  BY <1>1, RegionsAreFinite DEF RealtyTypeOK
<1>4. TimeInv /\ CountInv /\ IndexInv /\ PollInv /\ DetailInv
  BY <1>2 DEF RealtyInit, TimeInv, CountInv, IndexInv, PollInv, DetailInv
<1>5. StalenessIsPending
  BY <1>3, RealtyNumbers DEF RealtyInit, StalenessIsPending, IndexComing
<1> QED BY <1>1, <1>4, <1>5 DEF RealtyInv

LEMMA RealtyInvNext == RealtyInv /\ [RealtyNext]_realtyVars => RealtyInv'
<1> SUFFICES ASSUME RealtyInv, [RealtyNext]_realtyVars PROVE RealtyInv'
  OBVIOUS
<1>1. RealtyTypeOK' /\ LaneInv'
  BY RealtyTypesNext DEF RealtyInv
<1>2. TimeInv' /\ CountInv'
  BY <1>1, TimeNext, CountNext DEF RealtyInv
<1>3. IndexInv' /\ PollInv'
  BY <1>1, IndexNext, PollNext DEF RealtyInv
<1>4. DetailInv' /\ StalenessIsPending'
  BY <1>1, DetailNext, StaleNext DEF RealtyInv
<1> QED BY <1>1, <1>2, <1>3, <1>4 DEF RealtyInv

(* Unless a detail job was buried, an event surfaced more than a second     *)
(* late or a region was removed, a registered region whose row or contracts *)
(* differ from upstream has its detail job queued, its event where the next *)
(* poll finds it, or an index coming that will miss its detail: no order of *)
(* the row, the queueing and the watermark (realty.ts) loses it.            *)
THEOREM NoStaleRegionIsForgotten == RealtySpec => []StalenessIsPending
<1>1. RealtyInv => StalenessIsPending
  BY DEF RealtyInv
<1> QED BY <1>1, RealtyInvInit, RealtyInvNext, PTL DEF RealtySpec
=============================================================================
