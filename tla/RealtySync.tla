------------------------------ MODULE RealtySync ------------------------------
(***************************************************************************)
(* Mirroring the regions and their contracts (sync/handlers/realty.ts):    *)
(* the stats probe gates the index crawl, which discovers regions and      *)
(* queues a detail fetch for each it never had in full; the activity poll  *)
(* reads the events since its watermark and queues a detail fetch for      *)
(* every region they touch; a detail fetch rewrites the region and its     *)
(* contract tables, one statement after the other.                         *)
(*                                                                         *)
(* The realty lane runs one job at a time, so the state of the running one *)
(* is one record.  A contract is its kind: who holds it is abstracted, and *)
(* a change may return to a kind the region had before.  Time counts       *)
(* seconds.                                                                *)
(***************************************************************************)
EXTENDS Integers, FiniteSets

CONSTANTS RegionCount,    (* regions ever registered: 1..RegionCount        *)
          FirstRegions,
          IndexPageSize, ActivityPageSize, LastSecond,
          RealtyEvents,   (* how often upstream changes or an attempt fails *)
          NoStats, NoSince

Regions == 1..RegionCount
Seconds == 0..LastSecond
Contracts == {"vacant", "freehold", "leasehold"}

ASSUME RealtyAssumption ==
  /\ {RegionCount, IndexPageSize, ActivityPageSize} \subseteq Nat \ {0}
  /\ {LastSecond, RealtyEvents} \subseteq Nat /\ FirstRegions \subseteq Regions
  /\ NoStats \notin Nat /\ NoSince \notin Int

VARIABLES registered,   (* the regions upstream has                         *)
          contract,     (* [Regions -> Contracts], upstream                 *)
          now,
          activityFeed, (* the events upstream shows: <<second, region>>    *)
          unpublished,  (* and those it does not show yet                   *)
          regionRows,   (* the regions table                                *)
          detailed,     (* of these, the ones with a detailFetchedAt        *)
          freeholds, leaseholds,   (* the contract tables                   *)
          heard,        (* realty_activity                                  *)
          statsMark,    (* stats.regions, or NoStats                        *)
          sinceMark,    (* activity.since, or NoSince                       *)
          indexJob,     (* the count a live index job carries, or NoStats   *)
          detailJobs,   (* the regions with a live detail job               *)
          lane,         (* the running job                                  *)
          realtyEvents,
          realtyExcuses (* history: why a region may stay stale             *)

upstreamRealty == <<registered, contract, now, activityFeed, unpublished>>
contractRows   == <<freeholds, leaseholds>>
realtyTables   == <<regionRows, detailed, contractRows, heard, statsMark, sinceMark>>
realtyJobs     == <<indexJob, detailJobs>>
realtyVars == <<upstreamRealty, realtyTables, realtyJobs, lane, realtyEvents, realtyExcuses>>

Events == Seconds \X Regions

LaneFree == [job |-> "none", phase |-> "idle", page |-> 1, touched |-> {},
             newest |-> NoSince, region |-> 1, found |-> "vacant"]

RealtyInit ==
  /\ registered = FirstRegions /\ contract = [r \in Regions |-> "freehold"]
  /\ now = 0 /\ activityFeed = {} /\ unpublished = {}
  /\ regionRows = {} /\ detailed = {} /\ freeholds = {} /\ leaseholds = {}
  /\ heard = {} /\ statsMark = NoStats /\ sinceMark = NoSince
  /\ indexJob = NoStats /\ detailJobs = {}
  /\ lane = LaneFree
  /\ realtyEvents = RealtyEvents /\ realtyExcuses = {}

-----------------------------------------------------------------------------
(* Upstream.                                                                *)
Newest(events) == {e[1] : e \in {x \in events : \A y \in events : y[1] <= x[1]}}

Spend == realtyEvents > 0 /\ realtyEvents' = realtyEvents - 1

(* A sale, a lease or its end, shown in the feed at once or a little later. *)
Trade(r) ==
  /\ Spend /\ r \in registered
  /\ \E c \in Contracts \ {contract[r]} : contract' = [contract EXCEPT ![r] = c]
  /\ \/ activityFeed' = activityFeed \cup {<<now, r>>} /\ UNCHANGED unpublished
     \/ unpublished' = unpublished \cup {<<now, r>>} /\ UNCHANGED activityFeed
  /\ UNCHANGED <<registered, now, realtyTables, realtyJobs, lane, realtyExcuses>>

(* Within a second of the newest event the poll still reaches it.           *)
PublishLate(e) ==
  /\ e \in unpublished
  /\ unpublished' = unpublished \ {e}
  /\ activityFeed' = activityFeed \cup {e}
  /\ realtyExcuses' = IF \E s \in Newest(activityFeed) : e[1] < s - 1
                      THEN realtyExcuses \cup {"late event"} ELSE realtyExcuses
  /\ UNCHANGED <<registered, contract, now, realtyTables, realtyJobs, lane, realtyEvents>>

(* Regions come and go without an event.                                    *)
Register(r) ==
  /\ Spend /\ r \notin registered
  /\ registered' = registered \cup {r}
  /\ UNCHANGED <<contract, now, activityFeed, unpublished, realtyTables, realtyJobs, lane,
                 realtyExcuses>>

Deregister(r) ==
  /\ Spend /\ r \in registered
  /\ registered' = registered \ {r}
  /\ realtyExcuses' = realtyExcuses \cup {"removal"}
  /\ UNCHANGED <<contract, now, activityFeed, unpublished, realtyTables, realtyJobs, lane>>

Tick ==
  /\ now < LastSecond
  /\ now' = now + 1
  /\ UNCHANGED <<registered, contract, activityFeed, unpublished, realtyTables, realtyJobs,
                 lane, realtyEvents, realtyExcuses>>

-----------------------------------------------------------------------------
(* handleRealtyStats.  The enqueue does nothing while an index job is live. *)
ProbeStats ==
  /\ lane.job = "none" /\ indexJob = NoStats
  /\ Cardinality(registered) # statsMark
  /\ indexJob' = Cardinality(registered)
  /\ UNCHANGED <<upstreamRealty, realtyTables, detailJobs, lane, realtyEvents, realtyExcuses>>

-----------------------------------------------------------------------------
(* handleRealtyRegionsIndex.  An attempt starts at page 1 with no detail    *)
(* jobs to queue; touched holds them.                                       *)
StartIndex ==
  /\ lane.job = "none" /\ indexJob # NoStats
  /\ lane' = [LaneFree EXCEPT !.job = "index", !.phase = "reading"]
  /\ UNCHANGED <<upstreamRealty, realtyTables, realtyJobs, realtyEvents, realtyExcuses>>

IndexRank(r) == Cardinality({q \in registered : q <= r})
IndexPage(n) == {r \in registered : (n - 1) * IndexPageSize < IndexRank(r)
                                    /\ IndexRank(r) <= n * IndexPageSize}

(* Mutant: a detail is fetched only for a region the page brought.          *)
NeedsDetailIfNew(rows) == rows \ regionRows

(* Whatever was never had in full, new or not.                              *)
NeedsDetail(rows) == rows \ detailed

ReadIndexPage ==
  /\ lane.job = "index" /\ lane.phase = "reading"
  /\ LET rows == IndexPage(lane.page)
     IN /\ regionRows' = regionRows \cup rows
        /\ lane' = [lane EXCEPT !.touched = @ \cup NeedsDetail(rows),
                      !.page = IF lane.page * IndexPageSize < Cardinality(registered)
                               THEN @ + 1 ELSE @,
                      !.phase = IF lane.page * IndexPageSize < Cardinality(registered)
                                THEN @ ELSE "read"]
  /\ UNCHANGED <<upstreamRealty, detailed, contractRows, heard, statsMark, sinceMark,
                 realtyJobs, realtyEvents, realtyExcuses>>

-----------------------------------------------------------------------------
(* handleRealtyActivity: everything since the watermark, or of the last     *)
(* day, which is longer than the time modelled.                             *)
Since == IF sinceMark = NoSince THEN 0 ELSE sinceMark
Shown == {e \in activityFeed : e[1] >= Since}

StartPoll ==
  /\ lane.job = "none" /\ Shown # {}
  /\ lane' = [LaneFree EXCEPT !.job = "activity", !.phase = "reading"]
  /\ UNCHANGED <<upstreamRealty, realtyTables, realtyJobs, realtyEvents, realtyExcuses>>

(* Newest first; events of one second in any fixed order.                   *)
Before(d, e) == d[1] > e[1] \/ (d[1] = e[1] /\ d[2] <= e[2])
ActivityRank(e) == Cardinality({d \in Shown : Before(d, e)})
ActivityPage(n) == {e \in Shown : (n - 1) * ActivityPageSize < ActivityRank(e)
                                  /\ ActivityRank(e) <= n * ActivityPageSize}

TouchedBy(events) == {e[2] : e \in events}

(* The newest second of the pages read, which never rises after page 1      *)
(* unless the feed moved.                                                   *)
Latest(old, events) ==
  LET all == {e[1] : e \in events} \cup (IF old = NoSince THEN {} ELSE {old})
  IN IF all = {} THEN NoSince ELSE CHOOSE s \in all : \A t \in all : t <= s

ReadActivityPage ==
  /\ lane.job = "activity" /\ lane.phase = "reading"
  /\ LET events == ActivityPage(lane.page)
         more == events # {} /\ lane.page * ActivityPageSize < Cardinality(Shown)
     IN /\ heard' = heard \cup events
        /\ lane' = [lane EXCEPT !.touched = @ \cup TouchedBy(events),
                      !.newest = Latest(@, events),
                      !.page = IF more THEN @ + 1 ELSE @,
                      !.phase = IF more THEN @ ELSE "read"]
  /\ UNCHANGED <<upstreamRealty, regionRows, detailed, contractRows, statsMark, sinceMark,
                 realtyJobs, realtyEvents, realtyExcuses>>

-----------------------------------------------------------------------------
(* enqueueMany, for either handler: a region with a live job keeps it.      *)
QueueDetails ==
  /\ lane.phase = "read"
  /\ detailJobs' = detailJobs \cup lane.touched
  /\ lane' = [lane EXCEPT !.phase = "queued"]
  /\ UNCHANGED <<upstreamRealty, realtyTables, indexJob, realtyEvents, realtyExcuses>>

(* The index commits the count the probe saw.                               *)
CommitIndex ==
  /\ lane.job = "index" /\ lane.phase = "queued"
  /\ statsMark' = indexJob
  /\ indexJob' = NoStats /\ lane' = LaneFree
  /\ UNCHANGED <<upstreamRealty, regionRows, detailed, contractRows, heard, sinceMark,
                 detailJobs, realtyEvents, realtyExcuses>>

(* The poll goes on from one second before the newest event it read.        *)
CommitPoll ==
  /\ lane.job = "activity" /\ lane.phase = "queued"
  /\ sinceMark' = IF lane.newest = NoSince THEN sinceMark ELSE lane.newest - 1
  /\ lane' = LaneFree
  /\ UNCHANGED <<upstreamRealty, regionRows, detailed, contractRows, heard, statsMark,
                 realtyJobs, realtyEvents, realtyExcuses>>

-----------------------------------------------------------------------------
(* handleRealtyRegionDetail: the fetch; a 404 deletes the regions row only. *)
FetchDetail(r) ==
  /\ lane.job = "none" /\ r \in detailJobs
  /\ IF r \in registered
     THEN /\ lane' = [LaneFree EXCEPT !.job = "detail", !.phase = "fetched", !.region = r,
                                      !.found = contract[r]]
          /\ UNCHANGED <<regionRows, detailed, detailJobs>>
     ELSE /\ regionRows' = regionRows \ {r} /\ detailed' = detailed \ {r}
          /\ detailJobs' = detailJobs \ {r}
          /\ UNCHANGED lane
  /\ UNCHANGED <<upstreamRealty, contractRows, heard, statsMark, sinceMark, indexJob,
                 realtyEvents, realtyExcuses>>

(* persistRegionDetail: the region, ...                                     *)
PersistRegion ==
  /\ lane.job = "detail" /\ lane.phase = "fetched"
  /\ regionRows' = regionRows \cup {lane.region}
  /\ detailed' = detailed \cup {lane.region}
  /\ lane' = [lane EXCEPT !.phase = "region stored"]
  /\ UNCHANGED <<upstreamRealty, contractRows, heard, statsMark, sinceMark, realtyJobs,
                 realtyEvents, realtyExcuses>>

(* ... then each contract table, upserted or deleted from.                  *)
UpsertOrDelete(table, r, present) == IF present THEN table \cup {r} ELSE table \ {r}

PersistFreehold ==
  /\ lane.job = "detail" /\ lane.phase = "region stored"
  /\ freeholds' = UpsertOrDelete(freeholds, lane.region, lane.found = "freehold")
  /\ lane' = [lane EXCEPT !.phase = "freehold stored"]
  /\ UNCHANGED <<upstreamRealty, regionRows, detailed, leaseholds, heard, statsMark, sinceMark,
                 realtyJobs, realtyEvents, realtyExcuses>>

PersistLeasehold ==
  /\ lane.job = "detail" /\ lane.phase = "freehold stored"
  /\ leaseholds' = UpsertOrDelete(leaseholds, lane.region, lane.found = "leasehold")
  /\ detailJobs' = detailJobs \ {lane.region}
  /\ lane' = LaneFree
  /\ UNCHANGED <<upstreamRealty, regionRows, detailed, freeholds, heard, statsMark, sinceMark,
                 indexJob, realtyEvents, realtyExcuses>>

(* An error, a deferral or a crash puts the job back; on its last attempt   *)
(* it is buried.  A poll or an index comes again; a detail job does not.    *)
CutRealty ==
  /\ Spend /\ lane.job # "none"
  /\ lane' = LaneFree
  /\ \/ UNCHANGED <<realtyJobs, realtyExcuses>>
     \/ lane.job = "index" /\ indexJob' = NoStats /\ UNCHANGED <<detailJobs, realtyExcuses>>
     \/ /\ lane.job = "detail" /\ detailJobs' = detailJobs \ {lane.region}
        /\ realtyExcuses' = realtyExcuses \cup {"buried"}
        /\ UNCHANGED indexJob
  /\ UNCHANGED <<upstreamRealty, realtyTables>>

LaneStep == \/ ReadIndexPage \/ ReadActivityPage \/ QueueDetails \/ CommitIndex \/ CommitPoll
            \/ PersistRegion \/ PersistFreehold \/ PersistLeasehold

RealtyNext ==
  \/ \E r \in Regions : Trade(r) \/ Register(r) \/ Deregister(r)
  \/ \E e \in Events : PublishLate(e)
  \/ Tick \/ ProbeStats \/ StartIndex \/ StartPoll
  \/ \E r \in Regions : FetchDetail(r)
  \/ LaneStep \/ CutRealty

RealtySpec == RealtyInit /\ [][RealtyNext]_realtyVars

-----------------------------------------------------------------------------
(* The tables hold regions, and a running detail job is still live.         *)
RealtyTypeOK ==
  /\ registered \subseteq Regions /\ contract \in [Regions -> Contracts] /\ now \in Seconds
  /\ activityFeed \subseteq Events /\ unpublished \subseteq Events /\ heard \subseteq Events
  /\ regionRows \subseteq Regions /\ detailed \subseteq regionRows
  /\ freeholds \subseteq Regions /\ leaseholds \subseteq Regions
  /\ statsMark \in Nat \cup {NoStats} /\ indexJob \in Nat \cup {NoStats}
  /\ sinceMark \in Int \cup {NoSince}
  /\ detailJobs \subseteq Regions
  /\ lane.touched \subseteq Regions
  /\ lane.job = "detail" => lane.region \in detailJobs

RegionInStep(r) ==
  /\ r \in detailed
  /\ r \in freeholds <=> contract[r] = "freehold"
  /\ r \in leaseholds <=> contract[r] = "leasehold"

(* What will bring a region up to date: its detail job, an event the feed   *)
(* shows or will show within the reach of the next poll, or an index that   *)
(* finds it without its detail.                                             *)
EventInReach(r) == \E e \in Shown \cup unpublished : e[2] = r
IndexComing == indexJob # NoStats \/ statsMark # Cardinality(registered)

(* A registered region that is stale always has a refresh coming, whatever  *)
(* was cut between the rows, the queueing and the watermark - unless a      *)
(* detail job was buried, an event surfaced more than a second late, or a   *)
(* removal hid from the count a region the index had skipped.               *)
StalenessIsPending ==
  realtyExcuses = {} =>
    \A r \in registered : \/ RegionInStep(r) \/ r \in detailJobs \/ EventInReach(r)
                          \/ r \notin detailed /\ IndexComing
=============================================================================
