--------------------------- MODULE PunishmentCrawl ---------------------------
(***************************************************************************)
(* Mirroring one type of punishment (sync/handlers/punishments.ts): the    *)
(* probe compares upstream's count with the watermark and queues a crawl,  *)
(* the crawl walks pages that are cut from a list, newest first, which     *)
(* changes under its feet, and may be cut short between any two pages.     *)
(*                                                                         *)
(* A record is its place in the order of publication.  One crawl of a type *)
(* runs at a time and never beside the probe: the source has one lane and  *)
(* the crawl one dedupe key.  lastSeenAt is kept relative to startedAt: a  *)
(* record is in "seen" when this attempt upserted it.                      *)
(***************************************************************************)
EXTENDS Integers, FiniteSets

CONSTANTS LastRecord,   (* records upstream ever publishes                  *)
          Seed,         (* of these, the ones there at the start            *)
          PageSize, MaxPages, MaxAttempts,
          Removals,     (* how many records upstream may remove             *)
          Cuts,         (* how many crawl attempts may be cut short         *)
          NoCount       (* no watermark yet                                 *)

ASSUME CrawlAssumption ==
  /\ {LastRecord, Seed, Removals, Cuts} \subseteq Nat /\ Seed <= LastRecord
  /\ {PageSize, MaxPages, MaxAttempts} \subseteq Nat \ {0}
  /\ LastRecord <= PageSize * MaxPages    \* the safety rail is never reached
  /\ NoCount \notin Nat

Records == 1..LastRecord

VARIABLES upstream,    (* the records upstream lists now                    *)
          born,        (* how many it has published so far                  *)
          stored,      (* [Records -> "absent", "listed" or "withdrawn"]    *)
          watermark,   (* count.<type>, or NoCount                          *)
          job,         (* the live crawl job of this type, if any           *)
          phase, page, (* where the running attempt is                      *)
          seen,        (* what it has upserted                              *)
          removals, cuts,             (* what is left of the budgets        *)
          observed, begun,  (* history: removals left when the count was    *)
                       (* taken and when the attempt began                  *)
          atStart, arrivals,  (* history: upstream when the attempt began,  *)
                       (* and publications since                            *)
          excuses      (* history: why the mirror may silently have a gap   *)

feed  == <<upstream, born, removals>>
crawl == <<phase, page, seen, observed, begun, atStart>>
vars  == <<feed, stored, watermark, job, crawl, cuts, arrivals, excuses>>

Job == [status : {"none", "pending", "running"}, mode : {"full", "incremental"},
        count : Nat, attempts : Nat]
NoJob == [status |-> "none", mode |-> "full", count |-> 0, attempts |-> 0]

Count == Cardinality(upstream)
RemovedSince(left) == removals < left

Init == /\ upstream = 1..Seed /\ born = Seed
        /\ stored = [r \in Records |-> "absent"]
        /\ watermark = NoCount
        /\ job = NoJob
        /\ phase = "idle" /\ page = 1 /\ seen = {}
        /\ removals = Removals /\ cuts = Cuts
        /\ observed = 0 /\ begun = 0 /\ atStart = {} /\ arrivals = 0
        /\ excuses = {}

-----------------------------------------------------------------------------
(* Upstream.                                                                *)
Publish ==
  /\ born < LastRecord
  /\ born' = born + 1
  /\ upstream' = upstream \cup {born + 1}
  /\ arrivals' = arrivals + 1
  /\ excuses' = IF job.status = "running" /\ job.mode = "incremental"
                   /\ phase = "reading" /\ arrivals + 1 >= PageSize
                THEN excuses \cup {"overtaken"} ELSE excuses
  /\ UNCHANGED <<removals, stored, watermark, job, crawl, cuts>>

Remove(r) ==
  /\ removals > 0 /\ r \in upstream
  /\ removals' = removals - 1
  /\ upstream' = upstream \ {r}
  /\ excuses' = excuses \cup {"removal"}
  /\ UNCHANGED <<born, stored, watermark, job, crawl, cuts, arrivals>>

-----------------------------------------------------------------------------
(* handlePunishmentStats.                                                   *)
(* Mutant: the directions are swapped.                                      *)
ModeSwapped(count) ==
  IF watermark = NoCount \/ count > watermark THEN "full" ELSE "incremental"

ModeFor(count) ==
  IF watermark = NoCount THEN "full"
  ELSE IF count < watermark THEN "full" ELSE "incremental"

(* Mutant: a job whose payload carries no count.                            *)
ProbeWithoutCount ==
  /\ job.status # "running" /\ watermark # Count
  /\ job' = [status |-> "pending", mode |-> ModeFor(Count), count |-> NoCount, attempts |-> 0]
  /\ observed' = removals
  /\ UNCHANGED <<feed, stored, watermark, phase, page, seen, begun, atStart, cuts, arrivals, excuses>>

(* enqueue does nothing while a crawl of the type is live, so that crawl    *)
(* keeps the mode and the count it was queued with.                         *)
Probe ==
  /\ job.status = "none"
  /\ watermark # Count
  /\ job' = [status |-> "pending", mode |-> ModeFor(Count), count |-> Count, attempts |-> 0]
  /\ observed' = removals
  /\ UNCHANGED <<feed, stored, watermark, phase, page, seen, begun, atStart, cuts, arrivals, excuses>>

-----------------------------------------------------------------------------
(* handlePunishmentCrawl.                                                   *)
(* Mutant: an attempt resumes at the page the last one had reached.         *)
StartCrawlResuming ==
  /\ job.status = "pending"
  /\ job' = [job EXCEPT !.status = "running", !.attempts = @ + 1]
  /\ phase' = "reading" /\ page' = page /\ seen' = {}
  /\ begun' = removals /\ atStart' = upstream /\ arrivals' = 0
  /\ UNCHANGED <<feed, stored, watermark, observed, cuts, excuses>>

StartCrawl ==
  /\ job.status = "pending"
  /\ job' = [job EXCEPT !.status = "running", !.attempts = @ + 1]
  /\ phase' = "reading" /\ page' = 1 /\ seen' = {}
  /\ begun' = removals /\ atStart' = upstream /\ arrivals' = 0
  /\ UNCHANGED <<feed, stored, watermark, observed, cuts, excuses>>

Rank(r) == Cardinality({q \in upstream : q >= r})
Page(n) == {r \in upstream : (n - 1) * PageSize < Rank(r) /\ Rank(r) <= n * PageSize}
MorePages(n) == Count > n * PageSize

(* A page with nothing new on it; the hint of 6 is never above the length.  *)
StopsEarly(items) ==
  job.mode = "incremental" /\ \A r \in items : stored[r] # "absent"

(* client.page, upsertBatch and the decision to read on.                    *)
ReadPage ==
  /\ job.status = "running" /\ phase = "reading"
  /\ LET items == IF page <= MaxPages THEN Page(page) ELSE {}
     IN /\ stored' = [r \in Records |-> IF r \in items THEN "listed" ELSE stored[r]]
        /\ seen' = seen \cup items
        /\ IF items = {} \/ StopsEarly(items) \/ ~MorePages(page)
           THEN phase' = "walked" /\ UNCHANGED page
           ELSE page' = page + 1 /\ UNCHANGED phase
  /\ UNCHANGED <<feed, watermark, job, observed, begun, atStart, cuts, arrivals, excuses>>

(* A full crawl takes what it did not see for lifted.                       *)
Withdraw ==
  /\ job.status = "running" /\ phase = "walked" /\ job.mode = "full"
  /\ stored' = [r \in Records |->
                  IF stored[r] = "listed" /\ r \notin seen THEN "withdrawn" ELSE stored[r]]
  /\ phase' = "withdrawn"
  /\ UNCHANGED <<feed, watermark, job, page, seen, observed, begun, atStart, cuts,
                 arrivals, excuses>>

(* The last page is read, and what is gone is withdrawn.                    *)
ReadyToCommit == /\ job.status = "running"
                 /\ phase = IF job.mode = "full" THEN "withdrawn" ELSE "walked"

(* Mutant: a crawl that stopped early leaves the watermark alone.           *)
CommitFullOnly ==
  /\ ReadyToCommit
  /\ watermark' = IF job.mode = "full" THEN job.count ELSE watermark
  /\ phase' = "committed"
  /\ UNCHANGED <<feed, stored, job, page, seen, observed, begun, atStart, cuts,
                 arrivals, excuses>>

(* Mutant: the count upstream has by now becomes the watermark.             *)
CommitLiveCount ==
  /\ ReadyToCommit
  /\ watermark' = Count
  /\ phase' = "committed"
  /\ excuses' = IF job.mode = "full" /\ ~RemovedSince(observed) THEN {} ELSE excuses
  /\ UNCHANGED <<feed, stored, job, page, seen, observed, begun, atStart, cuts, arrivals>>

(* The count the probe saw becomes the watermark.  A full crawl also mends  *)
(* whatever gap there was.                                                  *)
Commit ==
  /\ ReadyToCommit
  /\ watermark' = job.count
  /\ phase' = "committed"
  /\ excuses' = IF job.mode = "full" /\ ~RemovedSince(observed) THEN {} ELSE excuses
  /\ UNCHANGED <<feed, stored, job, page, seen, observed, begun, atStart, cuts, arrivals>>

JobDone ==
  /\ job.status = "running" /\ phase = "committed"
  /\ job' = NoJob /\ phase' = "idle"
  /\ UNCHANGED <<feed, stored, watermark, page, seen, observed, begun, atStart, cuts, arrivals, excuses>>

(* The attempt is cut short: an error, a 429 or an open circuit puts the    *)
(* job back, as does the restart after a crash; an error on the last        *)
(* attempt buries it.  The payload stays as it was.                         *)
CutShort ==
  /\ job.status = "running" /\ cuts > 0
  /\ cuts' = cuts - 1
  /\ \/ job' = [job EXCEPT !.status = "pending"]
     \/ job.attempts >= MaxAttempts /\ job' = NoJob
  /\ phase' = "idle"
  /\ excuses' = IF phase = "reading" /\ page > 1
                THEN excuses \cup {"cut"} ELSE excuses
  /\ UNCHANGED <<feed, stored, watermark, page, seen, observed, begun, atStart, arrivals>>

CrawlStep == ReadPage \/ Withdraw \/ Commit \/ JobDone

Next == \/ Publish \/ \E r \in Records : Remove(r)
        \/ Probe \/ StartCrawl \/ CrawlStep \/ CutShort

Spec == Init /\ [][Next]_vars

(* The scheduler probes for ever, the worker claims what is due, and        *)
(* requests and statements end.                                             *)
Fairness == WF_vars(Probe) /\ WF_vars(StartCrawl) /\ WF_vars(CrawlStep)

FairSpec == Spec /\ Fairness

-----------------------------------------------------------------------------
(* A live job always carries the count its success will commit.             *)
TypeOK ==
  /\ upstream \subseteq Records /\ born \in Nat
  /\ stored \in [Records -> {"absent", "listed", "withdrawn"}]
  /\ watermark \in Nat \cup {NoCount}
  /\ job \in Job
  /\ phase \in {"idle", "reading", "walked", "withdrawn", "committed"}
  /\ page \in 1..MaxPages /\ seen \subseteq Records 
  /\ atStart \subseteq Records
  /\ {removals, cuts, arrivals, observed, begun} \subseteq Nat
  /\ excuses \subseteq {"removal", "overtaken", "cut"}

(* A full crawl, cut short and restarted any number of times, withdraws     *)
(* exactly the records that are gone, however many were published while it  *)
(* ran, unless one was removed while it ran: no standing ban is shown as    *)
(* lifted because its page was read by an earlier attempt.                  *)
FullCrawlExact ==
  [][Withdraw /\ ~RemovedSince(begun) =>
       \A r \in Records : /\ r \in atStart => stored'[r] = "listed"
                          /\ r \notin upstream => stored'[r] # "listed"]_vars

(* The probe sees nothing to do, ...                                        *)
Settled == job.status = "none" /\ watermark = Count
InStep == \A r \in Records : stored[r] = "listed" <=> r \in upstream

(* ... and rightly so: the mirror is exact, unless since the last complete  *)
(* full crawl a record was removed, a crawl was cut after its first page,   *)
(* or a page's worth of records arrived while an incremental one read.      *)
GapsAreExcused == Settled /\ excuses = {} => InStep

(* "An interrupted crawl leaves a silent, permanent gap" is what committing *)
(* the count only on success is to prevent: with nothing removed, a mirror  *)
(* the probe is content with is complete.                                   *)
NoSilentGap == Settled /\ removals = Removals => InStep

(* Every movement of the count is at last answered by a crawl, whatever is  *)
(* cut short, dropped by the dedupe key or buried on the way.               *)
CatchesUp == <>[]Settled

(* When upstream only ever removes, the mirror ends up exact: a crawl that  *)
(* a removal made skip a record is always followed by another.              *)
RemovalsConverge == [](born = Seed) => <>[]InStep
=============================================================================
