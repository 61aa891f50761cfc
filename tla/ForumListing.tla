----------------------------- MODULE ForumListing -----------------------------
(***************************************************************************)
(* Mirroring the two eviction listings of the forum, and the links an      *)
(* operator makes by hand (sync/handlers/forum.ts, app/regions/actions.ts, *)
(* app/reports/actions.ts).                                                *)
(*                                                                         *)
(* A coordinator queues page 1 of each listing, as a backfill until one    *)
(* has reached the end, and a page job queues the next page of its walk.   *)
(* The forum lane runs one page job at a time; the operator's actions run  *)
(* beside it.  A listing is newest first and a thread that is archived     *)
(* arrives at the top of the archive, as the handler takes for granted.    *)
(*                                                                         *)
(* A title is the set of plot ids it names, lower-cased, and a prefix is   *)
(* whether EVICTION_RESOLVED_PREFIXES holds it.                            *)
(***************************************************************************)
EXTENDS Integers, FiniteSets, SequencesExt

CONSTANTS Threads, Plots,
          Lower,          (* [Plots -> ids]: two plots may differ by case   *)
          MergedWith,     (* [Plots -> SUBSET Plots]: the merge group       *)
          Titles,         (* the titles threads may have                    *)
          FirstTitle, FirstPlots,
          FreshListing, MirroredListing,  (* what is listed at the start    *)
          PageSize, MaxListingPages,
          FreshEvents,    (* how often upstream, an operator or a fault      *)
          MirroredEvents, (* acts, on a new database and on a mirrored one  *)
          NoReport, NoDigest

Feeds == {"reports", "archive"}
Modes == {"backfill", "incremental"}
Pages == 1..MaxListingPages
LinkSource == {"none", "parsed", "manual"}
ReportRow == [feed : Feeds, active : BOOLEAN, source : {"forum", "manual"}]
Entries == [thread : Threads, title : Titles, resolved : BOOLEAN]

ASSUME ForumAssumption ==
  /\ Lower \in [Plots -> UNION Titles] /\ MergedWith \in [Plots -> SUBSET Plots]
  /\ FirstTitle \in [Threads -> Titles]
  /\ {FreshListing, MirroredListing} \subseteq [Feeds -> Seq(Threads)]
  /\ \A lists \in {FreshListing, MirroredListing} :       (* each thread once *)
       \A f, g \in Feeds : \A m \in DOMAIN lists[f], n \in DOMAIN lists[g] :
         lists[f][m] = lists[g][n] => f = g /\ m = n
  /\ FirstPlots \subseteq Plots /\ IsFiniteSet(Threads)
  /\ PageSize \in Nat \ {0} /\ MaxListingPages \in Nat \ {0}
  /\ Cardinality(Threads) <= PageSize * MaxListingPages
  /\ {FreshEvents, MirroredEvents} \subseteq Nat
  /\ NoReport \notin ReportRow /\ \A es \in SUBSET Entries : es # NoDigest

VARIABLES listing,    (* [Feeds -> Seq(Threads)], newest first               *)
          title, resolved,
          plotTable,  (* the plots of FORUM_REGION_WORLD in regions          *)
          report,     (* [Threads -> ReportRow or NoReport]                  *)
          link,       (* [Threads -> [Plots -> LinkSource]]                  *)
          digest,     (* [Feeds -> [Pages -> a set of entries or NoDigest]]  *)
          backfilled, (* the feeds whose backfill watermark is "complete"    *)
          pageJob,    (* [Feeds -> [Pages -> the mode of the live job or "none"]] *)
          walk,       (* the page job that runs                              *)
          paste,      (* a link being made by hand                           *)
          forumEvents,
          atStartOf,  (* history: what a feed listed when its backfill began *)
          forumExcuses (* history: why the mirror may stay out of step       *)

upstreamForum == <<listing, title, resolved>>
forumTables   == <<plotTable, report, link, digest, backfilled>>
forumPast     == <<atStartOf, forumExcuses>>
forumVars == <<upstreamForum, forumTables, pageJob, walk, paste, forumEvents, forumPast>>

Entry(t) == [thread |-> t, title |-> title[t], resolved |-> t \in resolved]

Idle == [phase |-> "idle", feed |-> "reports", page |-> 1, mode |-> "backfill",
         entries |-> {}, last |-> 1, new |-> {}]
NoPaste == [phase |-> "none", thread |-> CHOOSE t \in Threads : TRUE, plots |-> {},
            verified |-> FALSE, resolved |-> FALSE]

-----------------------------------------------------------------------------
(* What upstream shows.                                                     *)
PageOf(f, n) ==
  ToSet(SubSeq(listing[f], (n - 1) * PageSize + 1, Min({n * PageSize, Len(listing[f])})))
LastPage(f) == IF listing[f] = << >> THEN 1 ELSE ((Len(listing[f]) - 1) \div PageSize) + 1
Listed(f) == ToSet(listing[f])


(* What the crawl is to make of a thread.                                   *)
IsReportActive(isResolved) == ~isResolved
Row(f, isResolved) ==
  [feed |-> f, active |-> f # "archive" /\ IsReportActive(isResolved), source |-> "forum"]

(* An id that two plots spell, but for their case, names neither.           *)
Candidates(id) == {p \in plotTable : Lower[p] = id}
Matches(ids) == UNION {c \in {Candidates(id) : id \in ids} : Cardinality(c) = 1}

ReportInStep(f, t) == report[t] = Row(f, t \in resolved)
LinksInStep(t) ==
  \A p \in Plots : /\ p \in Matches(title[t]) => link[t][p] # "none"
                   /\ link[t][p] = "parsed" => p \in Matches(title[t])
ThreadInStep(f, t) == ReportInStep(f, t) /\ LinksInStep(t)

(* A new database, or one that has mirrored the listings as they are.       *)
NothingStored ==
  /\ listing = FreshListing
  /\ report = [t \in Threads |-> NoReport]
  /\ link = [t \in Threads |-> [p \in Plots |-> "none"]]
  /\ digest = [f \in Feeds |-> [n \in Pages |-> NoDigest]]
  /\ backfilled = {}
  /\ forumEvents = FreshEvents

AllStored ==
  /\ listing = MirroredListing
  /\ report = [t \in Threads |-> IF \E f \in Feeds : t \in Listed(f)
                 THEN Row(CHOOSE f \in Feeds : t \in Listed(f), FALSE) ELSE NoReport]
  /\ link = [t \in Threads |-> [p \in Plots |->
               IF report[t] # NoReport /\ p \in Matches(title[t]) THEN "parsed" ELSE "none"]]
  /\ digest = [f \in Feeds |-> [n \in Pages |->
                 IF PageOf(f, n) = {} THEN NoDigest ELSE {Entry(t) : t \in PageOf(f, n)}]]
  /\ backfilled = Feeds
  /\ forumEvents = MirroredEvents

ForumInit ==
  /\ title = FirstTitle /\ resolved = {}
  /\ plotTable = FirstPlots
  /\ NothingStored \/ AllStored
  /\ pageJob = [f \in Feeds |-> [n \in Pages |-> "none"]]
  /\ walk = Idle /\ paste = NoPaste
  /\ atStartOf = [f \in Feeds |-> {}] /\ forumExcuses = {}

WalkIn(f) == \/ walk.phase # "idle" /\ walk.feed = f
             \/ \E n \in Pages \ {1} : pageJob[f][n] # "none"

(* A thread that is not in step is now below page 1, with one that is known *)
(* or in hand at or above it: the next check of page 1, or the walk under   *)
(* way, stops short of it.                                                  *)
InHand == {e.thread : e \in walk.entries}
PushExcuses(f, arriving) ==
  IF \E n \in DOMAIN listing[f] :
       /\ n >= PageSize /\ ~ThreadInStep(f, listing[f][n])
       /\ \E t \in ToSet(SubSeq(listing[f], 1, n)) \cup {arriving} :
            report[t] # NoReport \/ t \in InHand
  THEN {"overtaken"} ELSE {}

Post(t) ==
  /\ forumEvents > 0 /\ \A f \in Feeds : t \notin Listed(f)
  /\ forumEvents' = forumEvents - 1
  /\ listing' = [listing EXCEPT !["reports"] = <<t>> \o @]
  /\ forumExcuses' = forumExcuses \cup PushExcuses("reports", t)
  /\ UNCHANGED <<title, resolved, forumTables, pageJob, walk, paste, atStartOf>>

Archive(t) ==
  /\ forumEvents > 0
  /\ forumEvents' = forumEvents - 1
  /\ \E n \in DOMAIN listing["reports"] :
       /\ listing["reports"][n] = t
       /\ listing' = [reports |-> RemoveAt(listing["reports"], n),
                      archive |-> <<t>> \o listing["archive"]]
  /\ forumExcuses' = forumExcuses \cup PushExcuses("archive", t)
                       \cup (IF WalkIn("reports") THEN {"skipped"} ELSE {})
  /\ UNCHANGED <<title, resolved, forumTables, pageJob, walk, paste, atStartOf>>

(* A moderator gives the thread another prefix, or its author another title. *)
Edit(t) ==
  /\ forumEvents > 0
  /\ \/ resolved' = resolved \cup {t} /\ resolved' # resolved /\ UNCHANGED title
     \/ \E names \in Titles \ {title[t]} :
          title' = [title EXCEPT ![t] = names] /\ UNCHANGED resolved
  /\ forumEvents' = forumEvents - 1
  /\ forumExcuses' = IF \E f \in Feeds : \/ t \in Listed(f) \ PageOf(f, 1)
                                         \/ t \in Listed(f) /\ WalkIn(f)
                     THEN forumExcuses \cup {"deep"} ELSE forumExcuses
  /\ UNCHANGED <<listing, forumTables, pageJob, walk, paste, atStartOf>>

(* The realty lane stores a plot: titles already read are not read again.   *)
IndexPlot(p) ==
  /\ p \notin plotTable /\ forumEvents > 0
  /\ forumEvents' = forumEvents - 1
  /\ plotTable' = plotTable \cup {p}
  /\ forumExcuses' = IF walk.phase # "idle" \/ \E t \in Threads : report[t] # NoReport
                     THEN forumExcuses \cup {"late plot"} ELSE forumExcuses
  /\ UNCHANGED <<upstreamForum, report, link, digest, backfilled, pageJob, walk, paste, atStartOf>>

-----------------------------------------------------------------------------
(* enqueue: nothing while a job of the key is live, the running one too.    *)
Live(f, n) == pageJob[f][n] # "none"

(* Mutant: the enqueue overwrites the payload of the live job.              *)
EnqueuedOver(f, n, mode) == [pageJob EXCEPT ![f][n] = mode]

Enqueued(f, n, mode) == IF Live(f, n) THEN pageJob ELSE [pageJob EXCEPT ![f][n] = mode]

(* handleForumEvictionReports, for both feeds.                              *)
Coordinate ==
  LET modeOf(f) == IF f \in backfilled THEN "incremental" ELSE "backfill"
  IN /\ pageJob' = [f \in Feeds |-> Enqueued(f, 1, modeOf(f))[f]]
     /\ pageJob' # pageJob
     /\ UNCHANGED <<upstreamForum, forumTables, walk, paste, forumEvents, forumPast>>

(* handleForumListingPage up to the unchanged check.  A page without rows   *)
(* throws until the job is buried.                                          *)
EndJob == /\ pageJob' = [pageJob EXCEPT ![walk.feed][walk.page] = "none"]
          /\ walk' = Idle

Claim(f, n) ==
  /\ walk.phase = "idle" /\ Live(f, n)
  /\ LET entries == {Entry(t) : t \in PageOf(f, n)}
         mode    == pageJob[f][n]
     IN IF entries = {} \/ (mode = "incremental" /\ digest[f][n] = entries)
        THEN /\ pageJob' = [pageJob EXCEPT ![f][n] = "none"]
             /\ UNCHANGED <<walk, atStartOf>>
        ELSE /\ atStartOf' = IF mode = "backfill" /\ n = 1 /\ ~WalkIn(f)
                             THEN [atStartOf EXCEPT ![f] = Listed(f)] ELSE atStartOf
             /\ walk' = [phase |-> "fetched", feed |-> f, page |-> n, mode |-> mode,
                         entries |-> entries, last |-> LastPage(f), new |-> {}]
             /\ UNCHANGED pageJob
  /\ UNCHANGED <<upstreamForum, forumTables, paste, forumEvents, forumExcuses>>

(* Mutant: an attempt carries on from the page an earlier one had fetched.  *)
StoreReportsOnce ==
  /\ walk.phase = "fetched"
  /\ LET here == {e.thread : e \in walk.entries}
     IN /\ walk' = [walk EXCEPT !.phase = "stored",
                                !.new = {t \in here : report[t] = NoReport}]
        /\ report' = [t \in Threads |->
             IF t \in here /\ report[t] = NoReport
             THEN Row(walk.feed, \E e \in walk.entries : e.thread = t /\ e.resolved)
             ELSE report[t]]
  /\ UNCHANGED <<upstreamForum, plotTable, link, digest, backfilled, pageJob, paste,
                 forumEvents, forumPast>>

(* Which threads are known, and the upsert that makes them all known.       *)
StoreReports ==
  /\ walk.phase = "fetched"
  /\ LET here == {e.thread : e \in walk.entries}
     IN /\ walk' = [walk EXCEPT !.phase = "stored",
                                !.new = {t \in here : report[t] = NoReport}]
        /\ report' = [t \in Threads |->
             IF t \in here
             THEN Row(walk.feed, \E e \in walk.entries : e.thread = t /\ e.resolved)
             ELSE report[t]]
  /\ UNCHANGED <<upstreamForum, plotTable, link, digest, backfilled, pageJob, paste,
                 forumEvents, forumPast>>

(* The links the title gives, where no link stands.                         *)
WithParsed(old, ids) ==
  [p \in Plots |-> IF p \in Matches(ids) /\ old[p] = "none" THEN "parsed" ELSE old[p]]
WithoutParsed(old) == [p \in Plots |-> IF old[p] = "parsed" THEN "none" ELSE old[p]]

(* Mutant: every link of the thread is deleted before the parsed ones are   *)
(* derived.                                                                 *)
Rederived(old, ids) == WithParsed([p \in Plots |-> "none"], ids)

(* Re-derive the links of a thread; the manual ones stay.                   *)
Relinked(old, ids) == WithParsed(WithoutParsed(old), ids)

(* Relink every thread seen, and note the page's digest: a cut between the  *)
(* two is as one before both, for the links are derived afresh.             *)
Relink ==
  /\ walk.phase = "stored"
  /\ link' = [t \in Threads |->
       IF \E e \in walk.entries : e.thread = t
       THEN Relinked(link[t], (CHOOSE e \in walk.entries : e.thread = t).title)
       ELSE link[t]]
  /\ digest' = [digest EXCEPT ![walk.feed][walk.page] = walk.entries]
  /\ walk' = [walk EXCEPT !.phase = "digested"]
  /\ UNCHANGED <<upstreamForum, plotTable, report, backfilled, pageJob, paste,
                 forumEvents, forumPast>>

HasNextPage ==
  /\ walk.page < Min({walk.last, MaxListingPages})
  /\ walk.mode = "backfill" \/ walk.new = {e.thread : e \in walk.entries}

(* Mutant: the backfill is taken for complete once its first page is in.    *)
ChainOptimistic ==
  /\ walk.phase = "digested"
  /\ walk' = Idle
  /\ pageJob' = [(IF HasNextPage THEN Enqueued(walk.feed, walk.page + 1, walk.mode) ELSE pageJob)
                 EXCEPT ![walk.feed][walk.page] = "none"]
  /\ backfilled' = IF walk.mode = "backfill" THEN backfilled \cup {walk.feed} ELSE backfilled
  /\ UNCHANGED <<upstreamForum, plotTable, report, link, digest, paste, forumEvents, forumPast>>

(* Queue the next page, or call the backfill complete; then the job is done. *)
Chain ==
  /\ walk.phase = "digested"
  /\ walk' = Idle
  /\ pageJob' = [(IF HasNextPage THEN Enqueued(walk.feed, walk.page + 1, walk.mode) ELSE pageJob)
                 EXCEPT ![walk.feed][walk.page] = "none"]
  /\ backfilled' = IF ~HasNextPage /\ walk.mode = "backfill"
                   THEN backfilled \cup {walk.feed} ELSE backfilled
  /\ UNCHANGED <<upstreamForum, plotTable, report, link, digest, paste, forumEvents, forumPast>>

(* An error or a crash puts the job back or, on its last attempt, buries    *)
(* it; a ForumAuthError ends it without an effect.                          *)
CutPage ==
  /\ walk.phase # "idle" /\ forumEvents > 0
  /\ forumEvents' = forumEvents - 1
  /\ walk' = Idle
  /\ \/ UNCHANGED pageJob
     \/ pageJob' = [pageJob EXCEPT ![walk.feed][walk.page] = "none"]
  /\ LET buried == pageJob' # pageJob IN
     forumExcuses' = IF \/ /\ walk.mode = "incremental"
                           /\ walk.phase # "fetched" \/ (walk.page > 1 /\ buried)
                        \/ /\ walk.mode = "backfill" /\ buried
                           /\ \/ walk.feed \in backfilled
                              \/ \E n \in Pages : n > walk.page /\ Live(walk.feed, n)
                     THEN forumExcuses \cup {"cut"} ELSE forumExcuses
  /\ UNCHANGED <<upstreamForum, forumTables, paste, atStartOf>>

WalkStep == StoreReports \/ Relink \/ Chain

-----------------------------------------------------------------------------
(* linkEvictionReport: what it reads, of the plot and from the forum.       *)
(* Unverified: no cookie, or an expired one; a thread that is not there is  *)
(* refused.                                                                 *)
ReadForLink(t, p, verified) ==
  /\ paste.phase = "none" /\ forumEvents > 0
  /\ p \in plotTable
  /\ \E f \in Feeds : t \in Listed(f)
  /\ paste' = [phase |-> "read", thread |-> t, plots |-> {p} \cup MergedWith[p],
               verified |-> verified, resolved |-> t \in resolved]
  /\ forumEvents' = forumEvents - 1
  /\ UNCHANGED <<upstreamForum, forumTables, pageJob, walk, forumPast>>

Pasted == [feed   |-> "reports",
           active |-> ~paste.verified \/ IsReportActive(paste.resolved),
           source |-> IF paste.verified THEN "forum" ELSE "manual"]

(* On conflict a verified paste overwrites all but the feed, an unverified  *)
(* one nothing.                                                             *)
AfterPaste(old) == IF old = NoReport THEN Pasted
                   ELSE IF paste.verified THEN [Pasted EXCEPT !.feed = old.feed]
                   ELSE old

FinishLink ==
  /\ paste.phase = "read"
  /\ LET t == paste.thread IN
     /\ report' = [report EXCEPT ![t] = AfterPaste(@)]
     /\ link' = [link EXCEPT ![t] =
                   [p \in Plots |-> IF p \in paste.plots THEN "manual" ELSE @[p]]]
     /\ forumExcuses' =
          IF \/ report[t] # NoReport /\ report'[t] # report[t]
             \/ report[t] = NoReport /\ \E f \in Feeds :
                   t \in Listed(f) /\ (Len(listing[f]) > PageSize \/ WalkIn(f))
          THEN forumExcuses \cup {"pasted"} ELSE forumExcuses
  /\ paste' = NoPaste
  /\ UNCHANGED <<upstreamForum, plotTable, digest, backfilled, pageJob, walk, forumEvents, atStartOf>>

(* unlinkEvictionReport takes a manual link only, unassignReportRegion any. *)
Unlink(t, p) ==
  /\ link[t][p] = "manual"
  /\ link' = [link EXCEPT ![t][p] = "none"]
  /\ forumExcuses' = forumExcuses \cup {"unassigned"}
  /\ UNCHANGED <<upstreamForum, plotTable, report, digest, backfilled, pageJob, walk, paste, forumEvents, atStartOf>>

Unassign(t, p) ==
  /\ link[t][p] # "none" /\ forumEvents > 0
  /\ link' = [link EXCEPT ![t][p] = "none"]
  /\ forumEvents' = forumEvents - 1
  /\ forumExcuses' = forumExcuses \cup {"unassigned"}
  /\ UNCHANGED <<upstreamForum, plotTable, report, digest, backfilled, pageJob, walk, paste, atStartOf>>

(* assignReportRegion: an id as typed, whose case does not count, must name *)
(* one plot.                                                                *)
ResolveRegionInput(id) == {p \in plotTable : Lower[p] = id}

Assign(t, id) ==
  /\ report[t] # NoReport /\ forumEvents > 0
  /\ \E p \in Plots : /\ ResolveRegionInput(id) = {p}
                      /\ link' = [link EXCEPT ![t][p] = "manual"]
  /\ forumEvents' = forumEvents - 1
  /\ UNCHANGED <<upstreamForum, plotTable, report, digest, backfilled, pageJob, walk, paste, forumPast>>

OperatorStep ==
  \/ \E t \in Threads, p \in Plots : Unlink(t, p) \/ Unassign(t, p)
  \/ \E t \in Threads, p \in Plots, v \in BOOLEAN : ReadForLink(t, p, v)
  \/ \E t \in Threads, id \in UNION Titles : Assign(t, id)
  \/ FinishLink

ForumNext ==
  \/ \E t \in Threads : Post(t) \/ Archive(t) \/ Edit(t)
  \/ \E p \in Plots : IndexPlot(p)
  \/ Coordinate \/ \E f \in Feeds, n \in Pages : Claim(f, n)
  \/ WalkStep \/ CutPage
  \/ OperatorStep

ForumSpec == ForumInit /\ [][ForumNext]_forumVars

-----------------------------------------------------------------------------
(* A report is of a feed, a live job has a mode, and the page at hand holds *)
(* the threads its digest will name.                                        *)
ForumTypeOK ==
  /\ listing \in [Feeds -> Seq(Threads)] /\ title \in [Threads -> Titles]
  /\ resolved \subseteq Threads /\ plotTable \subseteq Plots
  /\ report \in [Threads -> ReportRow \cup {NoReport}]
  /\ link \in [Threads -> [Plots -> LinkSource]]
  /\ backfilled \subseteq Feeds
  /\ pageJob \in [Feeds -> [Pages -> Modes \cup {"none"}]]
  /\ walk.phase \in {"idle", "fetched", "stored", "digested"}
  /\ walk.phase # "idle" => pageJob[walk.feed][walk.page] = walk.mode
  /\ paste.plots \subseteq Plots

(* A link an operator made outlives every crawl: only an operator's own     *)
(* action takes it away, whatever page was read meanwhile.                  *)
ManualLinksOutlive ==
  [][\A t \in Threads, p \in Plots :
       link[t][p] = "manual" /\ link'[t][p] # "manual" => Unlink(t, p) \/ Unassign(t, p)]_forumVars

(* When a backfill is called complete every thread that was listed when the *)
(* walk began, and still is, has been stored, whatever was cut, buried or   *)
(* queued twice on the way - unless a thread left the listing while the     *)
(* walk read it.                                                            *)
BackfillIsHonest ==
  [][\A f \in backfilled' \ backfilled : "skipped" \notin forumExcuses =>
       \A t \in Listed(f) \cap atStartOf[f] : report[t] # NoReport]_forumVars

(* listReports: the reports page, and its queue of threads without a plot   *)
(* (of the last year).                                                      *)
ListReports(filter) ==
  {t \in Threads :
     /\ report[t] # NoReport
     /\ filter = "unmatched" => \A p \in Plots : link[t][p] = "none"
     /\ filter = "open"      => report[t].active
     /\ filter = "archived"  => report[t].feed = "archive"}

(* When the next tick would change nothing - no page job is live, the       *)
(* backfill is complete and page 1 as it was - every thread of the feed is  *)
(* of the right feed, active or not, and carries the links its title gives, *)
(* and the reports page queues those alone whose title names no plot or two *)
(* - unless one of the named causes of a gap came about.                    *)
FeedSettled(f) == /\ f \in backfilled /\ ~WalkIn(f) /\ ~Live(f, 1)
                  /\ digest[f][1] = {Entry(t) : t \in PageOf(f, 1)}
ForumGapsAreExcused ==
  \A f \in Feeds : FeedSettled(f) /\ forumExcuses = {} =>
    \A t \in Listed(f) :
      /\ ThreadInStep(f, t)
      /\ t \in ListReports("unmatched") => Matches(title[t]) = {}
=============================================================================
