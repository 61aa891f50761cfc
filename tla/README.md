# Pruneroo, specified

TLA+ modules of Pruneroo's synchronisation core, its mirrors and the verdicts it
derives from them, TLC configurations that check them on small instances, and
proofs for TLAPS. Paths below are relative to
`src/lib/` of the repository unless they say otherwise.

Run from this directory: `tlc -config SyncWorkerSafety.cfg MCSyncWorker`,
`tlapm SyncWorkerProofs.tla`.

## The system

Pruneroo is one Next.js server that mirrors four HTTP APIs and a forum into
Postgres and shows insights over the mirror. Everything it fetches goes through
a job queue in the database.

| Part | Code | State it keeps | Operations | Talks to |
|---|---|---|---|---|
| Job queue | `sync/queue.ts` | `sync_jobs`, watermarks, `sync_runs` | enqueue, claim, complete, defer, fail, reclaim, retry | everyone, by SQL |
| Worker | `sync/worker.ts` | lanes in memory, per source | claim loop, `runJob`, watchdog | queue, handlers |
| Boot and lock | `sync/boot.ts`, `sync/lock.ts` | session-level advisory lock | boot, reclaim of abandoned rows, shutdown | worker, Postgres |
| Scheduler, operator actions | `sync/scheduler.ts`, `app/sync/actions.ts` | when each key last ran | enqueue what is due, trigger, retry dead jobs, reset a circuit | queue |
| HTTP client | `http/*.ts`, `sources/index.ts` | token buckets, semaphores, circuit breaker (also a row of `source_health`) | `get` with retries, 429s, breaker | upstream |
| Analytics session | `sources/analytics/session.ts` | cookie, login in flight | shared login | HTTP client's throttle |
| Punishments | `sync/handlers/punishments.ts` | records, count | probe, crawl, withdraw | client, queue |
| Forum | `sync/handlers/forum.ts`, `app/regions/actions.ts`, `app/reports/actions.ts` | reports, links, page digests, backfill marks | coordinate, page by page, relink; link and assign by hand | client, queue, operators |
| Realty | `sync/handlers/realty.ts` | regions, contracts, activity, two watermarks | probe, index, poll, detail | client, queue |
| Treasury | `sync/handlers/treasury.ts`, `sync/pool.ts` | accounts, balances, misses | sweeps, pool, jobs | client, queue |
| Analytics | `sync/handlers/analytics.ts` | lifetime and 30-day playtime | roster pass, detail fetch | client, queue |
| Alerts | `notify/*.ts` | sent keys, channel watermarks | seed, post, record | Discord |
| Shared upserts | `sync/players.ts`, `db/dedupe.ts` | players | sorted batch upsert | every handler |
| Merge groups | `plots/merge.ts`, `sync/handlers/merges.ts` | groups and members | rebuild | realty, forum, operators |
| Verdicts | `plots`, `insights`, `db/views.sql`, `notify/channels.ts` | none: queries | flags, limits, at-risk table, prune list | every mirror |
| Curation, pages | `app` | exclusions, realtors | forms and reads | database |

Handlers are called by the worker with a row of the queue in hand, and queue
further rows; the client is called by handlers and calls back `headers()`; the
worker reads the breaker's row to decide what to claim. Several Node processes
may share the database (a deployment in which old and new overlap); in one
process everything is one thread, so what interleaves is what lies between two
`await`s.

What is hard here: a row's holder loses it (stale reclaim, restart) and settles
it all the same; a handler the watchdog gave up on goes on executing; an
upstream list moves while its pages are read; a crawl is cut between two pages
and restarted; a count is read, carried in a payload and committed much later;
the breaker lives in memory and in a row; slots, tokens and logins wait for each
other. `PROJECT.json` lists these hazards by line.

What makes each part correct:
- queue: one live row per key; a job leaves the queue only through a handler;
- worker: bounded lanes, no job executed twice at a time, wedged handlers do not
  stall a source, orphans come back;
- boot and lock: one worker at a time; handlers drained before the lock is released;
- client: no slot lost, calls end, penalties are honoured, the breaker cuts off a
  sick upstream and lets go of a healthy one;
- punishments: the mirror is exact when the probe is content; nothing standing is
  withdrawn; a moved watermark means "ingested up to here";
- forum: a settled feed shows what upstream shows, a complete backfill has seen
  everything, an operator's links outlive the crawl;
- realty: a stale region has a refresh coming;
- treasury: nobody drops out of the prune list unnoticed, and its backlog drains;
- analytics: nobody is reported to have played less than they did;
- shared upserts: concurrent batches do not deadlock;
- merge groups: plots shown as merged are one property;
- verdicts: the many places that decide what is at risk decide alike;
- alerts: nothing announced twice, nothing lost.

## Modules

| Module | Models | Runs |
|---|---|---|
| `JobQueue` | the statements on `sync_jobs`, one action each | through `SyncWorker` |
| `DedupedQueue` | abstract: what the queue promises its callers | property `ImplementsQueue` |
| `SyncWorker` | processes, lock, loop, lanes, `runJob`, enqueuers; extends `JobQueue` | below |
| `MCSyncWorker` | constants of the instances | `SyncWorker*.cfg` |
| `SyncWorkerProofs` | theorems about `SyncWorker` | `tlapm` |
| `PunishmentCrawl` | probe and crawl of one punishment type | `Punishment*.cfg` |
| `Throttle` | one token bucket and semaphore | through `ApiClient` |
| `NotifyDispatch` | runs of one Discord channel | `Notify*.cfg` |
| `MCNotifyDispatch` | who holds what in the instances | `Notify*.cfg` |
| `NotifyDispatchProofs` | theorems about `NotifyDispatch` | `tlapm` |
| `ApiClient` | `get`, breaker, session; extends `Throttle` | `ApiClient*.cfg` |
| `ForumListing` | both eviction listings and the links made by hand | through `MCMirror` |
| `RealtySync` | index, activity and detail of the regions | through `MCMirror` |
| `PlotMerge` | `evaluateMerge` and the rebuild of the groups | through `MCMirror` |
| `PlotRules` | categories of plots and their limits: pure functions | through `PropertyFlags` |
| `PropertyFlags` | the edits of the tables and every reader of the verdicts; extends `PlotRules` | through `MCMirror` |
| `MCMirror` | the four above in one instance | `Mirror.cfg` |
| `TreasurySweep` | account and balance sweeps, the pool, what the prune page says | through `MCSweeps` |
| `PlaytimeWindow` | the 30-day playtime of one player | through `MCSweeps` |
| `PlayerUpserts` | row locks of concurrent batches | through `MCSweeps` |
| `MCSweeps` | the three above in one instance | `Sweeps.cfg` |
| `ApiClientProofs` | theorems about `ApiClient` and its throttle | `tlapm` |
| `PunishmentCrawlProofs` | theorems about `PunishmentCrawl` | `tlapm` |
| `SweepsProofs` | theorems about the treasury, the playtime, the upserts and `MCSweeps` | `tlapm` |
| `ForumListingProofs` | theorems about `ForumListing` | `tlapm` |
| `RealtySyncProofs` | theorems about `RealtySync` | `tlapm` |
| `MirrorProofs` | theorems about `PlotMerge`, `PlotRules`, `PropertyFlags` and `MCMirror`; extends the two above | `tlapm` |

### JobQueue and SyncWorker

`jobs` is the table. A pair (kind, dedupe key) is one element of `Keys`,
`run_after` is the Boolean `due`, `locked_at` an age in ticks, the payload is
left out. `runs` are the calls of `runJob`: *handling* from the claim until the
outcome is written, *zombie* when the watchdog rejected and the handler, which
nothing cancels, executes on. `pc` is a process's life: down, locked, up,
draining (SIGTERM seen), released. `lock` is the session that holds the advisory
lock. `budget` bounds each kind of disturbance; `"slow"` is spent when a handler
first reaches the stale threshold. The 5-minute reclaim timer and the polling
intervals are left out: what they trigger may happen at any time. Serial ids are
drawn from a pool: a done row no run can name is free again. The settling
statements name their row by id alone, as in the code.

### PunishmentCrawl

A record is its place in the order of publication; `upstream` is the list,
newest first, from which pages are cut at the moment they are read. `stored` is
the mirror, `watermark` the committed count, `job` the live crawl (one per type:
dedupe key, one lane). An attempt that is cut short, by an error, a 429, an open
circuit or a crash, starts again at page 1 with the payload it had. `seen` stands
for `lastSeenAt >= startedAt`. Upstream's count differs from the list's length by a
constant (`docs/ingest.md`), which cancels out; the model takes them equal.
`excuses` is a history variable naming why a gap may exist since the last full
crawl: a removal, an attempt cut after its first page, or a page's worth of
arrivals while an incremental crawl read.

### Throttle and ApiClient

A call is a caller that uses one source's client over and over. Its phase is the
`await` it is at: loading the breaker's row, acquiring, waiting for a login, on
the wire, logging an outcome, saving the breaker, backing off. `line` is the bucket's
promise chain, `holders` and `waiting` the semaphore. A released slot passes to
the first waiter in the same step, since the microtask that hands it over is the
next to run. Time is counted in ticks of one token; `until` is the time left of
`openUntil`, in memory, in the row, and in each save under way. `loaded` is set
before the row arrives, so a second caller passes unchecked, and saves land in
any order or fail, as in the code. `sick` is the upstream failing everything;
`mishaps` bounds restarts, changes of health, penalties, lapsed sessions and
resets together. `licensed` is a history variable: of the requests, logins included, that
held an unused token when a penalty was imposed, the ones that have not yet gone out. A
licence goes with its token, so the call that met the 429 has none for its retry, nor any call
for its next request. One endpoint group is modelled.

### NotifyDispatch

One channel; channels share only the throttle. A key is what
`notification_deliveries` names, `qualifying` what the channel's view lists at the
moment, an item what one embed is about: a punishment, a player, or all new plots
of one holder (`HolderOf`). Which items a query returns first depends on data left
out, so any may, up to a limit that an operator may set anew at a restart (`Limits`); the rest of
a burst is left to the next run. A run is at the `await` it is at: inserting the seed, completing
the watermark, finding, posting, recording. `left` holds the items not yet recorded; the
next message is cut from its front, as `chunk` cuts batches. The size of an embed
is its number of keys, `Room` the 6,000 characters; `clampMessage` keeps the
embeds up to which everything fits, and always the first. `Poison` keys render to a
payload that Discord always refuses. A lost answer has been read by the room; a
429 or 5xx has not; a 4xx is recorded and ends the run. A run from which the
watchdog or a reclaim took the job goes on, and settles the job by its id. The
schedule, back-off and attempts are `SyncWorker`'s and left out: a run may begin
whenever the job is free. An unset webhook makes a run return at once and is left
out. `unsure`, `withheld` and `backlog` are history variables.

### ForumListing

`listing` is what the forum shows of a feed, newest first; a page is cut from it
when it is fetched. `pageJob` says which page jobs are live and in which mode, so that
an enqueue of a live key does nothing, as in `queue.ts`. `walk` is the job that
runs, at the statement it is at: fetched, rows stored, links derived and digest noted,
next page queued. `CutPage` ends it anywhere, with the job put back or buried.
A title is the set of ids it names, lower-cased; an id that two plots spell but
for case names neither. `paste` is `linkEvictionReport` between what it reads and what
it writes. `forumExcuses` names why the mirror may stay out of step: a job cut after its
rows were stored, a page job buried although its feed's backfill is complete or has jobs
further on, a thread pushed below page 1 by one already known or already in a crawl's hand, a
thread that leaves a listing while it is read, an edit below page 1, a plot stored after the
title that names it was read, and operators' own changes. Each is a behaviour of the code
that the next backfill would mend, but a complete backfill is never repeated.

### RealtySync

`contract` is upstream, `regionRows`, `detailed`, `freeholds` and `leaseholds` the
tables, `lane` the running job at the statement it is at. The detail job writes
three tables one after the other. An event may be shown later than it happened
(`unpublished`); the poll reaches one second behind its watermark. `realtyExcuses`
names a buried detail job, an event more than a second late, and a removal, which lets the
count of the probe stand still while the index has skipped a region.

### PlotMerge, PlotRules and PropertyFlags

`PlotMerge` numbers plots and reports in the order of their ids. `EvaluateMerge`
keeps the code's order of rejections and its walk from the first plot; `Genuine`, the
reference it is checked against, speaks of every way to part the plots in two. The
rebuild is read, delete, and per report group and members, with edits and cuts in
between. `formed` remembers the candidates a group came from.

`PlotRules` holds the tables of `plots/categories.ts`. `PropertyFlags` has one action
per statement that edits what a verdict depends on, and time; every reader is an operator
of the tables, named as in the code: the views, `FindAtRiskProperties` with its
filters (a query that names no world or authority gets the default one, `"all"` turns each
off), `OverviewStats`, `HiddenProperties` (exclusions page), `LimitsSummary`, `PlayerProfile`,
`GetRegion`, `DetectReportReasons`, `Alerted`. A predicate that the code writes out
again is written out again here, for that is the hazard. Headline, exclusions and channel
know no world and no authority, so `TablesAgree` compares them with the table of all of them
and says of the opened table which part of that it is. Time counts months and a long
deportation four of them; playtime is nothing or enough.

### TreasurySweep, PlaytimeWindow and PlayerUpserts

`TreasurySweep` keeps, of a balance, whether one is stored, whether it is fresh
and whether it is above the floor. Sweeps queue jobs; the prune sweep holds a lane while
its pool (`pricing`) works on as many players as its concurrency allows: asked, found,
account stored, balance stored. What the upstream says and the statement that writes it are
two steps: `answer` holds the balances in hand, of the balance jobs, the pool and the dormant
refresh, and a 404 or an account found is in hand in `resolving` and `pricing`; so money moves under an answer,
and an older answer of one lane lands over a newer one of the other. A fatal error (`aborted`) stops the pool from pulling
and the job from ending well. `stranded`, `outdated` and `drifted` are history variables: who
lost the balance that was to follow the account, which answers in hand were given before the
money moved, and whose money or account changed since the answer that is stored was given.
Writing an outdated answer leaves a player drifted. The `ORDER BY` of a batch is abstracted: any of the candidates may come
first. `PRUNE_BALANCE_BATCH` is taken as large enough for the dormant refresh.

`PlaytimeWindow` is one player, since players do not interact; a day with play is one
unit. `PlayerUpserts` keeps of a statement the rows it has yet to lock, and of a
writer the one it asked for; locks go when the statement commits or rolls back.

### MCMirror and MCSweeps

What one of these components reads of another it takes as changing at any moment:
`ForumListing` lets plots appear, `PlotMerge` lets links, owners and boundaries change,
`PropertyFlags` lets every table change. An interleaving of several of them therefore shows nothing that
each alone does not, and a behaviour of the two MC modules is about one component (`focus`)
and leaves the others at their start.

## Runs

| Run | Instance | Shows |
|---|---|---|
| `worker_safety` | 2 processes, 1 source with 1 lane, 1 key, 2 rows, 2 runs, 2 attempts, one each of stop, crash, drop, slow, zombie | the table is deduplicated, lanes bounded, boot leaves no orphans, an undisturbed worker is exclusive (rows, keys, processes), and all of it implements `DedupedQueue` |
| `worker_live` | 1 process, 2 lanes, 1 key, handlers that may hang | orphans are recovered, lanes freed, jobs settle |
| `worker_stop` | as `worker_safety` | violated: `DrainedBeforeRelease` |
| `worker_overlap` | 1 process, 2 lanes, a slow handler | violated: `NoOverlap` |
| `punishments_crawl` | 6 records, 3 at the start, pages of 2, 1 removal, 2 cut attempts | full crawls withdraw exactly what is gone, the count is caught up with, gaps are excused, removals converge |
| `punishments_gap` | 4 records, 1 cut attempt, no removal | violated: `NoSilentGap` |
| `client_two_slots` | 2 callers, 2 slots, burst 1, 1 retry, threshold 2, 3 mishaps | slots accounted for, penalties honoured, calls end unless the login is starved, breaker engages and recovers |
| `notify` | 3 keys of one holder each, one poisoned, a limit of 1, 2 or 3 items a run, messages of 2 with room for 1, 2 runs alive, 1 mishap | the backlog stays silent, duplicates and losses have one of the named causes, seeding happens once, the channel drains though bursts are cut and a payload is refused |
| `notify_clamp` | 2 holders with 3 plots, room for 2, no mishap | violated: `NothingLost` |
| `mirror` | forum: 4 threads, 2 plots whose ids differ by case, pages of 1, a new database with 1 disturbance or a mirrored one with 3; realty: 2 regions, 3 seconds, pages of 1, 3 disturbances; merges: 3 plots in a row, 2 reports, 2 edits or cuts; verdicts: 2 properties in 2 worlds, 2 citizens, one of them the default authority, 2 edits, 5 months | gaps of the forum mirror have one of the named causes, a complete backfill is one, manual links outlive the crawl, stale regions have a refresh coming, merged plots are genuine, all readers of the verdicts agree |
| `sweeps` | treasury: 2 players, 2 lanes, a pool of 2, 1 fault; playtime: a window of 2 days, days 0 to 5, 1 failed fetch; upserts: 3 writers, 3 players, statements of 2 rows | the prune list is honest and its backlog drains, playtime is not understated, upserts do not deadlock |
| `client_login` | 1 caller, 1 slot, a login needed | violated: `SharedLoginEnds` |

Why these bounds are enough. Two processes are what a lock hands over between;
two runs and two rows are what an overlap, a stale settlement or a duplicate
takes; two attempts separate "retry" from "give up". One tick of staleness keeps
the code's order of thresholds (stale no later than the watchdog). Three records
in pages of two give a crawl of two pages, so that one can be skipped, cut
between or overtaken; three publications outrun a page. Two callers and two
slots let one caller log in beside the other, and let both starve the login. Three
items in messages of two make a run of two messages, of which the second can fail
after the first was recorded, and room for one key makes the clamp drop the
second embed of the first; a limit of one or two cuts the burst, so that later runs pick up
the rest; two runs overlap. Each cause of a duplicate or a loss
takes one mishap; that combinations add nothing is what the proofs show.
Forum pages of one thread make every thread a page, so that four threads give a walk
of three pages beside an archive of one; of two plots that differ by case each can
be stored first, or late. Two regions on pages of one let the index skip one, three
seconds let an event surface on either side of the overlap. Three plots in a row are the
smallest set whose ends are adjacent only through the middle; two reports share one. Two
edits and the time that passes reach every pair of causes a verdict has, and the citizens'
plots elsewhere put one of them at, one beyond and one below a limit; one property is never
in the default world, and the authority of the other may change. Two players in a pool of
two on two lanes let every two of the sweeps meet on one player; one move of money is what it
takes for an answer in hand to be outdated, and for an older one to be written last. A window of two days in six
slides past a day played. Three writers make a ring of three.

`CHECK_DEADLOCK FALSE` is given everywhere: with its budgets spent and nothing
queued a model may stop, as an idle server does.

### Fairness

Worker: a process that is down is restarted and boots; its loop turns; timers
fire; circuits close by the clock. Claims are strongly fair, because rows of one
priority are claimed oldest first. Handlers are **not** fair: they may hang for
ever, which is what the watchdog is for. Crawl: the scheduler probes for ever
and requests end; publications, removals and cuts are not fair. Client: `fetch` is
given a timeout, queries end, timers fire, and callers keep calling (only the
breaker's two properties need that). Alerts: the scheduler queues the job for
ever, queries and fetches end, and mishaps are finite. Treasury: the scheduler runs each
sweep for ever and the worker claims every live job (strongly fair, for a lane has to be
free), requests and statements end (weakly fair, and a step of one player's job is no
excuse for another's); sales, dormancy, money and faults
are not fair. The other crawls have safety properties only. Nothing assumes that an upstream is well.

### What the violated runs show

Each is a disagreement between the code and what it, or its documentation, says;
`PROJECT.json` quotes both sides.

1. **Shutdown does not drain** (`sync/worker.ts:166`). `Promise.allSettled` is
   given the lanes' `Set`s instead of the promises in them and settles at once. The
   lock is released with handlers running, so the assumption boot makes
   ("nothing else can be running") fails during a handover.
2. **A job can overlap with itself** (`sync/queue.ts:206`). The stale threshold
   (15 minutes) is shorter than the watchdog (45).
3. **An interrupted crawl leaves a gap** (`sync/handlers/punishments.ts:206`).
   The early stop takes a page stored by a cut attempt for the end of the news.
4. **The analytics login deadlocks** (`http/client.ts:185`). It needs a slot of the
   throttle whose only slot its caller holds.
5. **An alert can be recorded without being sent** (`notify/discord.ts:95`). The
   clamp drops whole embeds from a message that is too large, after which all
   the message's keys are recorded as sent.

### Other divergences met

Read off while modelling; the modules follow the code, and no run is kept for these.

- The landlord's row of a leasehold is flagged over the limit by the landlord's own breach,
  although the plot counts for its tenant (`insights/at-risk.ts:89,123-125`), and a tenant
  over the limit is in the summary but, by the default roles, in no row
  (`insights/limits.ts:28-29`). `SummaryAgrees` therefore speaks of all roles.
- `atRiskReasons` (`notify/channels.ts:455`) gives hours for a holder deported for a limited time and
  leaves them out for a banned one; the table does the opposite.
- `is_active` on a player's page (`insights/player.ts:152`) leaves out the cross-check with
  the last login and the life of a deportation, which the view has.
- A player's page says that the plots it leaves out cannot change a limit count, as they carry no zoning
  (`insights/player.ts:99`); but an untagged plot takes its category from its prefix, and counts.
- The treasury stores the account before the balance: a failure between leaves a player who is neither
  a candidate nor priced (`sync/handlers/treasury.ts:216-218,298-300`,
  `insights/prune.ts:309-313`). The model calls them `stranded`; the
  stakeholders among them are asked again. An empty dormant balance is never
  read again (`b.balance > 0`, line 380).
- "Headline figures match the default at-risk view" (`insights/at-risk.ts:400`), and the channel shares the
  table's predicate lest it announce "plots the page does not list" (`:153-154`). The predicate is one
  (`:383-384`: they agree on what at risk means), but the table as it opens has only the default world and authority (`insights/filters.ts:92-100`, `env.ts:214-219`), which headline and channel do
  not know: 123 rows of 1,294 (`docs/at-risk.md:24-26`). `TablesAgree` states both.
- A detail job that is buried is queued by nothing but the next event of its region.
- `assignReportRegion` asks for "the exact casing" (`app/reports/actions.ts:51`), but compares in lower case.
- `resetCircuit` writes the row; the breaker in memory stays open until its cooldown ends.
- `areAdjacent` does not compare worlds, and a merge group is read back by plot id alone.

Taken for granted of the upstreams: an archived thread arrives at the top of
the archive; a thread deleted upstream stays in the mirror; a region removed
upstream is noticed only when its detail is asked for.

## Proofs

Eight modules hold theorems. All are for every value of the constants that the assumptions of
the module named admit: any sets of processes, jobs, calls, records, threads,
plots or players, any page, pool and payload sizes, any number of faults. In what
follows each inductive invariant is named as in its module.

### The worker: `SyncWorkerProofs`

| Theorem | States |
|---|---|
| `TypeCorrect` | `Spec => []TypeOK` |
| `Deduplicated` | `Spec => []OneLiveRowPerKey` |
| `ClaimsAreHeld` | `Spec => []HandlerHoldsItsRow` |
| `NeverOverlaps` | `Spec => []NoOverlapUndisturbed` |
| `OneWorker` | `Spec => []OneWorkerAtATime` |
| `LanesAreBounded` | `Spec => []LaneBound` |
| `BootLeavesNoOrphan` | `Spec => []NoOrphanWhileServing` |
| `WorkersImplementTheQueue` | `Spec => ImplementsQueue`, the refinement of `DedupedQueue` |

`TypeInv` (types, and one live row per key) is inductive by
itself; each statement of `queue.ts` has a lemma that it preserves `QueueInv`
whoever issues it, so the theorem about duplicates does not depend on the
worker's behaving. The three exclusivity results are not inductive: they need
`Exclusive`, which ties together that a process with jobs in hand holds the lock,
that no run is a zombie, that a handler's row is running, locked by its process, with its key and
attempt and an age below the threshold, and that no two runs name one row. `IInv` is `TypeInv`, the fact that
budgets only shrink (so that `Undisturbed` in the next state implies it in this
one), and `Undisturbed => Exclusive`. Its preservation has one step per action of `Next`.
Distinct keys of distinct handlers then follow from `OneLiveRowPerKey`.

`LaneInv` says that the runs of a lane are finitely many and no more than its
concurrency; only a claim adds one. `OrphanInv` says, while no lock connection
dropped and no settling statement was lost, that whoever got past the lock holds it, and
that whoever serves has a handler of its own for each running row: the boot reclaim
clears the others, and after it rows start to run only by claims. For the refinement,
a row is abstracted to its key, to whether it is free, live, done or dead, and to whether a handler
has it in hand; one lemma per action of
`DedupedQueue` says which statements of the table are it, and the rest are stutters.

### The client: `ApiClientProofs`

| Theorem | States |
|---|---|
| `ClientTypes` | `Spec => []TypeOK` |
| `SlotsAreAccountedFor` | `Spec => []SlotsAccountedFor` |
| `PenaltyIsHonoured` | `Spec => PenaltyHonoured` |

`SlotInv` keeps the books on both sides. The throttle's: a request is in the line of the
bucket, waiting for a slot or holding one, in one of these and once; nobody waits while a slot is
free. The client's: exactly the calls between asking and the end of their attempt, and a
login under way, are known to the throttle. The lemmas on taking from a sequence without
repetition (`Members`) carry most of it. `PenaltyInv` says that while a penalty is in force
every unused token is licensed (`Unspent` within `licensed`): none is given (`NoTokenGiven`), giving a slot
back gives none (`ReleaseGivesNoToken`), and a new attempt joins the queue without one. With `SlotInv`, which
says who is where, only the holder of an unused token goes out (`OnlyTokensGoOut`), and
its licence goes with it.

### Punishments: `PunishmentCrawlProofs`

| Theorem | States |
|---|---|
| `CrawlTypes` | `Spec => []TypeOK` |
| `CrawlGapsAreExcused` | `Spec => []GapsAreExcused` |
| `FullCrawlsAreExact` | `Spec => FullCrawlExact` |

`CrawlInv` has five parts. `FeedInv` orders the removals. `AttemptInv` says what an attempt
saw is listed. `SteadyInv` is about pages that move while they are read: unless something was
removed, they move only down, so what was there at the start and lies above the next page has been
seen. `CountInv` bounds the count that a job carries. `ExcuseInv` holds the
argument of the probe: with no excuse the mirror is a lower part of the list
(`LowerPart`), it misses only records newer than all it knows; so equal
counts mean equal sets, and an incremental crawl that stops at a known page misses nothing.

### Alerts: `NotifyDispatchProofs`

| Theorem | States |
|---|---|
| `NotifyTypeCorrect` | `Spec => []TypeOK` |
| `BacklogIsSilent` | `Spec => []BacklogStaysSilent` |
| `DuplicatesAreExcused` | `Spec => []DuplicatesExcused` |
| `LossesAreExcused` | `Spec => []LossesExcused` |
| `SeedingIsOver` | `Spec => SeedsOnce` |

`Splitting` says what cutting a message off a sequence of items
does, `Selected` what `findNew` returns; then each property has its own invariant.
`DupInv` adds to the property that a run's items share no key, that two runs
share only keys in doubt, that what a run has yet to post is unread, and that what
was read without a record is about to be recorded. `LossInv` adds that a run about to
record has been read or has noted what was withheld. `BacklogInv` tells the time before the
baseline, when nothing is found and a run about to complete it has seeded the
backlog, from the time after it. Every run but one keeps its part in a step, which the
`Frame` lemmas say once for all actions.

### Treasury, playtime and upserts: `SweepsProofs`

| Theorem | States | Argument |
|---|---|---|
| `ThePruneListIsHonest` | `TreasurySpec => []PruneListIsHonest` | Inductive together with: a credit says what is upstream but for drift, an answer in hand but for those that are outdated, and only those in hand are; a miss, stored or in hand, is of someone without an account unless a balance is stored or an account was opened since; a stored account has a balance, is being priced, is a stakeholder's or is stranded, and who is being resolved has a live job. |
| `TreasuryTypes` | `TreasurySpec => []TreasuryTypeOK` | The bounds of pool and lanes need that a running pool has its sweep, and lemmas on what one more and one fewer job do to a cardinality. |
| `PlaytimeIsNeverUnderstated` | `PlaytimeSpec => []NeverUnderstated` | What a stored figure lacks is at most the play since the lifetime stored beside it; if the roster has seen that play, the lifetimes differ and the next pass fetches. |
| `UpsertsDoNotDeadlock`, `UpsertTypes` | `UpsertSpec => []NoDeadlock`, `[]UpsertTypeOK` | Every row a writer holds is below all it has yet to lock, and it waits for the least of these. In a ring, the row each waits for is held by another that waits for a greater one; the greatest awaited row contradicts that. |
| `SweepTypes`, `SweepsStayHonest` | the same of `MCSweeps`'s `Spec` | A step of the composition is a step of one part and leaves the others alone. |

### Forum: `ForumListingProofs`

| Theorem | States |
|---|---|
| `ForumTypes` | `ForumSpec => []ForumTypeOK` |
| `BackfillsAreHonest` | `ForumSpec => BackfillIsHonest` |
| `ManualLinksStay` | `ForumSpec => ManualLinksOutlive` |
| `ListedThreadsAreInStep` | `ForumSpec => []ForumGapsAreExcused` |

`BackfillInv`: unless a thread left a listing while it was walked, what was listed when the
backfill began and lies before its next page is stored or in hand. A thread moves
only down, and the walk follows.

`MirrorInv` is for `ListedThreadsAreInStep`, as long as there is no excuse.
`GapsCovered`: a thread below page 1 that is out of step is covered, by
a page job that will reach it, by a backfill that is due, by the walk, which has it in hand or before
it, or because it and all that lies above it are not stored yet, so that no page above stops the walk. `HandIsTrue`: what the walk has in hand is what the
page shows now, or all that changed is new. `SunkInStep` and `DigestInStep`: what
page 1's digest names is in step, so that an unchanged digest may end the walk and a
thread that sinks below page 1 is mirrored. `ModeInv` adds which modes of page job can coexist.
`ForumAssumption` takes a listing to fit into `MAX_PAGES` (400, `sync/handlers/forum.ts:44`): of a longer one the
code leaves the rest out by intent, and nothing is proved of it.

### Realty: `RealtySyncProofs`

| Theorem | States |
|---|---|
| `RealtyTypes` | `RealtySpec => []RealtyTypeOK` |
| `NoStaleRegionIsForgotten` | `RealtySpec => []StalenessIsPending` |

`RealtyInv`: `TimeInv` places the watermark below an event of the feed. `CountInv`
says that the count of the probe lags behind while an index is due. `IndexInv` and `PollInv`
say of the two walks that what they have passed is in hand or queued; they rest on
`Place`, the rank of an element in a finite set under a total order, and lemmas on what a page cut
from it holds. `DetailInv` says that a contract that changed after it was fetched has its event in reach of the
next poll.

### Merges, verdicts and their composition: `MirrorProofs`

| Theorem | States |
|---|---|
| `ShownMergesAreGenuine` | `MergeSpec => [](MergeTypeOK /\ MergesAreGenuine)` |
| `VerdictsAlwaysAgree` | `FlagsSpec => []VerdictsAgree` |
| `BreachesAreClassified` | over the limit: a violation or in need of a realtor check, never both |
| `MirrorTypes` | `Spec => []TypeOK` for `MCMirror` |
| `MergesStayGenuine` | `Spec => []PagesShowGenuineMerges` |
| `VerdictsStayAgreed` | `Spec => []EveryVerdictAgrees` |
| `CrawlsStayHonest` | the promises of forum and realty, in `Spec` |

That a merge is genuine needs that the walk of `evaluateMerge` reaches every plot exactly if no
way to part the plots separates them (`NothingParted`). The walk is a recursive
function; that it exists is proved (`WalkExists`, by the least number for which it would
not), since without it nothing follows from its definition. `MergeInv` says that a stored group is what
`evaluateMerge` makes of the candidates it was formed from and that it has all their plots as members or none yet
(`GroupsInv`), which reports an unfinished rebuild has written (`RebuildInv`), and that these candidates are
what is stored now if nothing changed since the rebuild read (`FreshInv`).

The verdicts agree in any state of the right types (`TablesAlwaysAgree`,
`ProposalsAlwaysAgree`, `PlayerPagesAlwaysAgree`): predicates written out twice are equivalent case
by case. The counts (`SummaryAlwaysAgrees`) need the cardinality of a player's holdings, and
that each plot has one category, with all its parts (`ClassifiedWhole`), which is the invariant.

A behaviour of `MCMirror` is a behaviour of each part (`PartsBehave`), so their theorems hold in it.

### What the proofs changed, and what stays with TLC

Two proofs failed for a good reason. `ForumGapsAreExcused` did not hold for larger
listings than the instance's: a thread that one already *in hand* pushes below page 1, and a
backfill's page job buried after the jobs behind it were queued, leave gaps that
had no excuse. The model now names both. And `EvaluateMerge` was a CASE whose arms overlapped, of which
TLA+ does not fix the order; it is now a chain of IFs in the code's order.

Only model-checked is liveness under fairness, with everything about ENABLED:
`OrphanRecovered`, `LaneFreed`, `JobSettles`, `EveryCallEnds`, `BreakerEngages`, `BreakerRecovers`,
`CatchesUp`, `RemovalsConverge`, `ChannelDrains` and `BacklogDrains`. The prover
treats neither. The five runs that expect a violation are counterexamples, and nothing is to be proved of them.

## Not modelled

- The reading of HTML, response schemas, free text of punishments, durations and uuids:
  text without control. What they yield is a model value.
- Rendering of pages, wording of alerts and report kits, the status and
  progress panels, sorting and paging of tables.
- `insights/sync-health.ts` and the bookkeeping of `sync_runs`: descriptions of the past that nothing decides by.
- Several endpoint groups of one source, and the swap of the treasury throttle
  (`http/throttles.ts:66-69`) while the old one is in use: budgets beside each
  other that do not read each other.
- Settings (`env.ts`) are constants of the modules; scripts, migrations and
  deployment are tooling. `scripts/reclassify.ts`, run beside a detail job, may write a category
  computed from an older row.
- Clock skew between application and database, the scheduler's intervals, the
  priority of equals, a part of a name that narrows a table to several authorities at once, and the age at which a report
  leaves the queue of unmatched ones.

## Plan

Every invariant and every action property of the passing runs is proved. What is left:

1. The steps between two states that the liveness properties rest on, as action properties
   that can be proved though the liveness itself cannot: a settled row's key is free again, a round of
   the prune sweep leaves fewer players unasked.
2. The operators of `PlotRules` against a statement of the limits that does not follow the code.
3. Several endpoint groups in `ApiClient`, with the swap of a throttle in use.

Modules with theorems reach no RECURSIVE operator; the pure algorithms are written with
recursive functions or folds.
