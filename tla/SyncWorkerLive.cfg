\* One process whose handlers may hang past the stale threshold and the watchdog.
SPECIFICATION FairSpec
CONSTANTS
  NoKey = NoKey
  NoOne = NoOne
  NoJob = NoJob
  probe = probe
  crawl = crawl
  detail = detail
  treasury = treasury
  notify = notify
  Keys = {crawl}
  Sources = {treasury}
  Scheduled = {crawl}
  Procs = {p1}
  JobIds = {j1}
  RunIds = {r1, r2}
  MaxAttempts = 2
  StaleAge = 1
  WatchdogAge = 2
  SourceOf <- MCSourceOf
  Priority <- MCPriority
  Concurrency <- TwoLanes
  Budget <- LiveBudget
INVARIANTS
  TypeOK
PROPERTIES
  OrphanRecovered
  LaneFreed
  JobSettles
CHECK_DEADLOCK FALSE
