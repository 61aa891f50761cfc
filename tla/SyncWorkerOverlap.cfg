\* One healthy worker, a source with two lanes, a handler slower than the stale threshold.
SPECIFICATION Spec
CONSTANTS
  NoKey = NoKey
  NoOne = NoOne
  NoJob = NoJob
  probe = probe
  crawl = crawl
  detail = detail
  treasury = treasury
  notify = notify
  Keys = {crawl}
  Sources = {treasury}
  Scheduled = {crawl}
  Procs = {p1}
  JobIds = {j1}
  RunIds = {r1, r2}
  MaxAttempts = 2
  StaleAge = 1
  WatchdogAge = 3
  SourceOf <- MCSourceOf
  Priority <- MCPriority
  Concurrency <- TwoLanes
  Budget <- LiveBudget
INVARIANT NoOverlap
CHECK_DEADLOCK FALSE
