\* Two processes, every disturbance once, handlers shorter than the threshold.
SPECIFICATION Spec
CONSTANTS
  NoKey = NoKey
  NoOne = NoOne
  NoJob = NoJob
  probe = probe
  crawl = crawl
  detail = detail
  treasury = treasury
  notify = notify
  Keys = {crawl}
  Sources = {treasury}
  Scheduled = {}
  Procs = {p1, p2}
  JobIds = {j1, j2}
  RunIds = {r1, r2}
  MaxAttempts = 2
  StaleAge = 1
  WatchdogAge = 1
  SourceOf <- MCSourceOf
  Priority <- MCPriority
  Concurrency <- OneLane
  Budget <- SafetyBudget
SYMMETRY Interchangeable
INVARIANTS
  OneLiveRowPerKey
  LaneBound
  NoOrphanWhileServing
  HandlerHoldsItsRow
  NoOverlapUndisturbed
  OneWorkerAtATime
PROPERTY ImplementsQueue
CHECK_DEADLOCK FALSE
