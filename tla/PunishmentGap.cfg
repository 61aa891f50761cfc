\* An incremental crawl of two pages is cut after the first.
SPECIFICATION Spec
CONSTANTS
  LastRecord = 4
  Seed = 1
  PageSize = 2
  MaxPages = 4
  MaxAttempts = 1
  Removals = 0
  Cuts = 1
  NoCount = NoCount
INVARIANT
  NoSilentGap
CHECK_DEADLOCK FALSE
