\* Two pages at first; three publications, one removal, two attempts cut short.
SPECIFICATION FairSpec
CONSTANTS
  LastRecord = 6
  Seed = 3
  PageSize = 2
  MaxPages = 4
  MaxAttempts = 1
  Removals = 1
  Cuts = 2
  NoCount = NoCount
INVARIANTS
  TypeOK
  GapsAreExcused
PROPERTIES
  FullCrawlExact
  CatchesUp
  RemovalsConverge
CHECK_DEADLOCK FALSE
