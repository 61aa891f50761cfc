\* The treasury's sweeps with lost requests, one player's playtime, and upserts.
SPECIFICATION Spec
CONSTANTS
  Players = {p1, p2}
  FirstStakeholders = {p1}
  FirstDormant = {p2}
  FirstHolders = {p1}
  ExcludedFromPrune = {p1}
  PruneSweepBatch = 2
  PruneSweepConcurrency = 2
  TreasuryLanes = 2
  AccountJobsPerPass = 1
  TreasuryFaults = 1
  Window = 2
  LastDay = 5
  PlaytimeCuts = 1
  NoFigure = NoFigure
  Writers = {realty, punishments, analytics}
  PlayerCount = 3
  CHUNK = 2
CHECK_DEADLOCK FALSE
INVARIANTS TypeOK PruneListIsHonest NeverUnderstated NoDeadlock
PROPERTIES BacklogDrains
