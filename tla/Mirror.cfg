\* The forum and realty mirrors with their faults, merges and verdicts.
SPECIFICATION Spec
CONSTANTS
  t1 = t1
  t2 = t2
  t3 = t3
  t4 = t4
  p = p
  q = q
  ann = ann
  bob = bob
  house = house
  farm = farm
  main = main
  far = far
  Threads = {t1, t2, t3, t4}
  Plots = {p, q}
  Lower <- Ids
  MergedWith <- MergeGroups
  Titles <- TitlesSeen
  FirstTitle <- TitlesFirst
  FreshListing <- NewForum
  MirroredListing <- KnownForum
  FirstPlots = {p}
  PageSize = 1
  MaxListingPages = 4
  FreshEvents = 1
  MirroredEvents = 3
  NoReport = NoReport
  NoDigest = NoDigest
  RegionCount = 2
  FirstRegions = {1}
  IndexPageSize = 1
  ActivityPageSize = 1
  LastSecond = 2
  RealtyEvents = 3
  NoStats = NoStats
  NoSince = NoSince
  SubPlots = {1, 2, 3}
  Filings = {1, 2}
  PlotOwners = {ann, bob}
  NoOwner = NoOwner
  Footprints <- InARow
  NoBounds = NoBounds
  FirstFootprint <- Row3
  FirstFilings <- FirstNames
  MergeEvents = 2
  Properties = {house, farm}
  Citizens = {ann, bob}
  Nobody = Nobody
  Worlds = {main, far}
  WorldOf <- WorldsOf
  DEFAULT_WORLD_UUID = main
  DEFAULT_AUTHORITY = bob
  Prefix <- IdPrefix
  TagSets <- Tags
  FirstTags <- TagsFirst
  FirstStake <- Held
  Elsewhere <- FurtherPlots
  Never = Never
  Unclassified = Unclassified
  LastMonth = 5
  PropertyEdits = 2
CHECK_DEADLOCK FALSE
INVARIANTS TypeOK ForumGapsAreExcused StalenessIsPending PagesShowGenuineMerges EveryVerdictAgrees
PROPERTIES ManualLinksOutlive BackfillIsHonest
