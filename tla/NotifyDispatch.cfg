SPECIFICATION Spec
CONSTANTS
  p1 = p1
  p2 = p2
  q1 = q1
  ann = ann
  bob = bob
  Keys = {p1, p2, q1}
  HolderOf <- OneEach
  Poison = {q1}
  RunIds = {1, 2}
  Limits = {1, 2, 3}
  PerMessage = 2
  Room = 1
  Mishaps = 1
  Nobody = Nobody
INVARIANTS TypeOK BacklogStaysSilent DuplicatesExcused LossesExcused
PROPERTIES SeedsOnce ChannelDrains
CHECK_DEADLOCK FALSE
