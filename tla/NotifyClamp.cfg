SPECIFICATION Spec
CONSTANTS
  p1 = p1
  p2 = p2
  q1 = q1
  ann = ann
  bob = bob
  Keys = {p1, p2, q1}
  HolderOf <- TwoHolders
  Poison = {}
  RunIds = {1}
  Limits = {2}
  PerMessage = 2
  Room = 2
  Mishaps = 0
  Nobody = Nobody
INVARIANT NothingLost
CHECK_DEADLOCK FALSE
