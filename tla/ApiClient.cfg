\* A source with two slots and a cookie session, which one call at a time may need.
SPECIFICATION FairSpec
CONSTANTS
  Calls = {c1, c2}
  Login = Login
  Requests = {c1, c2, Login}
  Cookies = TRUE
  Limit = 2
  Capacity = 1
  LongestWait = 1
  MaxRetries = 1
  Threshold = 2
  Cooldown = 1
  Mishaps = 3
INVARIANTS
  TypeOK
  SlotsAccountedFor
PROPERTIES
  PenaltyHonoured
  EveryCallEnds
  BreakerEngages
  BreakerRecovers
CHECK_DEADLOCK FALSE
