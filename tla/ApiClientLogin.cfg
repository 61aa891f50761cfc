\* The Analytics source: one slot, and a session to log in for.
SPECIFICATION FairSpec
CONSTANTS
  Calls = {c1}
  Login = Login
  Requests = {c1, Login}
  Cookies = TRUE
  Limit = 1
  Capacity = 1
  LongestWait = 1
  MaxRetries = 1
  Threshold = 2
  Cooldown = 1
  Mishaps = 1
PROPERTY
  SharedLoginEnds
CHECK_DEADLOCK FALSE
