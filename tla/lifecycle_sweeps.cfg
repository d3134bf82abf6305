SPECIFICATION FairSpec
CONSTANTS
  Request = {r1, r2}
  Texter = {x1}
  Speaker = {p1}
  Moderator = {}
  Sweeper = {s1, s2}
  Nobody = Nobody
  Inactivity = 1
  Lifetime = 2
  MaxTime = 2
  MaxAbort = 1
INVARIANT ExpiryIsJustified
PROPERTY EveryRequestCloses
CHECK_DEADLOCK FALSE
