SPECIFICATION Spec
CONSTANTS
  Request = {r1}
  Texter = {x1}
  Speaker = {p1}
  Moderator = {m1, m2}
  Sweeper = {s1}
  Nobody = Nobody
  Inactivity = 1
  Lifetime = 3
  MaxTime = 3
  MaxAbort = 1
SYMMETRY ActorSymmetry
INVARIANT ClosingsOverlap
PROPERTY ClosedForGood
CHECK_DEADLOCK FALSE
