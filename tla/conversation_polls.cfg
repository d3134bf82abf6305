SPECIFICATION FairSpec
CONSTANTS
  r1 = r1
  r2 = r2
  r3 = r3
  r4 = r4
  s1 = s1
  t1 = t1
  t2 = t2
  pa = pa
  pb = pb
  Row = {r1, r2, r3, r4, s1}
  Id <- Ids
  Txn = {t1, t2}
  Writes <- Authors
  Pair = {pa, pb}
  Of <- Pairs
  First = pa
  Slot = {q1, q2}
  None = None
  PageSize = 2
  MaxLoad = 3
  MaxLost = 1
INVARIANTS
  TypeOK
  NoBubbleTwice
  NothingSkipped
  ShownInOrder
  ScreenIsOfItsPair
PROPERTY EverythingArrives
CHECK_DEADLOCK FALSE
