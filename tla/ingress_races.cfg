SPECIFICATION Spec
CONSTANTS
  pa = pa
  pb = pb
  d1 = d1
  d2 = d2
  d3 = d3
  d4 = d4
  a = a
  b = b
  c = c
  ta = ta
  tb = tb
  t = t
  u = u
  v = v
  Delivery = {pa, pb, d1, d2, d3, d4}
  Text = {ta, tb, t, u, v}
  TextOf <- Texts
  Member = {a, b, c}
  From <- Authors
  Numbered = {ta, tb, t, u, v}
  Past = {pa, pb}
  Reached <- FanOuts
  Listener = {c}
  Score = {35, 43}
  ASSOCIATION_FLOOR = 35
  ASSOCIATION_MARGIN = 8
  NEW_REQUEST_LETTER = 2
  NoRequest = NoRequest
  None = None
  New = New
  MaxBusy = 2
  MaxFail = 1
  MaxClose = 2
INVARIANTS
  TypeOK
  OneRowPerText
  AcceptedIsStored
  OneOpenRequest
  RepliesComeFromParties
  OriginalIsInItsRequest
PROPERTY NewOnlyWithoutCandidates
SYMMETRY Swaps
CHECK_DEADLOCK FALSE
