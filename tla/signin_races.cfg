SPECIFICATION FairSpec
CONSTANTS
  a = a
  c1 = c1
  v1 = v1
  v2 = v2
  v3 = v3
  Person = {a}
  Challenge = {c1}
  Who <- Owners
  Call = {v1, v2, v3}
  For <- Names
  Page = {p}
  None = None
  MaxAttempts = 2
  ChallengeTtl = 2
  SessionTtl = 2
  MaxTime = 3
INVARIANT AccessFollowsRole
PROPERTIES
  EveryCallEnds
  ImplementsOneTimeCode
CHECK_DEADLOCK FALSE
