SPECIFICATION FairSpec
CONSTANTS
  m1 = m1
  m2 = m2
  guest = guest
  newcomer = newcomer
  e1 = e1
  e2 = e2
  k1 = k1
  k2 = k2
  Person = {m1, m2, guest, newcomer}
  Roster <- Members
  Enrolment = {e1, e2}
  Batch <- Batches
  Edit = {x1, x2}
  Wish <- Wishes
  Renames = {e1, x1}
  Creation = {k1, k2}
  Founder <- Founders
  Number = {n1}
  None = None
  MaxBusy = 2
  MaxFail = 1
INVARIANTS
  TypeOK
  ModeratorsLostOnlyByOverlap
  OneNumberPerGroup
PROPERTIES
  EnrolmentNeverDemotes
  RefusedOnlyWhenExhausted
  EveryHandlerEnds
CHECK_DEADLOCK FALSE
