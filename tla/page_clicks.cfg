SPECIFICATION Spec
CONSTANTS
  Request = {r1, r2}
  Slot = {s1, s2, s3, s4}
  None = None
  MaxClick = 4
  MaxLost = 1
SYMMETRY PageSymmetry
INVARIANTS
  ApprovalIsOfTheThread
  PaneComesToSelected
  IdleIsNotBusy
CHECK_DEADLOCK FALSE
