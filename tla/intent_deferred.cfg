SPECIFICATION FairSpec
CONSTANTS
  Reply = {r1, r3}
  Chosen = {r3}
  Worker = {w1, w2}
  Nobody = Nobody
  MaxFail = 0
  MaxCrash = 0
PROPERTY DeferredIsRecorded
CHECK_DEADLOCK FALSE
