SPECIFICATION FairSpec
CONSTANTS
  Reply = {r1, r2, r3}
  Chosen = {r3}
  Worker = {w1, w2}
  Nobody = Nobody
  MaxFail = 2
  MaxCrash = 1
INVARIANT RecordedByOneActor
PROPERTIES
  ReadyIsFinal
  IntentBecomesReady
CHECK_DEADLOCK FALSE
