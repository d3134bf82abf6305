SPECIFICATION Spec
CONSTANTS
  Msg = {m1}
  Mod = {a, b}
  author = author
  Member = {author, r1, r2}
  Sender <- FromAuthor
  Bound <- OneAbort
SYMMETRY Interchangeable
INVARIANTS
  AtMostOneSmsPerAuthorization
  DeliveryRecordIsExact
  OutcomeMatchesRecord
  StatusNamesItsAuthority
  InFlightHasHandler
CHECK_DEADLOCK FALSE
