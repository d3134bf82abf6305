SPECIFICATION FairSpec
CONSTANTS
  Msg = {m1}
  Mod = {a}
  author = author
  Member = {author, r1, r2}
  Sender <- FromAuthor
  Bound <- OneOfEachEdit
INVARIANT AutomaticOnlyUnderAutoGroup
PROPERTIES
  EveryTextSettles
  ImplementsAuthorizedSends
CHECK_DEADLOCK FALSE
