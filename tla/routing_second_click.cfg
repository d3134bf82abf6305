SPECIFICATION Spec
CONSTANTS
  Msg = {m1}
  Mod = {a, b}
  author = author
  Member = {author, r1}
  Sender <- FromAuthor
  Bound <- NoFaults
INVARIANT SecondClickSendsNothing
CHECK_DEADLOCK FALSE
