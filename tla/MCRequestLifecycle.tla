------------------------- MODULE MCRequestLifecycle -------------------------
(* RequestLifecycle for TLC.  Actors of a kind are interchangeable.         *)
EXTENDS RequestLifecycle, TLC

ActorSymmetry ==
  Permutations(Texter) \cup Permutations(Speaker)
    \cup Permutations(Moderator) \cup Permutations(Sweeper)
=============================================================================
