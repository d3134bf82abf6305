--------------------------- MODULE MCRequestsPage ---------------------------
(* RequestsPage for TLC.  Requests, and slots, are interchangeable.         *)
EXTENDS RequestsPage, TLC

PageSymmetry == Permutations(Request) \cup Permutations(Slot)
=============================================================================
