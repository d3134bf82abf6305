--------------------------- MODULE MCConversation ---------------------------
(***************************************************************************)
(* Conversation for TLC: one transaction writes three rows of pair A, more *)
(* than a page; another one writes a fourth row, and one of pair B.        *)
(***************************************************************************)
EXTENDS Conversation

CONSTANTS r1, r2, r3, r4, s1, t1, t2, pa, pb

Ids == [r \in {r1, r2, r3, r4, s1} |->
  CASE r = r1 -> 2 [] r = r2 -> 4 [] r = r3 -> 5 [] r = r4 -> 1 [] r = s1 -> 3]
Authors == [r \in {r1, r2, r3, r4, s1} |->
  IF r \in {r4, s1} THEN t2 ELSE t1]
Pairs == [r \in {r1, r2, r3, r4, s1} |-> IF r = s1 THEN pb ELSE pa]
=============================================================================
