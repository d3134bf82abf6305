---------------------------- MODULE MCDirectory ----------------------------
(***************************************************************************)
(* Directory for TLC: two moderators, a guest who was invited once, and a  *)
(* newcomer; two batches take these two in different orders, and one of    *)
(* the new groups has the newcomer as its founder.                         *)
(***************************************************************************)
EXTENDS Directory

CONSTANTS m1, m2, guest, newcomer, e1, e2, k1, k2

Moderator == [role |-> "moderator", status |-> "active", joined |-> TRUE]
Invited == [role |-> "member", status |-> "removed", joined |-> FALSE]
Members == [x \in {m1, m2, guest, newcomer} |->
  CASE x = guest -> Invited [] x = newcomer -> NoRow [] OTHER -> Moderator]
(* One of those removed keeps the role of a moderator. *)
Wishes ==
  [who : {m1, m2, guest}, role : Role, status : {"active"}] \cup
  { [who |-> m1, role |-> "moderator", status |-> "removed"],
    [who |-> guest, role |-> "member", status |-> "removed"] }
Batches == [e \in {e1, e2} |->
  IF e = e1 THEN <<guest, newcomer>> ELSE <<newcomer, guest>>]
Founders == [k \in {k1, k2} |-> IF k = k1 THEN newcomer ELSE m1]
=============================================================================
