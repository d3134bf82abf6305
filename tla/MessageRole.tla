---------------------------- MODULE MessageRole ----------------------------
(***************************************************************************)
(* What a message is and who is speaking (domain/message_role.py), and the *)
(* constraint of the table that repeats the rules                          *)
(* (messages_role_shape_check).  A row whose constraint is not FALSE is    *)
(* accepted: SQL compares with NULL to "unknown".                          *)
(***************************************************************************)

Null == "null"

MemberAuthored == {"original_request", "member_reply", "confirmation"}
MessageKind == MemberAuthored \cup {"moderator_clarification", "fanout_copy"}

DetermineInboundKind(joinsOpenRequest) ==
  IF joinsOpenRequest THEN "member_reply" ELSE "original_request"

SenderRoleFor(kind) ==
  CASE kind \in MemberAuthored -> "member"
    [] kind = "moderator_clarification" -> "moderator"
    [] OTHER -> "system"

(* The arguments for which build_message_role raises. *)
InvalidMessageShape(kind, member, author) ==
  \/ kind \in MemberAuthored /\ (member = Null \/ author \notin {Null, member})
  \/ kind = "moderator_clarification" /\ author = Null
  \/ kind = "fanout_copy" /\ author # Null

BuildMessageRole(kind, member, author) ==
  [kind |-> kind,
   sender_role |-> SenderRoleFor(kind),
   member_id |-> member,
   author_member_id |-> IF kind \in MemberAuthored THEN member ELSE author]

-----------------------------------------------------------------------------
(* The constraint, in the logic of SQL *)

Truth(holds) == IF holds THEN "true" ELSE "false"
Equals(x, y) == IF x = Null \/ y = Null THEN "unknown" ELSE Truth(x = y)
IsNull(x) == Truth(x = Null)
IsNotNull(x) == Truth(x # Null)

AllOf(values) ==
  IF "false" \in values THEN "false"
  ELSE IF "unknown" \in values THEN "unknown" ELSE "true"

AnyOf(values) ==
  IF "true" \in values THEN "true"
  ELSE IF "unknown" \in values THEN "unknown" ELSE "false"

MemberShape(row) ==
  AllOf({IF row.kind = Null THEN "unknown" ELSE Truth(row.kind \in MemberAuthored),
       Equals(row.sender_role, "member"),
       IsNotNull(row.author_member_id),
       Equals(row.author_member_id, row.member_id)})
ModeratorShape(row) ==
  AllOf({Equals(row.kind, "moderator_clarification"),
       Equals(row.sender_role, "moderator"),
       IsNotNull(row.author_member_id)})
CopyShape(row) ==
  AllOf({Equals(row.kind, "fanout_copy"),
       Equals(row.sender_role, "system"),
       IsNull(row.author_member_id)})

RoleShape(row) ==
  AnyOf({IsNull(row.kind), MemberShape(row), ModeratorShape(row), CopyShape(row)})

Accepted(row) == RoleShape(row) # "false"
=============================================================================
