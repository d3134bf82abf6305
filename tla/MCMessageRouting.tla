-------------------------- MODULE MCMessageRouting --------------------------
(***************************************************************************)
(* MessageRouting for TLC.  One message is enough for the races on it (no  *)
(* handler relates two messages); the cfg files choose how many moderators *)
(* and recipients there are, and the bounds on faults and edits.           *)
(***************************************************************************)
EXTENDS MessageRouting, TLC

CONSTANT author

(* Every message comes from the same member. *)
FromAuthor == [m \in Msg |-> author]

(* Moderators are interchangeable, and so are the recipients: no definition *)
(* names one of them.                                                       *)
Interchangeable == Permutations(Mod) \cup Permutations(Member \ {author})

(* Bounds: how often each kind of fault and edit happens in a run. *)
OneOf(kinds) == [k \in Kind |-> IF k \in kinds THEN 1 ELSE 0]
OneOfEachEdit == OneOf({"release", "policy", "member"})
OneAbort == OneOf({"abort"})
NoFaults == OneOf({})
=============================================================================
