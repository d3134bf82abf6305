--------------------------- MODULE MessageRouting ---------------------------
(***************************************************************************)
(* The route of an original request from the webhook to the group's        *)
(* phones: inbound_message_service._handle_new_request (the keyword pass,  *)
(* the policy decision and the automatic authorization),                   *)
(* moderation_service.approve and reject, and routing_service.fan_out.     *)
(*                                                                         *)
(* Every handler runs in a thread of its own and talks to one Postgres     *)
(* database at READ COMMITTED, without row versions: what it read before a *)
(* commit is not protected from another handler, and its ORM writes are    *)
(* unconditional UPDATEs by primary key.  The unit of atomicity here is    *)
(* therefore the stretch of code between two commits (and, where a read    *)
(* and the write it guards are in one transaction, the read and the commit *)
(* separately).  The variables the database holds are what has been        *)
(* COMMITTED; what a handler has flushed and not committed is in its local *)
(* variables, and a crash loses it.  An SMS cannot be rolled back.         *)
(***************************************************************************)
EXTENDS Naturals, FiniteSets

CONSTANTS
  Msg,      (* inbound original requests, each handled by its own webhook  *)
  Mod,      (* moderator requests (HTTP threads) that may run concurrently *)
  Member,   (* members of the one group                                    *)
  Sender,   (* Sender[m]: who texted m                                     *)
  Bound     (* how often each kind of fault or edit may happen             *)

Kind == {"abort", "release", "policy", "member"}

ASSUME ActorsAreDistinct == Msg # {} /\ Msg \cap Mod = {}
ASSUME SenderType == Sender \in [Msg -> Member]
ASSUME BoundType == Bound \in [Kind -> Nat]

(* The webhook that handles m is identified with m. *)
Actor == Msg \cup Mod

(* domain/message_status.py; "absent" stands for a row not yet committed.   *)
(* PROCESSING is flushed but never committed, and SENT is the status of     *)
(* outbound rows only.                                                      *)
WorkflowStatus ==
  {"received", "awaiting_moderator", "approved", "auto_authorized",
   "delivering", "delivered", "partially_delivered", "delivery_failed",
   "processing_failed", "moderator_rejected"}

PreDeliveryStatuses == {"approved", "auto_authorized"}
ModerationQueueStatuses == {"awaiting_moderator"}
OutcomeStatuses == {"delivered", "partially_delivered", "delivery_failed"}
TerminalStatuses ==
  OutcomeStatuses \cup {"processing_failed", "moderator_rejected"}

(* domain/routing_policy.py: the DB accepts the three, the code implements two *)
RoutingPolicy == {"moderator_required", "auto_group", "auto_matched"}
ImplementedPolicies == {"moderator_required", "auto_group"}

VARIABLES
  status,   (* messages.workflow_status                                    *)
  snapshot, (* messages.routing_policy ("null" before the keyword pass)    *)
  routed,   (* messages.routed_recipient_ids                               *)
  audit,    (* audit[a][m]: recipients of a's "authorized" event on m      *)
  copies,   (* copies[a][m]: who has a fanout_copy row written by a        *)
  failed,   (* failed[a][m]: who has a delivery_failed event written by a  *)
  sms,      (* sms[a][m][r]: messages the provider accepted from a for r   *)
  policy,   (* groups.routing_policy                                       *)
  active,   (* members whose membership of the group is active             *)
  number,   (* the group has a phone number with status "assigned"         *)
  inForce,  (* the policies the group has had between the keyword pass of  *)
            (* a message and the decision about it (history)               *)
  used,     (* how often each kind of fault or edit has happened           *)
  pc,       (* where each handler is                                       *)
  job,      (* the message each handler works on                           *)
  seen,     (* the policy the webhook of m read with the group row         *)
  plan,     (* the recipients a handler has loaded                         *)
  todo,     (* recipients the fan-out loop has not reached                 *)
  ok        (* recipients whose copy is flushed and not yet committed      *)

rows    == <<status, snapshot, routed, audit, copies, failed>>
group   == <<policy, active, number, inForce>>
handler == <<pc, job, seen, plan, todo, ok>>
vars    == <<rows, sms, group, used, handler>>

-----------------------------------------------------------------------------
(* Helpers of the source *)

(* Definitions named ...Faulty are variants with a plausible bug.  No other *)
(* definition uses them: substituted for the original, each one shows that  *)
(* a property below notices that bug.                                       *)

(* requires_moderation: anything not explicitly auto-routing is moderated. *)
RequiresModeration(p) == p # "auto_group"

ClearedForDeliveryFaulty(m) == status[m] = "approved"

(* fan_out's entry guard. *)
ClearedForDelivery(m) == status[m] \in PreDeliveryStatuses

AwaitingFaulty(m) == status[m] \in ModerationQueueStatuses \cup {"delivery_failed"}

(* _require_awaiting. *)
Awaiting(m) == status[m] \in ModerationQueueStatuses

OtherActiveMembersFaulty(m) == active

(* _other_active_members: policy routing skips whoever has lapsed. *)
OtherActiveMembers(m) == active \ {Sender[m]}

(* The recipient lists approve accepts: not empty, without the sender, and  *)
(* every one an active member.  dict.fromkeys makes the list a set.         *)
ApprovableRecipients(m) == (SUBSET (active \ {Sender[m]})) \ {{}}

FanOutStatusOrderFaulty(delivered, failures) ==
  IF failures # {} THEN "partially_delivered"
  ELSE IF delivered = {} THEN "delivery_failed"
  ELSE "delivered"

(* The aggregate status fan_out ends with. *)
FanOutStatus(delivered, failures) ==
  IF failures # {} /\ delivered = {} THEN "delivery_failed"
  ELSE IF failures # {} THEN "partially_delivered"
  ELSE "delivered"

(* Where a handler is when its HTTP request is over. *)
Rest(a) == IF a \in Msg THEN "done" ELSE "idle"

At(a, l) == pc[a] = l
Goto(a, l) == pc' = [pc EXCEPT ![a] = l]

(* The end of a's HTTP request: its local variables are gone. *)
Return(a) == /\ Goto(a, Rest(a))
             /\ plan' = [plan EXCEPT ![a] = {}]
             /\ todo' = [todo EXCEPT ![a] = {}]
             /\ ok' = [ok EXCEPT ![a] = {}]
             /\ UNCHANGED <<job, seen>>

SetStatus(m, s) == status' = [status EXCEPT ![m] = s]

(* One more fault or edit of kind k, as long as the bound allows. *)
Use(k) == /\ used[k] < Bound[k]
          /\ used' = [used EXCEPT ![k] = @ + 1]

-----------------------------------------------------------------------------
Init ==
  /\ status = [m \in Msg |-> "absent"]
  /\ snapshot = [m \in Msg |-> "null"]
  /\ routed = [m \in Msg |-> {}]
  /\ audit = [a \in Actor |-> [m \in Msg |-> {}]]
  /\ copies = [a \in Actor |-> [m \in Msg |-> {}]]
  /\ failed = [a \in Actor |-> [m \in Msg |-> {}]]
  /\ sms = [a \in Actor |-> [m \in Msg |-> [r \in Member |-> 0]]]
  /\ policy \in RoutingPolicy
  /\ active \in SUBSET Member
  /\ number = TRUE
  /\ inForce = [m \in Msg |-> {}]
  /\ used = [k \in Kind |-> 0]
  /\ pc = [a \in Actor |-> IF a \in Msg THEN "none" ELSE "idle"]
  /\ job = [a \in Actor |-> IF a \in Msg THEN a ELSE CHOOSE m \in Msg : TRUE]
  /\ seen = [m \in Msg |-> policy]
  /\ plan = [a \in Actor |-> {}]
  /\ todo = [a \in Actor |-> {}]
  /\ ok = [a \in Actor |-> {}]

-----------------------------------------------------------------------------
(* The webhook: inbound_message_service *)

(* The text has become the original request of a new request, and the row   *)
(* is committed as "received".  The receiving number must be assigned and   *)
(* the sender an active member.                                             *)
Receive(m) ==
  /\ At(m, "none")
  /\ number /\ Sender[m] \in active
  /\ SetStatus(m, "received")
  /\ Goto(m, "created")
  /\ UNCHANGED <<snapshot, routed, audit, copies, failed, sms, group, used,
                 job, seen, plan, todo, ok>>

(* After the commit the group row is read again, the policy with it. *)
ReadPolicy(m) ==
  /\ At(m, "created")
  /\ seen' = [seen EXCEPT ![m] = policy]
  /\ Goto(m, "process")
  /\ UNCHANGED <<rows, sms, group, used, job, plan, todo, ok>>

(* The keyword pass and the policy snapshot, committed together. *)
Process(m) ==
  /\ At(m, "process")
  /\ SetStatus(m, "awaiting_moderator")
  /\ snapshot' = [snapshot EXCEPT ![m] = seen[m]]
  /\ inForce' = [inForce EXCEPT ![m] = {policy}]
  /\ Goto(m, "decide")
  /\ UNCHANGED <<routed, audit, copies, failed, sms, policy, active, number, used,
                 job, seen, plan, todo, ok>>

ProcessFailsFaulty(m) ==
  /\ At(m, "process")
  /\ Return(m)
  /\ UNCHANGED <<rows, sms, group, used>>

(* Any exception in the pass: rolled back, and marked in a new transaction. *)
ProcessFails(m) ==
  /\ At(m, "process")
  /\ SetStatus(m, "processing_failed")
  /\ Return(m)
  /\ UNCHANGED <<snapshot, routed, audit, copies, failed, sms, group, used>>

(* The policy that decides is the one read after that commit.  Moderation   *)
(* ends the webhook, and so does an empty list of recipients.               *)
LeaveToModerator(m) ==
  /\ At(m, "decide")
  /\ RequiresModeration(policy) \/ OtherActiveMembers(m) = {}
  /\ Return(m)
  /\ UNCHANGED <<rows, sms, group, used>>

DecideAutomaticFaulty(m) ==
  /\ At(m, "decide")
  /\ ~RequiresModeration(seen[m])
  /\ OtherActiveMembers(m) # {}
  /\ plan' = [plan EXCEPT ![m] = OtherActiveMembers(m)]
  /\ Goto(m, "authorize")
  /\ UNCHANGED <<rows, sms, group, used, job, seen, todo, ok>>

DecideAutomatic(m) ==
  /\ At(m, "decide")
  /\ ~RequiresModeration(policy)
  /\ OtherActiveMembers(m) # {}
  /\ plan' = [plan EXCEPT ![m] = OtherActiveMembers(m)]
  /\ Goto(m, "authorize")
  /\ UNCHANGED <<rows, sms, group, used, job, seen, todo, ok>>

(* The routing decision and its event are committed before anything is      *)
(* sent; the status that was there is overwritten whatever it was.          *)
CommitAuthorization(a, s) ==
  LET m == job[a] IN
  /\ SetStatus(m, s)
  /\ routed' = [routed EXCEPT ![m] = plan[a]]
  /\ audit' = [audit EXCEPT ![a][m] = plan[a]]
  /\ Goto(a, "check")
  /\ UNCHANGED <<snapshot, copies, failed, sms, group, used,
                 job, seen, plan, todo, ok>>

AuthorizeFaulty(m) == At(m, "authorize") /\ CommitAuthorization(m, "approved")
Authorize(m) == At(m, "authorize") /\ CommitAuthorization(m, "auto_authorized")

-----------------------------------------------------------------------------
(* The moderator: moderation_service *)

(* approve reads the status and the memberships ... *)
ApproveLoad(a, m) ==
  /\ At(a, "idle") /\ Awaiting(m)
  /\ \E S \in ApprovableRecipients(m) : plan' = [plan EXCEPT ![a] = S]
  /\ job' = [job EXCEPT ![a] = m]
  /\ Goto(a, "approve")
  /\ UNCHANGED <<rows, sms, group, used, seen, todo, ok>>

(* ... and commits the approval by an unconditional UPDATE. *)
Approve(a) == At(a, "approve") /\ CommitAuthorization(a, "approved")

RejectLoad(a, m) ==
  /\ At(a, "idle") /\ Awaiting(m)
  /\ job' = [job EXCEPT ![a] = m]
  /\ Goto(a, "reject")
  /\ UNCHANGED <<rows, sms, group, used, seen, plan, todo, ok>>

Reject(a) ==
  /\ At(a, "reject")
  /\ SetStatus(job[a], "moderator_rejected")
  /\ Return(a)
  /\ UNCHANGED <<snapshot, routed, audit, copies, failed, sms, group, used>>

-----------------------------------------------------------------------------
(* The fan-out: routing_service.fan_out, called by both routes *)

(* The entry guards read the status and the group's number ... *)
FanOutCheck(a) ==
  /\ At(a, "check")
  /\ ClearedForDelivery(job[a]) /\ number
  /\ Goto(a, "start")
  /\ UNCHANGED <<rows, sms, group, used, job, seen, plan, todo, ok>>

(* ... and raise RoutingError, which leaves the status as it is. *)
FanOutRefused(a) ==
  /\ At(a, "check")
  /\ ~(ClearedForDelivery(job[a]) /\ number)
  /\ Return(a)
  /\ UNCHANGED <<rows, sms, group, used>>

FanOutStart(a) ==
  /\ At(a, "start")
  /\ SetStatus(job[a], "delivering")
  /\ todo' = [todo EXCEPT ![a] = plan[a]]
  /\ Goto(a, "send")
  /\ UNCHANGED <<snapshot, routed, audit, copies, failed, sms, group, used,
                 job, seen, plan, ok>>

(* The provider accepts the text for r. *)
Accepted(a, r) == sms' = [sms EXCEPT ![a][job[a]][r] = @ + 1]

(* send_message: the provider is called first, then the row is flushed. *)
SendOk(a, r) ==
  /\ At(a, "send") /\ r \in todo[a]
  /\ Accepted(a, r)
  /\ todo' = [todo EXCEPT ![a] = @ \ {r}]
  /\ ok' = [ok EXCEPT ![a] = @ \cup {r}]
  /\ UNCHANGED <<rows, group, used, pc, job, seen, plan>>

SendFailsFaulty(a, r) ==
  /\ At(a, "send") /\ r \in todo[a]
  /\ todo' = [todo EXCEPT ![a] = @ \ {r}]
  /\ ok' = [ok EXCEPT ![a] = @ \cup {r}]
  /\ UNCHANGED <<rows, sms, group, used, pc, job, seen, plan>>

(* SmsProviderError: a failure is flushed and the loop goes on. *)
SendFails(a, r) ==
  /\ At(a, "send") /\ r \in todo[a]
  /\ todo' = [todo EXCEPT ![a] = @ \ {r}]
  /\ UNCHANGED <<rows, sms, group, used, pc, job, seen, plan, ok>>

(* The answer is lost (a timeout): the same error, and the text is sent. *)
SendTimesOut(a, r) ==
  /\ At(a, "send") /\ r \in todo[a]
  /\ Accepted(a, r)
  /\ todo' = [todo EXCEPT ![a] = @ \ {r}]
  /\ UNCHANGED <<rows, group, used, pc, job, seen, plan, ok>>

(* One commit for the aggregate status, every copy and every event. *)
FanOutFinish(a) ==
  LET m == job[a] IN
  /\ At(a, "send") /\ todo[a] = {}
  /\ SetStatus(m, FanOutStatus(ok[a], plan[a] \ ok[a]))
  /\ copies' = [copies EXCEPT ![a][m] = ok[a]]
  /\ failed' = [failed EXCEPT ![a][m] = plan[a] \ ok[a]]
  /\ Return(a)
  /\ UNCHANGED <<snapshot, routed, audit, sms, group, used>>

-----------------------------------------------------------------------------
(* Faults and edits *)

(* The process dies or an exception nobody catches rolls the open           *)
(* transaction back, anywhere between two commits.                          *)
Abort(a) ==
  /\ pc[a] \notin {"none", Rest(a)}
  /\ Use("abort")
  /\ Return(a)
  /\ UNCHANGED <<rows, sms, group>>

(* group_service.set_routing_policy. *)
SetRoutingPolicy(p) ==
  /\ p \in ImplementedPolicies \ {policy}
  /\ Use("policy")
  /\ policy' = p
  /\ inForce' = [m \in Msg |-> IF At(m, "decide") THEN inForce[m] \cup {p}
                                                  ELSE inForce[m]]
  /\ UNCHANGED <<rows, sms, active, number, handler>>

(* member_service.update_member switches a membership on or off. *)
SwitchMembership(r) ==
  /\ Use("member")
  /\ active' = IF r \in active THEN active \ {r} ELSE active \cup {r}
  /\ UNCHANGED <<rows, sms, policy, number, inForce, handler>>

(* The operator takes the number away in the database, and gives it back. *)
ReleaseNumber ==
  /\ number
  /\ Use("release")
  /\ number' = FALSE
  /\ UNCHANGED <<rows, sms, policy, active, inForce, handler>>

AssignNumber ==
  /\ ~number
  /\ number' = TRUE
  /\ UNCHANGED <<rows, sms, policy, active, inForce, used, handler>>

-----------------------------------------------------------------------------
FanOut(a) ==
  \/ FanOutCheck(a) \/ FanOutRefused(a) \/ FanOutStart(a) \/ FanOutFinish(a)
  \/ \E r \in Member : SendOk(a, r) \/ SendFails(a, r) \/ SendTimesOut(a, r)

Webhook(m) ==
  \/ ReadPolicy(m) \/ Process(m) \/ ProcessFails(m)
  \/ LeaveToModerator(m) \/ DecideAutomatic(m) \/ Authorize(m)
  \/ FanOut(m)

Moderate(a) == Approve(a) \/ Reject(a) \/ FanOut(a)

Environment ==
  \/ \E a \in Actor : Abort(a)
  \/ \E p \in RoutingPolicy : SetRoutingPolicy(p)
  \/ \E r \in Member : SwitchMembership(r)
  \/ ReleaseNumber
  \/ AssignNumber

Next ==
  \/ \E m \in Msg : Receive(m) \/ Webhook(m)
  \/ \E a \in Mod : Moderate(a)
  \/ \E a \in Mod, m \in Msg : ApproveLoad(a, m) \/ RejectLoad(a, m)
  \/ Environment

(* A handler that has started runs on: its thread is scheduled, and each of *)
(* its database and provider calls returns or raises.  Nobody has to text,  *)
(* and no moderator has to open the queue.  An operator repairs the number. *)
Fairness ==
  /\ \A m \in Msg : WF_vars(Webhook(m))
  /\ \A a \in Mod : WF_vars(Moderate(a))
  /\ WF_vars(AssignNumber)

Spec == Init /\ [][Next]_vars
FairSpec == Spec /\ Fairness

-----------------------------------------------------------------------------
(* Properties *)

(* Types.  The status of a message is one the DB constraint accepts. *)
TypeOK ==
  /\ status \in [Msg -> WorkflowStatus \cup {"absent"}]
  /\ snapshot \in [Msg -> RoutingPolicy \cup {"null"}]
  /\ routed \in [Msg -> SUBSET Member]
  /\ audit \in [Actor -> [Msg -> SUBSET Member]]
  /\ copies \in [Actor -> [Msg -> SUBSET Member]]
  /\ failed \in [Actor -> [Msg -> SUBSET Member]]
  /\ sms \in [Actor -> [Msg -> [Member -> Nat]]]
  /\ policy \in RoutingPolicy
  /\ active \in SUBSET Member
  /\ number \in BOOLEAN
  /\ inForce \in [Msg -> SUBSET RoutingPolicy]
  /\ used \in [Kind -> Nat]
  /\ pc \in [Actor -> {"none", "created", "process", "decide", "authorize",
                       "idle", "approve", "reject",
                       "check", "start", "send", "done"}]
  /\ job \in [Actor -> Msg]
  /\ seen \in [Msg -> RoutingPolicy]
  /\ plan \in [Actor -> SUBSET Member]
  /\ todo \in [Actor -> SUBSET Member]
  /\ ok \in [Actor -> SUBSET Member]

(* Everyone a has sent m to, and everyone who has authorized m. *)
Texted(a, m) == {r \in Member : sms[a][m][r] > 0}
Authorizers(m) == {a \in Actor : audit[a][m] # {}}

(* Whatever crashes, overlaps or times out: each committed authorization is *)
(* good for one text to each member it names, and to nobody else, the       *)
(* sender never among them (moderation_service.approve's dict.fromkeys and  *)
(* sender check, fan_out's loop, no retry after a lost answer).             *)
OneSmsPerGrant(a) ==
  \A m \in Msg, r \in Member :
    /\ sms[a][m][r] <= 1
    /\ sms[a][m][r] > 0 => r \in audit[a][m] /\ r # Sender[m]
AtMostOneSmsPerAuthorization == \A a \in Actor : OneSmsPerGrant(a)

(* The record of a fan-out is all or nothing: if any of it was committed,   *)
(* there is exactly one row or event for each member authorized, and a copy *)
(* only where the provider took the text (messaging_service: "so a provider *)
(* failure leaves no orphan message"; routing_service: "One event per       *)
(* recipient").                                                             *)
ExactRecord(a) ==
  \A m \in Msg :
    /\ \A r \in copies[a][m] : sms[a][m][r] > 0
    /\ copies[a][m] \cap failed[a][m] = {}
    /\ copies[a][m] \cup failed[a][m] \in {{}, audit[a][m]}
DeliveryRecordIsExact == \A a \in Actor : ExactRecord(a)

(* The aggregate on the message agrees with the per-recipient record, as    *)
(* long as one handler authorized it: "delivered" means every routed        *)
(* recipient has a copy, "delivery_failed" that none has.                   *)
OutcomeMatchesRecord ==
  \A m \in Msg : \A a \in Authorizers(m) :
    Authorizers(m) = {a} /\ status[m] \in OutcomeStatuses =>
      /\ copies[a][m] \cup failed[a][m] = routed[m]
      /\ status[m] = "delivered" <=> failed[a][m] = {}
      /\ status[m] = "delivery_failed" <=> copies[a][m] = {}

(* "otherwise stored data ends up claiming a human approved something no    *)
(* human ever saw" (routing_policy.py): the status names the right kind of  *)
(* authorizer, and what is on its way or sent was authorized by somebody.   *)
StatusNamesItsAuthority ==
  \A m \in Msg :
    /\ status[m] = "approved" => \E a \in Mod : audit[a][m] # {}
    /\ status[m] = "auto_authorized" => audit[m][m] # {}
    /\ status[m] \in {"delivering"} \cup OutcomeStatuses =>
         \E a \in Actor : audit[a][m] # {}

(* "Never fail open into an unreviewed broadcast" (routing_policy.py),      *)
(* however the policy is edited: a message that no moderator has released   *)
(* was already in the queue while the group was auto_group.  What the       *)
(* webhook read for the snapshot, before the commit, is too old to count.   *)
AutomaticOnlyUnderAutoGroup ==
  \A m \in Msg : audit[m][m] # {} => "auto_group" \in inForce[m]

(* A status somebody still has to move on has a handler that will: without  *)
(* a crash and with a number, no message is stranded in received, approved, *)
(* auto_authorized or delivering, even when handlers overtake each other.   *)
Disturbed == used["abort"] > 0 \/ used["release"] > 0
InFlightHasHandler ==
  \A m \in Msg : ~Disturbed =>
    /\ status[m] = "received" => pc[m] \in {"created", "process"}
    /\ status[m] \in PreDeliveryStatuses =>
         \E a \in Actor : job[a] = m /\ pc[a] \in {"check", "start"}
    /\ status[m] = "delivering" =>
         \E a \in Actor : job[a] = m /\ pc[a] = "send"

(* Every handler refines the promise of AuthorizedSends: the events are the *)
(* grants, the provider's accepted calls the texts.                         *)
Authority == INSTANCE AuthorizedSends
  WITH Authorizer <- Actor, Message <- Msg, Person <- Member,
       Author <- Sender, granted <- audit, texts <- sms
ImplementsAuthorizedSends == Authority!Spec

(* Without a crash and with a number, a text that arrived ends up, for      *)
(* good, in front of a moderator, or rejected, failed or sent: no handler   *)
(* waits for ever and overtaking handlers do not leave it half way.         *)
Settled(m) == status[m] \in ModerationQueueStatuses \cup TerminalStatuses
EveryTextSettles ==
  \A m \in Msg : (status[m] = "received") ~> [](Settled(m) \/ Disturbed)

-----------------------------------------------------------------------------
(* Why the safety properties hold: the inductive invariant *)

Sending == {"check", "start", "send"}
Early(m) == status[m] \in {"absent", "received"}

(* A webhook works on its own message; the two kinds of handler have their  *)
(* own control points.                                                      *)
Control(a) ==
  /\ a \in Msg => job[a] = a /\ pc[a] \notin {"idle", "approve", "reject"}
  /\ a \in Mod => pc[a] \in {"idle", "approve", "reject"} \cup Sending

(* A handler about to authorize has not done so before, and one that sends  *)
(* sends to exactly the members it has authorized.                          *)
Grants(a) ==
  /\ pc[a] \in {"none", "created", "process", "decide", "authorize", "approve"} =>
       audit[a][job[a]] = {}
  /\ pc[a] \in {"authorize", "approve"} =>
       plan[a] # {} /\ Sender[job[a]] \notin plan[a]
  /\ pc[a] \in Sending => plan[a] # {} /\ plan[a] = audit[a][job[a]]
  /\ \A m \in Msg : Sender[m] \notin audit[a][m]

(* The loop: whom it has not reached has no text yet, everything recorded   *)
(* as a copy was sent, and without an authorization there is nothing.       *)
Loop(a) ==
  /\ pc[a] \in Sending => copies[a][job[a]] = {} /\ failed[a][job[a]] = {}
  /\ pc[a] \in {"check", "start"} => \A r \in Member : sms[a][job[a]][r] = 0
  /\ pc[a] = "send" =>
       /\ todo[a] \subseteq plan[a] /\ ok[a] \subseteq plan[a]
       /\ \A r \in todo[a] : sms[a][job[a]][r] = 0
       /\ \A r \in ok[a] : sms[a][job[a]][r] > 0
  /\ pc[a] # "send" => ok[a] = {}
  /\ \A m \in Msg : audit[a][m] = {} =>
       /\ copies[a][m] = {} /\ failed[a][m] = {}
       /\ \A r \in Member : sms[a][m][r] = 0

(* What only the handler's own steps can change ... *)
Own(a) == Control(a) /\ Grants(a) /\ Loop(a) /\ OneSmsPerGrant(a) /\ ExactRecord(a)

(* ... and what relates handlers through the row of a message: until its    *)
(* webhook has committed the keyword pass nobody else touches it, and while *)
(* it waits for a moderator nobody has authorized it.                       *)
Stages ==
  /\ \A m \in Msg :
       /\ pc[m] = "none" => status[m] = "absent"
       /\ pc[m] \in {"created", "process"} => status[m] = "received"
       /\ Early(m) \/ Awaiting(m) => \A a \in Actor : audit[a][m] = {}
  /\ \A a \in Actor :
       pc[a] \in {"decide", "authorize", "approve", "reject"} \cup Sending =>
         ~Early(job[a])

RoutingInv == (\A a \in Actor : Own(a)) /\ Stages /\ StatusNamesItsAuthority

-----------------------------------------------------------------------------
(* What the repository says and the code does not do *)

(* moderation_service._require_awaiting: "whoever clicks second gets this   *)
(* error rather than a second fan-out".                                     *)
SecondClickSendsNothing ==
  \A m \in Msg : \A a, b \in Mod :
    Texted(a, m) # {} /\ Texted(b, m) # {} => a = b
=============================================================================
