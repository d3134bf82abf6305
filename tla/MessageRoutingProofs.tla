------------------------ MODULE MessageRoutingProofs ------------------------
(***************************************************************************)
(* Proofs about MessageRouting, for any number of messages, moderators and *)
(* members and any bounds.  The argument is one inductive invariant,       *)
(* TypeOK /\ RoutingInv; the theorems at the end read off it.              *)
(***************************************************************************)
EXTENDS MessageRouting, TLAPS

(* The initial rows and handlers have their types. *)
LEMMA InitTypeOK == Init => TypeOK
<1> USE ActorsAreDistinct, SenderType, BoundType
<1> SUFFICES ASSUME Init PROVE TypeOK
  OBVIOUS
<1>1. job \in [Actor -> Msg]
  <2>1. (CHOOSE m \in Msg : TRUE) \in Msg
    OBVIOUS
  <2> QED BY <2>1 DEF Init
<1> QED BY <1>1 DEF Init, TypeOK, Actor, WorkflowStatus, RoutingPolicy, Kind

(* Taking one more of a budget keeps the counters natural numbers. *)
LEMMA UseType ==
  ASSUME used \in [Kind -> Nat], NEW k \in Kind, Use(k)
  PROVE  used' \in [Kind -> Nat]
BY DEF Use

(* No step of a handler or of the environment breaks a type. *)
LEMMA NextTypeOK == TypeOK /\ [Next]_vars => TypeOK'
<1> USE ActorsAreDistinct, SenderType, BoundType
        DEF TypeOK, rows, group, handler, At, Goto, Return, SetStatus, Rest
<1> SUFFICES ASSUME TypeOK, [Next]_vars PROVE TypeOK'
  OBVIOUS
<1>1. ASSUME NEW m \in Msg, Receive(m) PROVE TypeOK'
  BY <1>1 DEF Receive, Actor, WorkflowStatus
<1>2. ASSUME NEW m \in Msg, ReadPolicy(m) PROVE TypeOK'
  BY <1>2 DEF ReadPolicy, Actor
<1>3. ASSUME NEW m \in Msg, Process(m) PROVE TypeOK'
  BY <1>3 DEF Process, Actor, WorkflowStatus
<1>4. ASSUME NEW m \in Msg, ProcessFails(m) PROVE TypeOK'
  BY <1>4 DEF ProcessFails, Actor, WorkflowStatus
<1>5. ASSUME NEW m \in Msg, LeaveToModerator(m) PROVE TypeOK'
  BY <1>5 DEF LeaveToModerator, Actor
<1>6. ASSUME NEW m \in Msg, DecideAutomatic(m) PROVE TypeOK'
  BY <1>6 DEF DecideAutomatic, Actor, OtherActiveMembers
<1>7. ASSUME NEW a \in Actor, NEW s \in WorkflowStatus, CommitAuthorization(a, s)
      PROVE TypeOK'
  BY <1>7 DEF CommitAuthorization, Actor
<1>8. ASSUME NEW m \in Msg, Authorize(m) PROVE TypeOK'
  BY <1>7, <1>8 DEF Authorize, Actor, WorkflowStatus
<1>9. ASSUME NEW a \in Mod, NEW m \in Msg, ApproveLoad(a, m) PROVE TypeOK'
  <2>1. PICK S \in ApprovableRecipients(m) : plan' = [plan EXCEPT ![a] = S]
    BY <1>9 DEF ApproveLoad
  <2>2. S \in SUBSET Member
    BY <2>1 DEF ApprovableRecipients
  <2> QED BY <1>9, <2>1, <2>2 DEF ApproveLoad, Actor
<1>10. ASSUME NEW a \in Mod, Approve(a) PROVE TypeOK'
  BY <1>7, <1>10 DEF Approve, Actor, WorkflowStatus
<1>11. ASSUME NEW a \in Mod, NEW m \in Msg, RejectLoad(a, m) PROVE TypeOK'
  BY <1>11 DEF RejectLoad, Actor
<1>12. ASSUME NEW a \in Mod, Reject(a) PROVE TypeOK'
  BY <1>12 DEF Reject, Actor, WorkflowStatus
<1>13. ASSUME NEW a \in Actor, FanOut(a) PROVE TypeOK'
  <2>1. CASE FanOutCheck(a)
    BY <2>1 DEF FanOutCheck
  <2>2. CASE FanOutRefused(a)
    BY <2>2 DEF FanOutRefused
  <2>3. CASE FanOutStart(a)
    BY <2>3 DEF FanOutStart, WorkflowStatus
  <2>4. CASE FanOutFinish(a)
    BY <2>4 DEF FanOutFinish, FanOutStatus, WorkflowStatus
  <2>5. ASSUME NEW r \in Member, SendOk(a, r) PROVE TypeOK'
    BY <2>5 DEF SendOk, Accepted
  <2>6. ASSUME NEW r \in Member, SendFails(a, r) PROVE TypeOK'
    BY <2>6 DEF SendFails
  <2>7. ASSUME NEW r \in Member, SendTimesOut(a, r) PROVE TypeOK'
    BY <2>7 DEF SendTimesOut, Accepted
  <2> QED BY <1>13, <2>1, <2>2, <2>3, <2>4, <2>5, <2>6, <2>7 DEF FanOut
<1>14. CASE Environment
  <2>1. ASSUME NEW a \in Actor, Abort(a) PROVE TypeOK'
    <3>1. used' \in [Kind -> Nat]
      BY <2>1, UseType DEF Abort, Kind
    <3> QED BY <2>1, <3>1 DEF Abort
  <2>2. ASSUME NEW p \in RoutingPolicy, SetRoutingPolicy(p) PROVE TypeOK'
    <3>1. used' \in [Kind -> Nat]
      BY <2>2, UseType DEF SetRoutingPolicy, Kind
    <3> QED BY <2>2, <3>1 DEF SetRoutingPolicy
  <2>3. ASSUME NEW r \in Member, SwitchMembership(r) PROVE TypeOK'
    <3>1. used' \in [Kind -> Nat]
      BY <2>3, UseType DEF SwitchMembership, Kind
    <3> QED BY <2>3, <3>1 DEF SwitchMembership
  <2>4. CASE ReleaseNumber
    <3>1. used' \in [Kind -> Nat]
      BY <2>4, UseType DEF ReleaseNumber, Kind
    <3> QED BY <2>4, <3>1 DEF ReleaseNumber
  <2>5. CASE AssignNumber
    BY <2>5 DEF AssignNumber
  <2> QED BY <1>14, <2>1, <2>2, <2>3, <2>4, <2>5 DEF Environment
<1>15. CASE UNCHANGED vars
  BY <1>15 DEF vars
<1> QED
  <2>1. ASSUME NEW m \in Msg, Webhook(m) PROVE TypeOK'
    BY <2>1, <1>2, <1>3, <1>4, <1>5, <1>6, <1>8, <1>13 DEF Webhook, Actor
  <2>2. ASSUME NEW a \in Mod, Moderate(a) PROVE TypeOK'
    BY <2>2, <1>10, <1>12, <1>13 DEF Moderate, Actor
  <2> QED BY <1>1, <1>9, <1>11, <1>14, <1>15, <2>1, <2>2 DEF Next

(* Type correctness: no handler writes a value of the wrong kind, whatever  *)
(* another handler did between its read and its write.                      *)
THEOREM TypeCorrect == Spec => []TypeOK
<1> QED BY InitTypeOK, NextTypeOK, PTL DEF Spec

-----------------------------------------------------------------------------
(* Everything Own(a) speaks of: a handler's program counter and locals, and *)
(* the rows, events and texts it is the only one to write.                  *)
Mine(a) == <<pc[a], job[a], plan[a], todo[a], ok[a],
             audit[a], copies[a], failed[a], sms[a]>>

(* Nothing is stored, granted or sent initially. *)
LEMMA InitRoutingInv == Init => RoutingInv
<1> USE ActorsAreDistinct, SenderType
<1> SUFFICES ASSUME Init PROVE RoutingInv
  OBVIOUS
<1> QED
  BY DEF Init, RoutingInv, Own, Control, Grants, Loop, OneSmsPerGrant, ExactRecord,
     Stages, StatusNamesItsAuthority, Sending, Early, Awaiting,
     ModerationQueueStatuses, OutcomeStatuses, Actor

(* A step of one handler leaves the invariant of every other one alone. *)
LEMMA OwnLocal ==
  ASSUME NEW a \in Actor, Own(a), UNCHANGED Mine(a)
  PROVE  Own(a)'
BY DEF Own, Mine, Control, Grants, Loop, OneSmsPerGrant, ExactRecord, Sending

(* The steps of a webhook before the fan-out. *)
LEMMA WebhookSteps ==
  ASSUME TypeOK, RoutingInv, NEW m \in Msg
  PROVE
    /\ Receive(m) => RoutingInv'
    /\ ReadPolicy(m) => RoutingInv'
    /\ Process(m) => RoutingInv'
    /\ ProcessFails(m) => RoutingInv'
    /\ LeaveToModerator(m) => RoutingInv'
    /\ DecideAutomatic(m) => RoutingInv'
    /\ Authorize(m) => RoutingInv'
<1> USE ActorsAreDistinct, SenderType
<1>1. ASSUME Receive(m) PROVE RoutingInv'
  <2>1. m \in Actor /\ Own(m)
    BY DEF RoutingInv, Actor
  <2>2. pc[m] = "none"
    BY <1>1 DEF At, Receive
  <2>3. \A b \in Actor \ {m} : UNCHANGED Mine(b)
    BY <1>1, <2>1 DEF TypeOK, Mine, rows, Goto, Receive
  <2>4. /\ pc'[m] = "created"
        /\ UNCHANGED <<job[m], plan[m], todo[m], ok[m], audit[m], copies[m], failed[m], sms[m]>>
    BY <1>1, <2>1 DEF TypeOK, rows, Goto, At, Receive
  <2>5. Own(m)'
    BY <2>1, <2>2, <2>4 DEF Own, Control, Grants, Loop, OneSmsPerGrant,
       ExactRecord, Sending, Rest, Actor
  <2>6. \A b \in Actor : Own(b)'
    BY <2>3, <2>5, OwnLocal DEF Own, RoutingInv
  <2>7. Stages'
    BY <1>1, <2>1 DEF TypeOK, rows, Goto, At, SetStatus, Receive, RoutingInv,
       Stages, Own, Grants, Control, Sending, Early, Awaiting,
       ModerationQueueStatuses, OutcomeStatuses, Actor
  <2>8. StatusNamesItsAuthority'
    BY <1>1 DEF TypeOK, rows, SetStatus, Receive, RoutingInv,
       StatusNamesItsAuthority, OutcomeStatuses
  <2> QED BY <2>6, <2>7, <2>8 DEF RoutingInv
<1>2. ASSUME ReadPolicy(m) PROVE RoutingInv'
  <2>1. m \in Actor /\ Own(m)
    BY DEF RoutingInv, Actor
  <2>2. pc[m] = "created"
    BY <1>2 DEF At, ReadPolicy
  <2>3. \A b \in Actor \ {m} : UNCHANGED Mine(b)
    BY <1>2, <2>1 DEF TypeOK, Mine, rows, Goto, ReadPolicy
  <2>4. /\ pc'[m] = "process"
        /\ UNCHANGED <<job[m], plan[m], todo[m], ok[m], audit[m], copies[m], failed[m], sms[m]>>
    BY <1>2, <2>1 DEF TypeOK, rows, Goto, At, ReadPolicy
  <2>5. Own(m)'
    BY <2>1, <2>2, <2>4 DEF Own, Control, Grants, Loop, OneSmsPerGrant,
       ExactRecord, Sending, Rest, Actor
  <2>6. \A b \in Actor : Own(b)'
    BY <2>3, <2>5, OwnLocal DEF Own, RoutingInv
  <2>7. Stages'
    BY <1>2, <2>1 DEF TypeOK, rows, Goto, At, SetStatus, ReadPolicy,
       RoutingInv, Stages, Own, Grants, Control, Sending, Early, Awaiting,
       ModerationQueueStatuses, OutcomeStatuses, Actor
  <2>8. StatusNamesItsAuthority'
    BY <1>2 DEF rows, RoutingInv, StatusNamesItsAuthority, ReadPolicy
  <2> QED BY <2>6, <2>7, <2>8 DEF RoutingInv
<1>3. ASSUME Process(m) PROVE RoutingInv'
  <2>1. m \in Actor /\ Own(m)
    BY DEF RoutingInv, Actor
  <2>2. pc[m] = "process"
    BY <1>3 DEF At, Process
  <2>3. \A b \in Actor \ {m} : UNCHANGED Mine(b)
    BY <1>3, <2>1 DEF TypeOK, Mine, rows, Goto, Process
  <2>4. /\ pc'[m] = "decide"
        /\ UNCHANGED <<job[m], plan[m], todo[m], ok[m], audit[m], copies[m], failed[m], sms[m]>>
    BY <1>3, <2>1 DEF TypeOK, rows, Goto, At, Process
  <2>5. Own(m)'
    BY <2>1, <2>2, <2>4 DEF Own, Control, Grants, Loop, OneSmsPerGrant,
       ExactRecord, Sending, Rest, Actor
  <2>6. \A b \in Actor : Own(b)'
    BY <2>3, <2>5, OwnLocal DEF Own, RoutingInv
  <2>7. Stages'
    BY <1>3, <2>1 DEF TypeOK, rows, Goto, At, SetStatus, Process, RoutingInv,
       Stages, Own, Grants, Control, Sending, Early, Awaiting,
       ModerationQueueStatuses, OutcomeStatuses, Actor
  <2>8. StatusNamesItsAuthority'
    BY <1>3 DEF TypeOK, rows, SetStatus, Process, RoutingInv,
       StatusNamesItsAuthority, OutcomeStatuses
  <2> QED BY <2>6, <2>7, <2>8 DEF RoutingInv
<1>4. ASSUME ProcessFails(m) PROVE RoutingInv'
  <2>1. m \in Actor /\ Own(m)
    BY DEF RoutingInv, Actor
  <2>2. pc[m] = "process"
    BY <1>4 DEF At, ProcessFails
  <2>3. \A b \in Actor \ {m} : UNCHANGED Mine(b)
    BY <1>4, <2>1 DEF TypeOK, Mine, rows, Goto, ProcessFails, Return, Rest
  <2>4. /\ pc'[m] = Rest(m) /\ plan'[m] = {} /\ todo'[m] = {}
        /\ ok'[m] = {}
        /\ UNCHANGED <<job[m], audit[m], copies[m], failed[m], sms[m]>>
    BY <1>4, <2>1 DEF TypeOK, rows, Goto, At, ProcessFails, Return, Rest
  <2>5. Own(m)'
    BY <2>1, <2>2, <2>4 DEF Own, Control, Grants, Loop, OneSmsPerGrant,
       ExactRecord, Sending, Rest, Actor
  <2>6. \A b \in Actor : Own(b)'
    BY <2>3, <2>5, OwnLocal DEF Own, RoutingInv
  <2>7. Stages'
    BY <1>4, <2>1 DEF TypeOK, rows, Goto, At, SetStatus, ProcessFails,
       Return, Rest, RoutingInv, Stages, Own, Grants, Control, Sending,
       Early, Awaiting, ModerationQueueStatuses, OutcomeStatuses, Actor
  <2>8. StatusNamesItsAuthority'
    BY <1>4 DEF TypeOK, rows, SetStatus, ProcessFails, RoutingInv,
       StatusNamesItsAuthority, OutcomeStatuses
  <2> QED BY <2>6, <2>7, <2>8 DEF RoutingInv
<1>5. ASSUME LeaveToModerator(m) PROVE RoutingInv'
  <2>1. m \in Actor /\ Own(m)
    BY DEF RoutingInv, Actor
  <2>2. pc[m] = "decide"
    BY <1>5 DEF At, LeaveToModerator
  <2>3. \A b \in Actor \ {m} : UNCHANGED Mine(b)
    BY <1>5, <2>1 DEF TypeOK, Mine, rows, Goto, LeaveToModerator, Return,
       Rest
  <2>4. /\ pc'[m] = Rest(m) /\ plan'[m] = {} /\ todo'[m] = {}
        /\ ok'[m] = {}
        /\ UNCHANGED <<job[m], audit[m], copies[m], failed[m], sms[m]>>
    BY <1>5, <2>1 DEF TypeOK, rows, Goto, At, LeaveToModerator, Return, Rest
  <2>5. Own(m)'
    BY <2>1, <2>2, <2>4 DEF Own, Control, Grants, Loop, OneSmsPerGrant,
       ExactRecord, Sending, Rest, Actor
  <2>6. \A b \in Actor : Own(b)'
    BY <2>3, <2>5, OwnLocal DEF Own, RoutingInv
  <2>7. Stages'
    BY <1>5, <2>1 DEF TypeOK, rows, Goto, At, SetStatus, LeaveToModerator,
       Return, Rest, RoutingInv, Stages, Own, Grants, Control, Sending,
       Early, Awaiting, ModerationQueueStatuses, OutcomeStatuses, Actor
  <2>8. StatusNamesItsAuthority'
    BY <1>5 DEF rows, RoutingInv, StatusNamesItsAuthority, LeaveToModerator
  <2> QED BY <2>6, <2>7, <2>8 DEF RoutingInv
<1>6. ASSUME DecideAutomatic(m) PROVE RoutingInv'
  <2>1. m \in Actor /\ Own(m)
    BY DEF RoutingInv, Actor
  <2>2. pc[m] = "decide" /\ OtherActiveMembers(m) # {} /\ Sender[m] \notin OtherActiveMembers(m)
    BY <1>6 DEF At, DecideAutomatic, OtherActiveMembers
  <2>3. \A b \in Actor \ {m} : UNCHANGED Mine(b)
    BY <1>6, <2>1 DEF TypeOK, Mine, rows, Goto, DecideAutomatic
  <2>4. /\ pc'[m] = "authorize" /\ plan'[m] = OtherActiveMembers(m)
        /\ UNCHANGED <<job[m], todo[m], ok[m], audit[m], copies[m], failed[m], sms[m]>>
    BY <1>6, <2>1 DEF TypeOK, rows, Goto, At, DecideAutomatic
  <2>5. Own(m)'
    BY <2>1, <2>2, <2>4 DEF Own, Control, Grants, Loop, OneSmsPerGrant,
       ExactRecord, Sending, Rest, Actor
  <2>6. \A b \in Actor : Own(b)'
    BY <2>3, <2>5, OwnLocal DEF Own, RoutingInv
  <2>7. Stages'
    BY <1>6, <2>1 DEF TypeOK, rows, Goto, At, SetStatus, DecideAutomatic,
       RoutingInv, Stages, Own, Grants, Control, Sending, Early, Awaiting,
       ModerationQueueStatuses, OutcomeStatuses, Actor
  <2>8. StatusNamesItsAuthority'
    BY <1>6 DEF rows, RoutingInv, StatusNamesItsAuthority, DecideAutomatic
  <2> QED BY <2>6, <2>7, <2>8 DEF RoutingInv
<1>7. ASSUME Authorize(m) PROVE RoutingInv'
  <2>1. m \in Actor /\ Own(m)
    BY DEF RoutingInv, Actor
  <2>2. pc[m] = "authorize"
    BY <1>7 DEF At, Authorize
  <2>3. \A b \in Actor \ {m} : UNCHANGED Mine(b)
    BY <1>7, <2>1 DEF TypeOK, Mine, rows, Goto, Authorize,
       CommitAuthorization
  <2>4. /\ pc'[m] = "check"
        /\ audit'[m] = [audit[m] EXCEPT ![job[m]] = plan[m]]
        /\ UNCHANGED <<job[m], plan[m], todo[m], ok[m], copies[m], failed[m], sms[m]>>
    BY <1>7, <2>1 DEF TypeOK, rows, Goto, At, Authorize, CommitAuthorization
  <2>5. /\ audit'[m][job[m]] = plan[m] /\ job[m] \in Msg
        /\ \A n \in Msg \ {job[m]} : audit'[m][n] = audit[m][n]
    BY <2>1, <2>4 DEF TypeOK
  <2>6. Control(m)'
    BY <2>1, <2>2, <2>4, <2>5 DEF Own, Control, Sending, Actor, Rest
  <2>7. Grants(m)'
    BY <2>1, <2>2, <2>4, <2>5 DEF Own, Control, Grants, Sending, Rest
  <2>8. Loop(m)'
    BY <2>1, <2>2, <2>4, <2>5 DEF Own, Control, Grants, Loop, Sending, Rest
  <2>9. OneSmsPerGrant(m)'
    BY <2>1, <2>2, <2>4, <2>5 DEF Own, Control, Grants, Loop, OneSmsPerGrant,
       Sending
  <2>10. ExactRecord(m)'
    BY <2>1, <2>2, <2>4, <2>5 DEF Own, Control, Grants, Loop, ExactRecord,
       Sending
  <2>11. \A b \in Actor : Own(b)'
    BY <2>3, <2>6, <2>7, <2>8, <2>9, <2>10, OwnLocal DEF Own, RoutingInv
  <2>12. Stages'
    BY <1>7, <2>1 DEF TypeOK, rows, Goto, At, SetStatus, Authorize,
       CommitAuthorization, RoutingInv, Stages, Own, Grants, Control,
       Sending, Early, Awaiting, ModerationQueueStatuses, OutcomeStatuses,
       Actor
  <2>13. StatusNamesItsAuthority'
    BY <1>7, <2>1 DEF TypeOK, rows, At, SetStatus, Authorize,
       CommitAuthorization, RoutingInv, StatusNamesItsAuthority, Own,
       Control, Grants, OutcomeStatuses, Sending, Actor
  <2> QED BY <2>11, <2>12, <2>13 DEF RoutingInv
<1> QED BY <1>1, <1>2, <1>3, <1>4, <1>5, <1>6, <1>7

(* The steps of a moderator before the fan-out. *)
LEMMA ModeratorSteps ==
  ASSUME TypeOK, RoutingInv, NEW a \in Mod
  PROVE
    /\ \A m \in Msg : ApproveLoad(a, m) => RoutingInv'
    /\ Approve(a) => RoutingInv'
    /\ \A m \in Msg : RejectLoad(a, m) => RoutingInv'
    /\ Reject(a) => RoutingInv'
<1> USE ActorsAreDistinct, SenderType
<1>1. ASSUME NEW m \in Msg, ApproveLoad(a, m) PROVE RoutingInv'
  <2>1. a \in Actor /\ Own(a)
    BY DEF RoutingInv, Actor
  <2>2. PICK S \in ApprovableRecipients(m) : plan' = [plan EXCEPT ![a] = S]
    BY <1>1 DEF ApproveLoad
  <2>3. pc[a] = "idle" /\ audit[a][m] = {} /\ S # {} /\ Sender[m] \notin S
    BY <1>1, <2>1, <2>2 DEF ApproveLoad, At, ApprovableRecipients,
       RoutingInv, Stages
  <2>4. \A b \in Actor \ {a} : UNCHANGED Mine(b)
    BY <1>1, <2>1 DEF TypeOK, Mine, rows, Goto, ApproveLoad
  <2>5. /\ pc'[a] = "approve" /\ job'[a] = m /\ plan'[a] = S
        /\ UNCHANGED <<todo[a], ok[a], audit[a], copies[a], failed[a], sms[a]>>
    BY <1>1, <2>1, <2>2 DEF TypeOK, rows, Goto, At, ApproveLoad
  <2>6. Own(a)'
    BY <2>1, <2>3, <2>5 DEF Own, Control, Grants, Loop, OneSmsPerGrant,
       ExactRecord, Sending, Rest, Actor
  <2>7. \A b \in Actor : Own(b)'
    BY <2>4, <2>6, OwnLocal DEF Own, RoutingInv
  <2>8. Stages'
    BY <1>1, <2>1 DEF TypeOK, rows, Goto, At, SetStatus, ApproveLoad,
       RoutingInv, Stages, Own, Grants, Control, Sending, Early, Awaiting,
       ModerationQueueStatuses, OutcomeStatuses, Actor
  <2>9. StatusNamesItsAuthority'
    BY <1>1 DEF rows, RoutingInv, StatusNamesItsAuthority, ApproveLoad
  <2> QED BY <2>7, <2>8, <2>9 DEF RoutingInv
<1>2. ASSUME Approve(a) PROVE RoutingInv'
  <2>1. a \in Actor /\ Own(a)
    BY DEF RoutingInv, Actor
  <2>2. pc[a] = "approve"
    BY <1>2 DEF At, Approve
  <2>3. \A b \in Actor \ {a} : UNCHANGED Mine(b)
    BY <1>2, <2>1 DEF TypeOK, Mine, rows, Goto, Approve, CommitAuthorization
  <2>4. /\ pc'[a] = "check"
        /\ audit'[a] = [audit[a] EXCEPT ![job[a]] = plan[a]]
        /\ UNCHANGED <<job[a], plan[a], todo[a], ok[a], copies[a], failed[a], sms[a]>>
    BY <1>2, <2>1 DEF TypeOK, rows, Goto, At, Approve, CommitAuthorization
  <2>5. /\ audit'[a][job[a]] = plan[a] /\ job[a] \in Msg
        /\ \A n \in Msg \ {job[a]} : audit'[a][n] = audit[a][n]
    BY <2>1, <2>4 DEF TypeOK
  <2>6. Control(a)'
    BY <2>1, <2>2, <2>4, <2>5 DEF Own, Control, Sending, Actor, Rest
  <2>7. Grants(a)'
    BY <2>1, <2>2, <2>4, <2>5 DEF Own, Control, Grants, Sending, Rest
  <2>8. Loop(a)'
    BY <2>1, <2>2, <2>4, <2>5 DEF Own, Control, Grants, Loop, Sending, Rest
  <2>9. OneSmsPerGrant(a)'
    BY <2>1, <2>2, <2>4, <2>5 DEF Own, Control, Grants, Loop, OneSmsPerGrant,
       Sending
  <2>10. ExactRecord(a)'
    BY <2>1, <2>2, <2>4, <2>5 DEF Own, Control, Grants, Loop, ExactRecord,
       Sending
  <2>11. \A b \in Actor : Own(b)'
    BY <2>3, <2>6, <2>7, <2>8, <2>9, <2>10, OwnLocal DEF Own, RoutingInv
  <2>12. Stages'
    BY <1>2, <2>1 DEF TypeOK, rows, Goto, At, SetStatus, Approve,
       CommitAuthorization, RoutingInv, Stages, Own, Grants, Control,
       Sending, Early, Awaiting, ModerationQueueStatuses, OutcomeStatuses,
       Actor
  <2>13. StatusNamesItsAuthority'
    BY <1>2, <2>1 DEF TypeOK, rows, At, SetStatus, Approve,
       CommitAuthorization, RoutingInv, StatusNamesItsAuthority, Own,
       Control, Grants, OutcomeStatuses, Sending, Actor
  <2> QED BY <2>11, <2>12, <2>13 DEF RoutingInv
<1>3. ASSUME NEW m \in Msg, RejectLoad(a, m) PROVE RoutingInv'
  <2>1. a \in Actor /\ Own(a)
    BY DEF RoutingInv, Actor
  <2>2. pc[a] = "idle"
    BY <1>3 DEF At, RejectLoad
  <2>3. \A b \in Actor \ {a} : UNCHANGED Mine(b)
    BY <1>3, <2>1 DEF TypeOK, Mine, rows, Goto, RejectLoad
  <2>4. /\ pc'[a] = "reject" /\ job'[a] = m
        /\ UNCHANGED <<plan[a], todo[a], ok[a], audit[a], copies[a], failed[a], sms[a]>>
    BY <1>3, <2>1 DEF TypeOK, rows, Goto, At, RejectLoad
  <2>5. Own(a)'
    BY <2>1, <2>2, <2>4 DEF Own, Control, Grants, Loop, OneSmsPerGrant,
       ExactRecord, Sending, Rest, Actor
  <2>6. \A b \in Actor : Own(b)'
    BY <2>3, <2>5, OwnLocal DEF Own, RoutingInv
  <2>7. Stages'
    BY <1>3, <2>1 DEF TypeOK, rows, Goto, At, SetStatus, RejectLoad,
       RoutingInv, Stages, Own, Grants, Control, Sending, Early, Awaiting,
       ModerationQueueStatuses, OutcomeStatuses, Actor
  <2>8. StatusNamesItsAuthority'
    BY <1>3 DEF rows, RoutingInv, StatusNamesItsAuthority, RejectLoad
  <2> QED BY <2>6, <2>7, <2>8 DEF RoutingInv
<1>4. ASSUME Reject(a) PROVE RoutingInv'
  <2>1. a \in Actor /\ Own(a)
    BY DEF RoutingInv, Actor
  <2>2. pc[a] = "reject"
    BY <1>4 DEF At, Reject
  <2>3. \A b \in Actor \ {a} : UNCHANGED Mine(b)
    BY <1>4, <2>1 DEF TypeOK, Mine, rows, Goto, Reject, Return, Rest
  <2>4. /\ pc'[a] = Rest(a) /\ plan'[a] = {} /\ todo'[a] = {}
        /\ ok'[a] = {}
        /\ UNCHANGED <<job[a], audit[a], copies[a], failed[a], sms[a]>>
    BY <1>4, <2>1 DEF TypeOK, rows, Goto, At, Reject, Return, Rest
  <2>5. Own(a)'
    BY <2>1, <2>2, <2>4 DEF Own, Control, Grants, Loop, OneSmsPerGrant,
       ExactRecord, Sending, Rest, Actor
  <2>6. \A b \in Actor : Own(b)'
    BY <2>3, <2>5, OwnLocal DEF Own, RoutingInv
  <2>7. Stages'
    BY <1>4, <2>1 DEF TypeOK, rows, Goto, At, SetStatus, Reject, Return,
       Rest, RoutingInv, Stages, Own, Grants, Control, Sending, Early,
       Awaiting, ModerationQueueStatuses, OutcomeStatuses, Actor
  <2>8. StatusNamesItsAuthority'
    BY <1>4 DEF TypeOK, rows, SetStatus, Reject, RoutingInv,
       StatusNamesItsAuthority, OutcomeStatuses
  <2> QED BY <2>6, <2>7, <2>8 DEF RoutingInv
<1> QED BY <1>1, <1>2, <1>3, <1>4

(* The fan-out, and the crash of a handler anywhere. *)
LEMMA FanOutSteps ==
  ASSUME TypeOK, RoutingInv, NEW a \in Actor
  PROVE
    /\ FanOutCheck(a) => RoutingInv'
    /\ FanOutRefused(a) => RoutingInv'
    /\ FanOutStart(a) => RoutingInv'
    /\ \A r \in Member : SendOk(a, r) => RoutingInv'
    /\ \A r \in Member : SendFails(a, r) => RoutingInv'
    /\ \A r \in Member : SendTimesOut(a, r) => RoutingInv'
    /\ FanOutFinish(a) => RoutingInv'
    /\ Abort(a) => RoutingInv'
<1> USE ActorsAreDistinct, SenderType
<1>1. ASSUME FanOutCheck(a) PROVE RoutingInv'
  <2>1. a \in Actor /\ Own(a)
    BY DEF RoutingInv, Actor
  <2>2. pc[a] = "check"
    BY <1>1 DEF At, FanOutCheck
  <2>3. \A b \in Actor \ {a} : UNCHANGED Mine(b)
    BY <1>1, <2>1 DEF TypeOK, Mine, rows, Goto, FanOutCheck
  <2>4. /\ pc'[a] = "start"
        /\ UNCHANGED <<job[a], plan[a], todo[a], ok[a], audit[a], copies[a], failed[a], sms[a]>>
    BY <1>1, <2>1 DEF TypeOK, rows, Goto, At, FanOutCheck
  <2>5. Own(a)'
    BY <2>1, <2>2, <2>4 DEF Own, Control, Grants, Loop, OneSmsPerGrant,
       ExactRecord, Sending, Rest, Actor
  <2>6. \A b \in Actor : Own(b)'
    BY <2>3, <2>5, OwnLocal DEF Own, RoutingInv
  <2>7. Stages'
    BY <1>1, <2>1 DEF TypeOK, rows, Goto, At, SetStatus, FanOutCheck,
       RoutingInv, Stages, Own, Grants, Control, Sending, Early, Awaiting,
       ModerationQueueStatuses, OutcomeStatuses, Actor
  <2>8. StatusNamesItsAuthority'
    BY <1>1 DEF rows, RoutingInv, StatusNamesItsAuthority, FanOutCheck
  <2> QED BY <2>6, <2>7, <2>8 DEF RoutingInv
<1>2. ASSUME FanOutRefused(a) PROVE RoutingInv'
  <2>1. a \in Actor /\ Own(a)
    BY DEF RoutingInv, Actor
  <2>2. pc[a] = "check"
    BY <1>2 DEF At, FanOutRefused
  <2>3. \A b \in Actor \ {a} : UNCHANGED Mine(b)
    BY <1>2, <2>1 DEF TypeOK, Mine, rows, Goto, FanOutRefused, Return, Rest
  <2>4. /\ pc'[a] = Rest(a) /\ plan'[a] = {} /\ todo'[a] = {}
        /\ ok'[a] = {}
        /\ UNCHANGED <<job[a], audit[a], copies[a], failed[a], sms[a]>>
    BY <1>2, <2>1 DEF TypeOK, rows, Goto, At, FanOutRefused, Return, Rest
  <2>5. Own(a)'
    BY <2>1, <2>2, <2>4 DEF Own, Control, Grants, Loop, OneSmsPerGrant,
       ExactRecord, Sending, Rest, Actor
  <2>6. \A b \in Actor : Own(b)'
    BY <2>3, <2>5, OwnLocal DEF Own, RoutingInv
  <2>7. Stages'
    BY <1>2, <2>1 DEF TypeOK, rows, Goto, At, SetStatus, FanOutRefused,
       Return, Rest, RoutingInv, Stages, Own, Grants, Control, Sending,
       Early, Awaiting, ModerationQueueStatuses, OutcomeStatuses, Actor
  <2>8. StatusNamesItsAuthority'
    BY <1>2 DEF rows, RoutingInv, StatusNamesItsAuthority, FanOutRefused
  <2> QED BY <2>6, <2>7, <2>8 DEF RoutingInv
<1>3. ASSUME FanOutStart(a) PROVE RoutingInv'
  <2>1. a \in Actor /\ Own(a)
    BY DEF RoutingInv, Actor
  <2>2. pc[a] = "start"
    BY <1>3 DEF At, FanOutStart
  <2>3. \A b \in Actor \ {a} : UNCHANGED Mine(b)
    BY <1>3, <2>1 DEF TypeOK, Mine, rows, Goto, FanOutStart
  <2>4. /\ pc'[a] = "send" /\ todo'[a] = plan[a]
        /\ UNCHANGED <<job[a], plan[a], ok[a], audit[a], copies[a], failed[a], sms[a]>>
    BY <1>3, <2>1 DEF TypeOK, rows, Goto, At, FanOutStart
  <2>5. plan[a] \subseteq Member
    BY <2>1, <2>4 DEF TypeOK
  <2>6. Own(a)'
    BY <2>1, <2>2, <2>4, <2>5 DEF Own, Control, Grants, Loop, OneSmsPerGrant,
       ExactRecord, Sending, Rest, Actor
  <2>7. \A b \in Actor : Own(b)'
    BY <2>3, <2>6, OwnLocal DEF Own, RoutingInv
  <2>8. Stages'
    BY <1>3, <2>1 DEF TypeOK, rows, Goto, At, SetStatus, FanOutStart,
       RoutingInv, Stages, Own, Grants, Control, Sending, Early, Awaiting,
       ModerationQueueStatuses, OutcomeStatuses, Actor
  <2>9. StatusNamesItsAuthority'
    BY <1>3, <2>1 DEF TypeOK, rows, At, SetStatus, FanOutStart, RoutingInv,
       StatusNamesItsAuthority, Own, Control, Grants, OutcomeStatuses,
       Sending, Actor
  <2> QED BY <2>7, <2>8, <2>9 DEF RoutingInv
<1>4. ASSUME NEW r \in Member, SendOk(a, r) PROVE RoutingInv'
  <2>1. a \in Actor /\ Own(a)
    BY DEF RoutingInv, Actor
  <2>2. pc[a] = "send" /\ r \in todo[a]
    BY <1>4 DEF At, SendOk
  <2>3. \A b \in Actor \ {a} : UNCHANGED Mine(b)
    BY <1>4, <2>1 DEF TypeOK, Mine, rows, Goto, SendOk, Accepted
  <2>4. /\ todo'[a] = todo[a] \ {r} /\ ok'[a] = ok[a] \cup {r}
        /\ sms'[a] = [sms[a] EXCEPT ![job[a]][r] = @ + 1]
        /\ UNCHANGED <<pc[a], job[a], plan[a], audit[a], copies[a], failed[a]>>
    BY <1>4, <2>1 DEF TypeOK, rows, Goto, At, SendOk, Accepted
  <2>5. /\ sms'[a][job[a]][r] = sms[a][job[a]][r] + 1
        /\ \A x \in Member \ {r} : sms'[a][job[a]][x] = sms[a][job[a]][x]
        /\ \A n \in Msg \ {job[a]} : sms'[a][n] = sms[a][n]
        /\ sms[a][job[a]] \in [Member -> Nat]
    BY <2>1, <2>4 DEF TypeOK
  <2>6. Control(a)'
    BY <2>1, <2>2, <2>4, <2>5 DEF Own, Control, Sending, Actor, Rest
  <2>7. Grants(a)'
    BY <2>1, <2>2, <2>4, <2>5 DEF Own, Control, Grants, Sending, Rest
  <2>8. Loop(a)'
    <3>1. /\ audit[a][job[a]] # {} /\ copies[a][job[a]] = {} /\ failed[a][job[a]] = {}
          /\ todo[a] \subseteq plan[a] /\ ok[a] \subseteq plan[a] /\ r \in plan[a]
          /\ \A x \in todo[a] : sms[a][job[a]][x] = 0
          /\ \A x \in ok[a] : sms[a][job[a]][x] > 0
      BY <2>1, <2>2 DEF Own, Grants, Loop, Sending
    <3>0. r \in Member /\ job[a] \in Msg
      BY <1>4, <2>1 DEF TypeOK
    <3>2. todo'[a] \subseteq plan[a] /\ \A x \in todo'[a] : sms'[a][job[a]][x] = 0
      <4>1. \A x \in todo'[a] : x \in Member \ {r} /\ x \in todo[a]
        BY <2>1, <2>4 DEF TypeOK
      <4> QED BY <2>5, <3>1, <4>1
    <3>3. ok'[a] \subseteq plan[a] /\ \A x \in ok'[a] : sms'[a][job[a]][x] > 0
      <4>1. \A x \in ok'[a] : x = r \/ (x \in Member \ {r} /\ x \in ok[a])
        BY <2>1, <2>4 DEF TypeOK
      <4>2. sms[a][job[a]][r] \in Nat
        BY <2>5, <3>0
      <4> QED BY <2>4, <2>5, <3>0, <3>1, <4>1, <4>2
    <3>4. ASSUME NEW m \in Msg, audit[a][m] = {}
          PROVE  /\ copies[a][m] = {} /\ failed[a][m] = {}
                 /\ \A x \in Member : sms'[a][m][x] = 0
      <4>1. m # job[a]
        BY <3>1, <3>4
      <4>2. sms'[a][m] = sms[a][m]
        BY <2>5, <3>4, <4>1
      <4>3. copies[a][m] = {} /\ failed[a][m] = {} /\ \A x \in Member : sms[a][m][x] = 0
        BY <2>1, <3>4 DEF Own, Loop
      <4> QED BY <4>2, <4>3
    <3> QED BY <2>2, <2>4, <3>1, <3>2, <3>3, <3>4 DEF Loop, Sending
  <2>9. OneSmsPerGrant(a)'
    BY <2>1, <2>2, <2>4, <2>5 DEF Own, Control, Grants, Loop, OneSmsPerGrant,
       Sending
  <2>10. ExactRecord(a)'
    <3>1. copies[a][job[a]] = {}
      BY <2>1, <2>2 DEF Own, Loop, Sending
    <3>2. \A m \in Msg : \A x \in copies[a][m] : sms'[a][m][x] > 0
      <4>1. ASSUME NEW m \in Msg, m # job[a], NEW x \in copies[a][m]
            PROVE  sms'[a][m][x] > 0
        <5>1. sms'[a][m] = sms[a][m]
          BY <2>5, <4>1
        <5> QED BY <2>1, <4>1, <5>1 DEF Own, ExactRecord
      <4> QED BY <3>1, <4>1
    <3> QED BY <2>1, <2>4, <3>2 DEF Own, ExactRecord
  <2>11. \A b \in Actor : Own(b)'
    BY <2>3, <2>6, <2>7, <2>8, <2>9, <2>10, OwnLocal DEF Own, RoutingInv
  <2>12. Stages'
    BY <1>4, <2>1 DEF TypeOK, rows, Goto, At, SetStatus, SendOk, Accepted,
       RoutingInv, Stages, Own, Grants, Control, Sending, Early, Awaiting,
       ModerationQueueStatuses, OutcomeStatuses, Actor
  <2>13. StatusNamesItsAuthority'
    BY <1>4 DEF rows, RoutingInv, StatusNamesItsAuthority, SendOk
  <2> QED BY <2>11, <2>12, <2>13 DEF RoutingInv
<1>5. ASSUME NEW r \in Member, SendFails(a, r) PROVE RoutingInv'
  <2>1. a \in Actor /\ Own(a)
    BY DEF RoutingInv, Actor
  <2>2. pc[a] = "send" /\ r \in todo[a]
    BY <1>5 DEF At, SendFails
  <2>3. \A b \in Actor \ {a} : UNCHANGED Mine(b)
    BY <1>5, <2>1 DEF TypeOK, Mine, rows, Goto, SendFails
  <2>4. /\ todo'[a] = todo[a] \ {r}
        /\ UNCHANGED <<pc[a], job[a], plan[a], ok[a], audit[a], copies[a], failed[a], sms[a]>>
    BY <1>5, <2>1 DEF TypeOK, rows, Goto, At, SendFails
  <2>5. Own(a)'
    BY <2>1, <2>2, <2>4 DEF Own, Control, Grants, Loop, OneSmsPerGrant,
       ExactRecord, Sending, Rest, Actor
  <2>6. \A b \in Actor : Own(b)'
    BY <2>3, <2>5, OwnLocal DEF Own, RoutingInv
  <2>7. Stages'
    BY <1>5, <2>1 DEF TypeOK, rows, Goto, At, SetStatus, SendFails,
       RoutingInv, Stages, Own, Grants, Control, Sending, Early, Awaiting,
       ModerationQueueStatuses, OutcomeStatuses, Actor
  <2>8. StatusNamesItsAuthority'
    BY <1>5 DEF rows, RoutingInv, StatusNamesItsAuthority, SendFails
  <2> QED BY <2>6, <2>7, <2>8 DEF RoutingInv
<1>6. ASSUME NEW r \in Member, SendTimesOut(a, r) PROVE RoutingInv'
  <2>1. a \in Actor /\ Own(a)
    BY DEF RoutingInv, Actor
  <2>2. pc[a] = "send" /\ r \in todo[a]
    BY <1>6 DEF At, SendTimesOut
  <2>3. \A b \in Actor \ {a} : UNCHANGED Mine(b)
    BY <1>6, <2>1 DEF TypeOK, Mine, rows, Goto, SendTimesOut, Accepted
  <2>4. /\ todo'[a] = todo[a] \ {r}
        /\ sms'[a] = [sms[a] EXCEPT ![job[a]][r] = @ + 1]
        /\ UNCHANGED <<pc[a], job[a], plan[a], ok[a], audit[a], copies[a], failed[a]>>
    BY <1>6, <2>1 DEF TypeOK, rows, Goto, At, SendTimesOut, Accepted
  <2>5. /\ sms'[a][job[a]][r] = sms[a][job[a]][r] + 1
        /\ \A x \in Member \ {r} : sms'[a][job[a]][x] = sms[a][job[a]][x]
        /\ \A n \in Msg \ {job[a]} : sms'[a][n] = sms[a][n]
        /\ sms[a][job[a]] \in [Member -> Nat]
    BY <2>1, <2>4 DEF TypeOK
  <2>6. Control(a)'
    BY <2>1, <2>2, <2>4, <2>5 DEF Own, Control, Sending, Actor, Rest
  <2>7. Grants(a)'
    BY <2>1, <2>2, <2>4, <2>5 DEF Own, Control, Grants, Sending, Rest
  <2>8. Loop(a)'
    <3>1. /\ audit[a][job[a]] # {} /\ copies[a][job[a]] = {} /\ failed[a][job[a]] = {}
          /\ todo[a] \subseteq plan[a] /\ ok[a] \subseteq plan[a] /\ r \in plan[a]
          /\ \A x \in todo[a] : sms[a][job[a]][x] = 0
          /\ \A x \in ok[a] : sms[a][job[a]][x] > 0
      BY <2>1, <2>2 DEF Own, Grants, Loop, Sending
    <3>0. r \in Member /\ job[a] \in Msg
      BY <1>6, <2>1 DEF TypeOK
    <3>2. todo'[a] \subseteq plan[a] /\ \A x \in todo'[a] : sms'[a][job[a]][x] = 0
      <4>1. \A x \in todo'[a] : x \in Member \ {r} /\ x \in todo[a]
        BY <2>1, <2>4 DEF TypeOK
      <4> QED BY <2>5, <3>1, <4>1
    <3>3. ok'[a] \subseteq plan[a] /\ \A x \in ok'[a] : sms'[a][job[a]][x] > 0
      <4>1. \A x \in ok'[a] : x = r \/ (x \in Member \ {r} /\ x \in ok[a])
        BY <2>1, <2>4 DEF TypeOK
      <4>2. sms[a][job[a]][r] \in Nat
        BY <2>5, <3>0
      <4> QED BY <2>4, <2>5, <3>0, <3>1, <4>1, <4>2
    <3>4. ASSUME NEW m \in Msg, audit[a][m] = {}
          PROVE  /\ copies[a][m] = {} /\ failed[a][m] = {}
                 /\ \A x \in Member : sms'[a][m][x] = 0
      <4>1. m # job[a]
        BY <3>1, <3>4
      <4>2. sms'[a][m] = sms[a][m]
        BY <2>5, <3>4, <4>1
      <4>3. copies[a][m] = {} /\ failed[a][m] = {} /\ \A x \in Member : sms[a][m][x] = 0
        BY <2>1, <3>4 DEF Own, Loop
      <4> QED BY <4>2, <4>3
    <3> QED BY <2>2, <2>4, <3>1, <3>2, <3>3, <3>4 DEF Loop, Sending
  <2>9. OneSmsPerGrant(a)'
    BY <2>1, <2>2, <2>4, <2>5 DEF Own, Control, Grants, Loop, OneSmsPerGrant,
       Sending
  <2>10. ExactRecord(a)'
    <3>1. copies[a][job[a]] = {}
      BY <2>1, <2>2 DEF Own, Loop, Sending
    <3>2. \A m \in Msg : \A x \in copies[a][m] : sms'[a][m][x] > 0
      <4>1. ASSUME NEW m \in Msg, m # job[a], NEW x \in copies[a][m]
            PROVE  sms'[a][m][x] > 0
        <5>1. sms'[a][m] = sms[a][m]
          BY <2>5, <4>1
        <5> QED BY <2>1, <4>1, <5>1 DEF Own, ExactRecord
      <4> QED BY <3>1, <4>1
    <3> QED BY <2>1, <2>4, <3>2 DEF Own, ExactRecord
  <2>11. \A b \in Actor : Own(b)'
    BY <2>3, <2>6, <2>7, <2>8, <2>9, <2>10, OwnLocal DEF Own, RoutingInv
  <2>12. Stages'
    BY <1>6, <2>1 DEF TypeOK, rows, Goto, At, SetStatus, SendTimesOut,
       Accepted, RoutingInv, Stages, Own, Grants, Control, Sending, Early,
       Awaiting, ModerationQueueStatuses, OutcomeStatuses, Actor
  <2>13. StatusNamesItsAuthority'
    BY <1>6 DEF rows, RoutingInv, StatusNamesItsAuthority, SendTimesOut
  <2> QED BY <2>11, <2>12, <2>13 DEF RoutingInv
<1>7. ASSUME FanOutFinish(a) PROVE RoutingInv'
  <2>1. a \in Actor /\ Own(a)
    BY DEF RoutingInv, Actor
  <2>2. pc[a] = "send" /\ todo[a] = {}
    BY <1>7 DEF At, FanOutFinish
  <2>3. \A b \in Actor \ {a} : UNCHANGED Mine(b)
    BY <1>7, <2>1 DEF TypeOK, Mine, rows, Goto, FanOutFinish, Return, Rest,
       FanOutStatus
  <2>4. /\ pc'[a] = Rest(a) /\ plan'[a] = {} /\ todo'[a] = {}
        /\ ok'[a] = {} /\ copies'[a] = [copies[a] EXCEPT ![job[a]] = ok[a]]
        /\ failed'[a] = [failed[a] EXCEPT ![job[a]] = plan[a] \ ok[a]]
        /\ UNCHANGED <<job[a], audit[a], sms[a]>>
    BY <1>7, <2>1 DEF TypeOK, rows, Goto, At, FanOutFinish, Return, Rest,
       FanOutStatus
  <2>5. /\ copies'[a][job[a]] = ok[a] /\ failed'[a][job[a]] = plan[a] \ ok[a]
        /\ \A n \in Msg \ {job[a]} :
              copies'[a][n] = copies[a][n] /\ failed'[a][n] = failed[a][n]
    BY <2>1, <2>4 DEF TypeOK
  <2>6. Control(a)'
    BY <2>1, <2>2, <2>4, <2>5 DEF Own, Control, Sending, Actor, Rest
  <2>7. Grants(a)'
    BY <2>1, <2>2, <2>4, <2>5 DEF Own, Control, Grants, Sending, Rest
  <2>8. Loop(a)'
    BY <2>1, <2>2, <2>4, <2>5 DEF Own, Control, Grants, Loop, Sending, Rest
  <2>9. OneSmsPerGrant(a)'
    BY <2>1, <2>2, <2>4, <2>5 DEF Own, Control, Grants, Loop, OneSmsPerGrant,
       Sending
  <2>10. ExactRecord(a)'
    BY <2>1, <2>2, <2>4, <2>5 DEF Own, Control, Grants, Loop, ExactRecord,
       Sending
  <2>11. \A b \in Actor : Own(b)'
    BY <2>3, <2>6, <2>7, <2>8, <2>9, <2>10, OwnLocal DEF Own, RoutingInv
  <2>12. Stages'
    BY <1>7, <2>1 DEF TypeOK, rows, Goto, At, SetStatus, FanOutFinish,
       Return, Rest, FanOutStatus, RoutingInv, Stages, Own, Grants, Control,
       Sending, Early, Awaiting, ModerationQueueStatuses, OutcomeStatuses,
       Actor
  <2>13. StatusNamesItsAuthority'
    BY <1>7, <2>1 DEF TypeOK, rows, At, SetStatus, FanOutFinish, Return,
       Rest, FanOutStatus, RoutingInv, StatusNamesItsAuthority, Own, Control,
       Grants, OutcomeStatuses, Sending, Actor
  <2> QED BY <2>11, <2>12, <2>13 DEF RoutingInv
<1>8. ASSUME Abort(a) PROVE RoutingInv'
  <2>1. a \in Actor /\ Own(a)
    BY DEF RoutingInv, Actor
  <2>2. pc[a] \notin {"none", Rest(a)}
    BY <1>8 DEF At, Abort
  <2>3. \A b \in Actor \ {a} : UNCHANGED Mine(b)
    BY <1>8, <2>1 DEF TypeOK, Mine, rows, Goto, Abort, Return, Rest
  <2>4. /\ pc'[a] = Rest(a) /\ plan'[a] = {} /\ todo'[a] = {}
        /\ ok'[a] = {}
        /\ UNCHANGED <<job[a], audit[a], copies[a], failed[a], sms[a]>>
    BY <1>8, <2>1 DEF TypeOK, rows, Goto, At, Abort, Return, Rest
  <2>5. Own(a)'
    BY <2>1, <2>2, <2>4 DEF Own, Control, Grants, Loop, OneSmsPerGrant,
       ExactRecord, Sending, Rest, Actor
  <2>6. \A b \in Actor : Own(b)'
    BY <2>3, <2>5, OwnLocal DEF Own, RoutingInv
  <2>7. Stages'
    BY <1>8, <2>1 DEF TypeOK, rows, Goto, At, SetStatus, Abort, Return, Rest,
       RoutingInv, Stages, Own, Grants, Control, Sending, Early, Awaiting,
       ModerationQueueStatuses, OutcomeStatuses, Actor
  <2>8. StatusNamesItsAuthority'
    BY <1>8 DEF rows, RoutingInv, StatusNamesItsAuthority, Abort
  <2> QED BY <2>6, <2>7, <2>8 DEF RoutingInv
<1> QED BY <1>1, <1>2, <1>3, <1>4, <1>5, <1>6, <1>7, <1>8

(* The rest of the environment changes neither rows nor handlers. *)
LEMMA QuietSteps ==
  ASSUME RoutingInv, UNCHANGED <<rows, sms, handler>>
  PROVE  RoutingInv'
BY DEF rows, handler, RoutingInv, Own, Control, Grants, Loop, OneSmsPerGrant,
   ExactRecord, Stages, StatusNamesItsAuthority, Early, Awaiting

(* Every step, whoever takes it. *)
LEMMA NextRoutingInv == TypeOK /\ RoutingInv /\ [Next]_vars => RoutingInv'
<1> SUFFICES ASSUME TypeOK, RoutingInv, [Next]_vars PROVE RoutingInv'
  OBVIOUS
<1>1. ASSUME NEW a \in Actor, FanOut(a) PROVE RoutingInv'
  BY <1>1, FanOutSteps DEF FanOut
<1>2. ASSUME NEW m \in Msg, Receive(m) \/ Webhook(m) PROVE RoutingInv'
  BY <1>1, <1>2, WebhookSteps DEF Webhook, Actor
<1>3. ASSUME NEW a \in Mod, Moderate(a) PROVE RoutingInv'
  BY <1>1, <1>3, ModeratorSteps DEF Moderate, Actor
<1>4. ASSUME NEW a \in Mod, NEW m \in Msg, ApproveLoad(a, m) \/ RejectLoad(a, m)
      PROVE RoutingInv'
  BY <1>4, ModeratorSteps
<1>5. CASE Environment
  <2>1. ASSUME NEW a \in Actor, Abort(a) PROVE RoutingInv'
    BY <2>1, FanOutSteps
  <2>2. ASSUME \/ \E p \in RoutingPolicy : SetRoutingPolicy(p)
               \/ \E r \in Member : SwitchMembership(r)
               \/ ReleaseNumber \/ AssignNumber
        PROVE RoutingInv'
    BY <2>2, QuietSteps
       DEF SetRoutingPolicy, SwitchMembership, ReleaseNumber, AssignNumber
  <2> QED BY <1>5, <2>1, <2>2 DEF Environment
<1>6. CASE UNCHANGED vars
  BY <1>6, QuietSteps DEF vars
<1> QED BY <1>2, <1>3, <1>4, <1>5, <1>6 DEF Next

(* The inductive invariant holds: every handler sends on an authorization   *)
(* of its own, given while the message was waiting or freshly processed.    *)
THEOREM RoutingInvariant == Spec => [](TypeOK /\ RoutingInv)
<1>1. Init => TypeOK /\ RoutingInv
  BY InitTypeOK, InitRoutingInv
<1>2. (TypeOK /\ RoutingInv) /\ [Next]_vars => (TypeOK /\ RoutingInv)'
  BY NextTypeOK, NextRoutingInv
<1> QED BY <1>1, <1>2, PTL DEF Spec

(* Whoever overlaps, crashes or times out, each authorization is good for   *)
(* at most one text to each member it names, and for none to anybody else.  *)
THEOREM OneSms == Spec => []AtMostOneSmsPerAuthorization
<1>1. RoutingInv => AtMostOneSmsPerAuthorization
  BY DEF RoutingInv, Own, AtMostOneSmsPerAuthorization
<1> QED BY <1>1, RoutingInvariant, PTL

(* The record a fan-out leaves is all or nothing, and never claims a copy   *)
(* of a text the provider did not take.                                     *)
THEOREM ExactDeliveryRecord == Spec => []DeliveryRecordIsExact
<1>1. RoutingInv => DeliveryRecordIsExact
  BY DEF RoutingInv, Own, DeliveryRecordIsExact
<1> QED BY <1>1, RoutingInvariant, PTL

(* No stored status claims an approval or an authorization nobody gave. *)
THEOREM StatusHasAuthority == Spec => []StatusNamesItsAuthority
<1>1. RoutingInv => StatusNamesItsAuthority
  BY DEF RoutingInv
<1> QED BY <1>1, RoutingInvariant, PTL

-----------------------------------------------------------------------------
(* A handler that sends m has authorized it, so the only authorizer of a    *)
(* message is the only one that can have recorded its outcome.              *)
OutcomeInv ==
  \A m \in Msg, a \in Actor : Authorizers(m) = {a} =>
    /\ routed[m] = audit[a][m]
    /\ status[m] \in OutcomeStatuses =>
         /\ copies[a][m] \cup failed[a][m] = audit[a][m]
         /\ status[m] = FanOutStatus(copies[a][m], failed[a][m])

(* The steps that leave the routing decisions and the records alone, and    *)
(* give no message an outcome.                                              *)
NoOutcome ==
  /\ UNCHANGED <<routed, audit, copies, failed>>
  /\ \A m \in Msg : status'[m] \in OutcomeStatuses => status'[m] = status[m]

(* All steps but the commit of an authorization and the end of a fan-out. *)
LEMMA OtherStepsNoOutcome ==
  ASSUME TypeOK, [Next]_vars
  PROVE  \/ NoOutcome
         \/ \E a \in Actor : FanOutFinish(a)
         \/ \E a \in Actor, s \in PreDeliveryStatuses :
              pc[a] \in {"authorize", "approve"} /\ CommitAuthorization(a, s)
<1> USE ActorsAreDistinct
        DEF NoOutcome, rows, SetStatus, OutcomeStatuses, TypeOK, Actor
<1>1. ASSUME NEW a \in Actor, FanOut(a)
      PROVE  NoOutcome \/ FanOutFinish(a)
  BY <1>1
     DEF FanOut, FanOutCheck, FanOutRefused, FanOutStart, SendOk, SendFails, SendTimesOut
<1>2. ASSUME NEW m \in Msg,
             \/ Receive(m) \/ ReadPolicy(m) \/ Process(m) \/ ProcessFails(m)
             \/ LeaveToModerator(m) \/ DecideAutomatic(m)
      PROVE  NoOutcome
  BY <1>2
     DEF Receive, ReadPolicy, Process, ProcessFails, LeaveToModerator, DecideAutomatic
<1>3. ASSUME NEW a \in Mod, NEW m \in Msg, ApproveLoad(a, m) \/ RejectLoad(a, m) \/ Reject(a)
      PROVE  NoOutcome
  BY <1>3 DEF ApproveLoad, RejectLoad, Reject
<1>4. CASE Environment \/ UNCHANGED vars
  BY <1>4 DEF Environment, Abort, SetRoutingPolicy, SwitchMembership, ReleaseNumber,
              AssignNumber, vars
<1>5. ASSUME NEW m \in Msg, Authorize(m)
      PROVE  pc[m] \in {"authorize", "approve"} /\ CommitAuthorization(m, "auto_authorized")
  BY <1>5 DEF Authorize, At
<1>6. ASSUME NEW a \in Mod, Approve(a)
      PROVE  pc[a] \in {"authorize", "approve"} /\ CommitAuthorization(a, "approved")
  BY <1>6 DEF Approve, At
<1> QED BY <1>1, <1>2, <1>3, <1>4, <1>5, <1>6
        DEF Next, Webhook, Moderate, PreDeliveryStatuses

(* An authorization is the first of its handler, and is what is routed. *)
LEMMA GrantKeepsOutcomes ==
  ASSUME TypeOK, RoutingInv, OutcomeInv, NEW a \in Actor, NEW s \in PreDeliveryStatuses,
         pc[a] \in {"authorize", "approve"}, CommitAuthorization(a, s)
  PROVE  OutcomeInv'
<1> DEFINE m == job[a]
<1>1. m \in Msg /\ audit[a][m] = {} /\ plan[a] # {}
  BY DEF TypeOK, RoutingInv, Own, Grants
<1>2. /\ status' = [status EXCEPT ![m] = s] /\ routed' = [routed EXCEPT ![m] = plan[a]]
      /\ audit' = [audit EXCEPT ![a][m] = plan[a]] /\ UNCHANGED <<copies, failed>>
  BY DEF CommitAuthorization, SetStatus
<1> HIDE DEF m
<1>3. audit'[a][m] = plan[a] /\ status'[m] = s /\ routed'[m] = plan[a]
  BY <1>1, <1>2 DEF TypeOK
<1>4. ASSUME NEW n \in Msg \ {m}
      PROVE  /\ status'[n] = status[n] /\ routed'[n] = routed[n]
             /\ \A b \in Actor : audit'[b][n] = audit[b][n]
  BY <1>1, <1>2 DEF TypeOK
<1>5. s \notin OutcomeStatuses
  BY DEF PreDeliveryStatuses, OutcomeStatuses
<1>6. ASSUME NEW n \in Msg, NEW b \in Actor,
             {c \in Actor : audit'[c][n] # {}} = {b}
      PROVE  /\ routed'[n] = audit'[b][n]
             /\ status'[n] \in OutcomeStatuses =>
                  /\ copies'[b][n] \cup failed'[b][n] = audit'[b][n]
                  /\ status'[n] = FanOutStatus(copies'[b][n], failed'[b][n])
  <2>1. CASE n = m
    <3>1. a = b
      BY <1>1, <1>3, <1>6, <2>1
    <3> QED BY <1>3, <1>5, <2>1, <3>1
  <2>2. CASE n # m
    <3>1. Authorizers(n) = {b}
      BY <1>4, <1>6, <2>2 DEF Authorizers
    <3> QED BY <1>2, <1>4, <2>2, <3>1 DEF OutcomeInv
  <2> QED BY <2>1, <2>2
<1> QED BY <1>6 DEF OutcomeInv, Authorizers, FanOutStatus

(* The end of a fan-out records what its own authorization named. *)
LEMMA FinishKeepsOutcomes ==
  ASSUME TypeOK, RoutingInv, OutcomeInv, NEW a \in Actor, FanOutFinish(a)
  PROVE  OutcomeInv'
<1> DEFINE m == job[a]
<1>1. /\ m \in Msg /\ plan[a] # {} /\ audit[a][m] = plan[a]
      /\ ok[a] \subseteq plan[a]
  BY DEF TypeOK, RoutingInv, Own, Grants, Loop, Sending, FanOutFinish, At
<1>2. /\ status' = [status EXCEPT ![m] = FanOutStatus(ok[a], plan[a] \ ok[a])]
      /\ copies' = [copies EXCEPT ![a][m] = ok[a]]
      /\ failed' = [failed EXCEPT ![a][m] = plan[a] \ ok[a]]
      /\ UNCHANGED <<routed, audit>>
  BY DEF FanOutFinish, SetStatus
<1> HIDE DEF m
<1>3. /\ status'[m] = FanOutStatus(ok[a], plan[a] \ ok[a])
      /\ copies'[a][m] = ok[a] /\ failed'[a][m] = plan[a] \ ok[a]
  BY <1>1, <1>2 DEF TypeOK
<1>4. ASSUME NEW n \in Msg \ {m}
      PROVE  /\ status'[n] = status[n]
             /\ \A b \in Actor : copies'[b][n] = copies[b][n] /\ failed'[b][n] = failed[b][n]
  BY <1>1, <1>2 DEF TypeOK
<1>5. ASSUME NEW n \in Msg, NEW b \in Actor,
             {c \in Actor : audit'[c][n] # {}} = {b}
      PROVE  /\ routed'[n] = audit'[b][n]
             /\ status'[n] \in OutcomeStatuses =>
                  /\ copies'[b][n] \cup failed'[b][n] = audit'[b][n]
                  /\ status'[n] = FanOutStatus(copies'[b][n], failed'[b][n])
  <2>0. Authorizers(n) = {b}
    BY <1>2, <1>5 DEF Authorizers
  <2>1. routed[n] = audit[b][n]
    BY <2>0 DEF OutcomeInv
  <2>2. CASE n = m
    <3>1. a = b
      BY <1>1, <2>0, <2>2 DEF Authorizers
    <3> QED BY <1>1, <1>2, <1>3, <2>1, <2>2, <3>1
  <2>3. CASE n # m
    BY <1>2, <1>4, <2>0, <2>3 DEF OutcomeInv
  <2> QED BY <2>2, <2>3
<1> QED BY <1>5 DEF OutcomeInv, Authorizers, FanOutStatus

(* The aggregate agrees with the rows and events, whichever way the calls   *)
(* to the provider end, as long as one handler authorized the message.      *)
THEOREM OutcomesAgree == Spec => []OutcomeMatchesRecord
<1>1. Init => OutcomeInv
  BY DEF Init, OutcomeInv, Authorizers
<1>2. TypeOK /\ RoutingInv /\ OutcomeInv /\ [Next]_vars => OutcomeInv'
  <2>1. ASSUME TypeOK, RoutingInv, OutcomeInv, NoOutcome PROVE OutcomeInv'
    BY <2>1 DEF NoOutcome, OutcomeInv, Authorizers, FanOutStatus
  <2> QED BY <2>1, OtherStepsNoOutcome, GrantKeepsOutcomes, FinishKeepsOutcomes
<1>3. OutcomeInv => OutcomeMatchesRecord
  <2>1. ASSUME OutcomeInv, NEW m \in Msg, NEW a \in Authorizers(m),
               Authorizers(m) = {a}, status[m] \in OutcomeStatuses
        PROVE  /\ copies[a][m] \cup failed[a][m] = routed[m]
               /\ status[m] = "delivered" <=> failed[a][m] = {}
               /\ status[m] = "delivery_failed" <=> copies[a][m] = {}
    <3>1. a \in Actor /\ audit[a][m] # {}
      BY DEF Authorizers
    <3>2. /\ copies[a][m] \cup failed[a][m] = audit[a][m] /\ routed[m] = audit[a][m]
          /\ status[m] = FanOutStatus(copies[a][m], failed[a][m])
      BY <2>1, <3>1 DEF OutcomeInv
    <3> QED BY <3>1, <3>2 DEF FanOutStatus
  <2> QED BY <2>1 DEF OutcomeMatchesRecord
<1> QED BY <1>1, <1>2, <1>3, RoutingInvariant, PTL DEF Spec

-----------------------------------------------------------------------------
(* While a message waits for the decision the policies it has met are       *)
(* counted; a webhook that has decided to route met auto_group.             *)
PolicyInv ==
  \A m \in Msg :
    /\ pc[m] = "decide" => policy \in inForce[m]
    /\ pc[m] = "authorize" \/ audit[m][m] # {} => "auto_group" \in inForce[m]

(* The steps that neither edit the policy nor bring a webhook nearer to the *)
(* decision or past it.                                                     *)
NoPolicyStep ==
  /\ UNCHANGED <<policy, inForce>>
  /\ \A m \in Msg : /\ audit'[m][m] = audit[m][m]
                    /\ pc'[m] \in {"decide", "authorize"} => pc'[m] = pc[m]

(* The webhook is at "authorize" only after it has decided, and has         *)
(* authorized only from there.                                              *)
LEMMA NextPolicyInv == TypeOK /\ RoutingInv /\ PolicyInv /\ [Next]_vars => PolicyInv'
<1> SUFFICES ASSUME TypeOK, RoutingInv, PolicyInv, [Next]_vars PROVE PolicyInv'
  OBVIOUS
<1> USE ActorsAreDistinct, BoundType DEF TypeOK, Actor, rows, group, handler, Goto, At
<1>1. CASE NoPolicyStep
  BY <1>1 DEF NoPolicyStep, PolicyInv
<1>2. ASSUME NEW a \in Actor, FanOut(a) PROVE NoPolicyStep
  BY <1>2 DEF FanOut, FanOutCheck, FanOutRefused, FanOutStart, FanOutFinish, SendOk,
              SendFails, SendTimesOut, NoPolicyStep, Return, Rest
<1>3. ASSUME NEW a \in Mod, NEW m \in Msg, ApproveLoad(a, m) \/ RejectLoad(a, m) \/ Reject(a)
      PROVE  NoPolicyStep
  BY <1>3 DEF ApproveLoad, RejectLoad, Reject, NoPolicyStep, Return, Rest
<1>4. ASSUME NEW a \in Mod, Approve(a) PROVE NoPolicyStep
  BY <1>4 DEF Approve, CommitAuthorization, NoPolicyStep
<1>5. ASSUME NEW m \in Msg, Receive(m) \/ ProcessFails(m) \/ LeaveToModerator(m)
      PROVE  NoPolicyStep
  BY <1>5 DEF Receive, ProcessFails, LeaveToModerator, NoPolicyStep, Return, Rest
<1>6. ASSUME NEW m \in Msg, ReadPolicy(m) PROVE NoPolicyStep
  BY <1>6 DEF ReadPolicy, NoPolicyStep
<1>7. ASSUME NEW m \in Msg, Process(m) PROVE PolicyInv'
  <2>1. audit[m][m] = {}
    BY <1>7 DEF Process, RoutingInv, Own, Control, Grants
  <2> QED BY <1>7, <2>1 DEF Process, PolicyInv
<1>8. ASSUME NEW m \in Msg, DecideAutomatic(m) PROVE PolicyInv'
  BY <1>8 DEF DecideAutomatic, RequiresModeration, PolicyInv
<1>9. ASSUME NEW m \in Msg, Authorize(m) PROVE PolicyInv'
  <2>1. job[m] = m
    BY DEF RoutingInv, Own, Control
  <2> QED BY <1>9, <2>1 DEF Authorize, CommitAuthorization, PolicyInv
<1>10. ASSUME NEW p \in RoutingPolicy, SetRoutingPolicy(p) PROVE PolicyInv'
  BY <1>10 DEF SetRoutingPolicy, PolicyInv
<1>11. ASSUME NEW a \in Actor, Abort(a) PROVE NoPolicyStep
  BY <1>11 DEF Abort, Use, Return, Rest, Kind, NoPolicyStep
<1>12. ASSUME NEW r \in Member, SwitchMembership(r) PROVE NoPolicyStep
  BY <1>12 DEF SwitchMembership, Use, Kind, NoPolicyStep
<1>13. CASE ReleaseNumber \/ AssignNumber
  BY <1>1, <1>13 DEF ReleaseNumber, AssignNumber, Use, Kind, NoPolicyStep
<1>14. CASE UNCHANGED vars
  BY <1>1, <1>14 DEF vars, NoPolicyStep
<1> QED BY <1>1, <1>2, <1>3, <1>4, <1>5, <1>6, <1>7, <1>8, <1>9, <1>10, <1>11, <1>12,
           <1>13, <1>14
        DEF Next, Webhook, Moderate, Environment

(* requires_moderation does not fail open: nothing is routed automatically  *)
(* that was not waiting while the group was auto_group, whatever the edits. *)
THEOREM OnlyAutoGroupIsAutomatic == Spec => []AutomaticOnlyUnderAutoGroup
<1>1. Init => PolicyInv
  BY ActorsAreDistinct DEF Init, PolicyInv, Actor
<1>2. PolicyInv => AutomaticOnlyUnderAutoGroup
  BY DEF PolicyInv, AutomaticOnlyUnderAutoGroup
<1> QED BY <1>1, <1>2, NextPolicyInv, RoutingInvariant, PTL DEF Spec

-----------------------------------------------------------------------------
(* Only its release takes the number of the group away. *)
NumberKept == used["release"] = 0 => number

(* What moves a message on: a handler that is where its status says. *)
Carried(m) ==
  /\ status[m] = "received" => pc[m] \in {"created", "process"}
  /\ status[m] \in PreDeliveryStatuses =>
       \E a \in Actor : job[a] = m /\ pc[a] \in {"check", "start"}
  /\ status[m] = "delivering" =>
       \E a \in Actor : job[a] = m /\ pc[a] = "send"
InFlightInv == NumberKept /\ (~Disturbed => \A m \in Msg : Carried(m))

(* The steps of a that leave every message its handler: they take none from *)
(* the fan-out or from the keyword pass, and no number from the group.      *)
Steady(a) ==
  /\ UNCHANGED <<status, number>>
  /\ used'["release"] = used["release"] /\ (Disturbed => Disturbed')
  /\ \A b \in Actor \ {a} : pc'[b] = pc[b] /\ job'[b] = job[b]
  /\ pc[a] \notin {"created", "process"} \cup Sending

(* Such a step leaves every message its handler. *)
LEMMA SteadyKeepsInFlight ==
  ASSUME InFlightInv, NEW a \in Actor, Steady(a)
  PROVE  InFlightInv'
<1>1. NumberKept'
  BY DEF InFlightInv, NumberKept, Steady
<1>2. ASSUME ~Disturbed', NEW m \in Msg PROVE Carried(m)'
  <2>1. Carried(m)
    BY <1>2 DEF InFlightInv, Steady
  <2>2. \A b \in Actor : pc[b] \in {"created", "process"} \cup Sending =>
          pc'[b] = pc[b] /\ job'[b] = job[b]
    BY DEF Steady
  <2> QED BY <2>1, <2>2, ActorsAreDistinct DEF Carried, Steady, Sending, Actor
<1> QED BY <1>1, <1>2 DEF InFlightInv

(* A step of a, at work on m, that gives m another status, or its handler   *)
(* another place.                                                           *)
Moves(a, m) ==
  /\ UNCHANGED <<number, used, job>>
  /\ \A n \in Msg \ {m} : status'[n] = status[n]
  /\ \A b \in Actor \ {a} : pc'[b] = pc[b]
  /\ job[a] = m

(* Only the message at work needs a look. *)
LEMMA MovesKeepInFlight ==
  ASSUME TypeOK, RoutingInv, InFlightInv, NEW a \in Actor, NEW m \in Msg, Moves(a, m),
         ~Disturbed => Carried(m)'
  PROVE  InFlightInv'
<1>1. NumberKept' /\ (Disturbed' <=> Disturbed)
  BY DEF InFlightInv, NumberKept, Moves, Disturbed
<1>2. ASSUME ~Disturbed, NEW n \in Msg \ {m} PROVE Carried(n)'
  <2>1. Carried(n)
    BY <1>2 DEF InFlightInv
  <2>2. n # a
    BY ActorsAreDistinct DEF Moves, RoutingInv, Own, Control, Actor
  <2> QED BY <2>1, <2>2, ActorsAreDistinct DEF Carried, Moves, Actor
<1> QED BY <1>1, <1>2 DEF InFlightInv

(* The steps of a fan-out hand the message on to themselves, or finish it.  *)
LEMMA FanOutKeepsInFlight ==
  ASSUME TypeOK, RoutingInv, InFlightInv, NEW a \in Actor, FanOut(a),
         NEW m \in Msg, job[a] = m
  PROVE  InFlightInv'
<1> USE DEF At, Goto, rows, group, SetStatus, Return, TypeOK
<1>1. ~Early(m) /\ (~Disturbed => Carried(m))
  BY DEF FanOut, FanOutCheck, FanOutRefused, FanOutStart, FanOutFinish, SendOk,
         SendFails, SendTimesOut, RoutingInv, Stages, Sending, InFlightInv
<1>2. Moves(a, m)
  BY DEF FanOut, FanOutCheck, FanOutRefused, FanOutStart, FanOutFinish, SendOk,
         SendFails, SendTimesOut, Moves
<1>3. job' = job
  BY <1>2 DEF Moves
<1>4. CASE FanOutCheck(a)
  <2>1. pc'[a] = "start" /\ pc[a] = "check" /\ status' = status
    BY <1>4 DEF FanOutCheck
  <2>2. ~Disturbed => Carried(m)'
    BY <1>1, <1>2, <1>3, <2>1 DEF Carried, Early, Moves
  <2> QED BY <1>1, <1>2, <2>2, MovesKeepInFlight
<1>5. CASE FanOutRefused(a)
  <2>1. ~Disturbed => status[m] \notin PreDeliveryStatuses
    BY <1>3, <1>5
       DEF FanOutRefused, ClearedForDelivery, InFlightInv, NumberKept, Disturbed, Kind
  <2>2. pc[a] = "check" /\ status' = status
    BY <1>5 DEF FanOutRefused
  <2>3. ~Disturbed => Carried(m)'
    BY <1>1, <1>2, <1>3, <2>1, <2>2 DEF Carried, Early, Moves
  <2> QED BY <1>1, <1>2, <2>3, MovesKeepInFlight
<1>6. CASE FanOutStart(a)
  <2>1. pc'[a] = "send" /\ status'[m] = "delivering"
    BY <1>1, <1>3, <1>6 DEF FanOutStart
  <2>2. Carried(m)'
    BY <1>3, <2>1 DEF Carried, PreDeliveryStatuses
  <2> QED BY <1>1, <1>2, <2>2, MovesKeepInFlight
<1>7. CASE FanOutFinish(a)
  <2>1. status'[m] \in OutcomeStatuses
    BY <1>1, <1>3, <1>7 DEF FanOutFinish, FanOutStatus, OutcomeStatuses
  <2>2. Carried(m)'
    BY <2>1 DEF Carried, PreDeliveryStatuses, OutcomeStatuses
  <2> QED BY <1>1, <1>2, <2>2, MovesKeepInFlight
<1>8. ASSUME NEW r \in Member, SendOk(a, r) \/ SendFails(a, r) \/ SendTimesOut(a, r)
      PROVE  InFlightInv'
  BY <1>8
     DEF SendOk, SendFails, SendTimesOut, InFlightInv, NumberKept, Disturbed, Carried
<1> QED BY <1>4, <1>5, <1>6, <1>7, <1>8 DEF FanOut

(* The steps of a webhook before its fan-out. *)
LEMMA WebhookKeepsInFlight ==
  ASSUME TypeOK, RoutingInv, InFlightInv, NEW m \in Msg,
         \/ Receive(m) \/ ReadPolicy(m) \/ Process(m) \/ ProcessFails(m)
         \/ LeaveToModerator(m) \/ DecideAutomatic(m) \/ Authorize(m)
  PROVE  InFlightInv'
<1> USE ActorsAreDistinct DEF At, Goto, rows, group, SetStatus, Return, TypeOK
<1>1. m \in Actor /\ job[m] = m
  BY DEF Actor, RoutingInv, Own, Control
<1>2. CASE Receive(m) \/ ReadPolicy(m) \/ Process(m) \/ ProcessFails(m)
  <2>1. Moves(m, m)
    BY <1>1, <1>2 DEF Receive, ReadPolicy, Process, ProcessFails, Moves, Rest
  <2>2. Carried(m)'
    <3>1. CASE Receive(m) \/ ReadPolicy(m)
      <4>1. status'[m] = "received" /\ pc'[m] \in {"created", "process"}
        BY <1>1, <3>1 DEF Receive, ReadPolicy, RoutingInv, Stages
      <4> QED BY <4>1 DEF Carried, PreDeliveryStatuses
    <3>2. CASE Process(m) \/ ProcessFails(m)
      <4>1. status'[m] \in {"awaiting_moderator", "processing_failed"}
        BY <3>2 DEF Process, ProcessFails
      <4> QED BY <4>1 DEF Carried, PreDeliveryStatuses
    <3> QED BY <1>2, <3>1, <3>2
  <2> QED BY <1>1, <2>1, <2>2, MovesKeepInFlight
<1>3. CASE LeaveToModerator(m) \/ DecideAutomatic(m)
  <2>1. Steady(m)
    BY <1>1, <1>3 DEF LeaveToModerator, DecideAutomatic, Steady, Disturbed, Rest, Sending
  <2> QED BY <1>1, <2>1, SteadyKeepsInFlight
<1>4. CASE Authorize(m)
  <2>1. Moves(m, m)
    BY <1>1, <1>4 DEF Authorize, CommitAuthorization, Moves
  <2>2. status'[m] = "auto_authorized" /\ pc'[m] = "check" /\ job'[m] = m
    BY <1>1, <1>4 DEF Authorize, CommitAuthorization
  <2>3. Carried(m)'
    BY <1>1, <2>2 DEF Carried
  <2> QED BY <1>1, <2>1, <2>3, MovesKeepInFlight
<1> QED BY <1>2, <1>3, <1>4

(* The steps of a moderator before the fan-out. *)
LEMMA ModeratorKeepsInFlight ==
  ASSUME TypeOK, RoutingInv, InFlightInv, NEW a \in Mod,
         \/ \E m \in Msg : ApproveLoad(a, m) \/ RejectLoad(a, m)
         \/ Approve(a) \/ Reject(a)
  PROVE  InFlightInv'
<1> USE ActorsAreDistinct DEF At, Goto, rows, group, SetStatus, Return, TypeOK
<1>1. a \in Actor /\ job[a] \in Msg
  BY DEF Actor
<1>2. ASSUME NEW m \in Msg, ApproveLoad(a, m) \/ RejectLoad(a, m) PROVE InFlightInv'
  <2>1. Steady(a)
    BY <1>1, <1>2 DEF ApproveLoad, RejectLoad, Steady, Disturbed, Sending
  <2> QED BY <1>1, <2>1, SteadyKeepsInFlight
<1>3. CASE Approve(a)
  <2>1. Moves(a, job[a])
    BY <1>1, <1>3 DEF Approve, CommitAuthorization, Moves
  <2>2. status'[job[a]] = "approved" /\ pc'[a] = "check" /\ job' = job
    BY <1>1, <1>3 DEF Approve, CommitAuthorization
  <2>3. \A m \in Msg : m = job[a] => Carried(m)'
    BY <1>1, <2>2 DEF Carried
  <2> QED BY <1>1, <2>1, <2>3, MovesKeepInFlight
<1>4. CASE Reject(a)
  <2>1. Moves(a, job[a])
    BY <1>1, <1>4 DEF Reject, Moves, Rest
  <2>2. status'[job[a]] = "moderator_rejected"
    BY <1>1, <1>4 DEF Reject
  <2>3. \A m \in Msg : m = job[a] => Carried(m)'
    BY <2>2 DEF Carried, PreDeliveryStatuses
  <2> QED BY <1>1, <2>1, <2>3, MovesKeepInFlight
<1> QED BY <1>2, <1>3, <1>4

(* A crash or a release is what Disturbed is about; nothing else in the     *)
(* surroundings touches a handler, or takes the number.                     *)
LEMMA EnvironmentKeepsInFlight ==
  ASSUME TypeOK, InFlightInv, Environment
  PROVE  InFlightInv'
<1> USE BoundType DEF TypeOK, Kind, Use
<1>1. ASSUME NEW a \in Actor, Abort(a) PROVE InFlightInv'
  BY <1>1 DEF Abort, InFlightInv, NumberKept, Disturbed, group
<1>2. CASE ReleaseNumber
  BY <1>2 DEF ReleaseNumber, InFlightInv, NumberKept, Disturbed
<1>3. CASE AssignNumber
  BY <1>3 DEF AssignNumber, InFlightInv, NumberKept, Disturbed, Carried, rows, handler
<1>4. ASSUME \/ \E p \in RoutingPolicy : SetRoutingPolicy(p)
             \/ \E r \in Member : SwitchMembership(r)
      PROVE  InFlightInv'
  <2>1. /\ UNCHANGED <<number, status, pc, job>> /\ used'["abort"] = used["abort"]
        /\ used'["release"] = used["release"]
    BY <1>4 DEF SetRoutingPolicy, SwitchMembership, rows, handler
  <2> QED BY <2>1 DEF InFlightInv, NumberKept, Disturbed, Carried
<1> QED BY <1>1, <1>2, <1>3, <1>4 DEF Environment

(* No message is stranded without a crash or a missing number, however many *)
(* handlers work on it.                                                     *)
THEOREM NothingIsStranded == Spec => []InFlightHasHandler
<1>1. Init => InFlightInv
  BY DEF Init, InFlightInv, NumberKept, Carried, PreDeliveryStatuses
<1>2. TypeOK /\ RoutingInv /\ InFlightInv /\ [Next]_vars => InFlightInv'
  <2>1. ASSUME InFlightInv, UNCHANGED vars PROVE InFlightInv'
    BY <2>1 DEF InFlightInv, NumberKept, Disturbed, Carried, vars, rows, group, handler
  <2>2. ASSUME TypeOK, RoutingInv, InFlightInv, NEW a \in Actor, FanOut(a)
        PROVE  InFlightInv'
    BY <2>2, FanOutKeepsInFlight DEF TypeOK
  <2> QED BY <2>1, <2>2, WebhookKeepsInFlight, ModeratorKeepsInFlight,
             EnvironmentKeepsInFlight
          DEF Next, Webhook, Moderate, Actor
<1>3. InFlightInv => InFlightHasHandler
  BY DEF InFlightInv, InFlightHasHandler, Carried
<1> QED BY <1>1, <1>2, <1>3, RoutingInvariant, PTL DEF Spec

-----------------------------------------------------------------------------
(* Routing implements AuthorizedSends: a commit of an authorization is a    *)
(* grant, an accepted provider call is a text, every other step a stutter.  *)
LEMMA InitRefines == Init => Authority!Init
BY DEF Init, Authority!Init

(* Committing an authorization is a grant: this handler gave none before. *)
LEMMA GrantRefines ==
  ASSUME TypeOK, RoutingInv, NEW a \in Actor, NEW s,
         CommitAuthorization(a, s), pc[a] \in {"authorize", "approve"}
  PROVE  Authority!Next
<1>1. job[a] \in Msg /\ plan[a] \in SUBSET Member
  BY DEF TypeOK
<1>2. audit[a][job[a]] = {} /\ plan[a] # {} /\ Sender[job[a]] \notin plan[a]
  BY DEF RoutingInv, Own, Grants
<1>3. plan[a] \in (SUBSET (Member \ {Sender[job[a]]})) \ {{}}
  BY <1>1, <1>2
<1>4. audit' = [audit EXCEPT ![a][job[a]] = plan[a]] /\ UNCHANGED sms
  BY DEF CommitAuthorization
<1>5. Authority!Authorize(a, job[a])
  BY <1>2, <1>3, <1>4 DEF Authority!Authorize
<1> QED BY <1>1, <1>5 DEF Authority!Next

(* An accepted text goes to somebody granted and not texted yet. *)
LEMMA TextRefines ==
  ASSUME TypeOK, RoutingInv, NEW a \in Actor, NEW r \in Member,
         pc[a] = "send", r \in todo[a], Accepted(a, r), UNCHANGED audit
  PROVE  Authority!Next
<1>1. job[a] \in Msg
  BY DEF TypeOK
<1>2. r \in audit[a][job[a]] /\ sms[a][job[a]][r] = 0
  BY DEF RoutingInv, Own, Grants, Loop, Sending
<1>3. sms' = [sms EXCEPT ![a][job[a]][r] = 1]
  BY <1>1, <1>2 DEF Accepted, TypeOK
<1>4. Authority!Send(a, job[a], r)
  BY <1>2, <1>3 DEF Authority!Send
<1> QED BY <1>1, <1>4 DEF Authority!Next

(* Every step is a grant, a text or a stutter of AuthorizedSends. *)
LEMMA StepRefines ==
  TypeOK /\ RoutingInv /\ [Next]_vars => [Authority!Next]_<<audit, sms>>
<1> SUFFICES ASSUME TypeOK, RoutingInv, [Next]_vars
             PROVE  Authority!Next \/ UNCHANGED <<audit, sms>>
  OBVIOUS
<1> DEFINE Refined == Authority!Next \/ UNCHANGED <<audit, sms>>
<1>1. ASSUME NEW a \in Actor, FanOut(a) PROVE Refined
  <2>1. ASSUME NEW r \in Member, SendOk(a, r) \/ SendTimesOut(a, r) PROVE Refined
    BY <2>1, TextRefines DEF SendOk, SendTimesOut, At, rows
  <2>2. ASSUME NEW r \in Member, SendFails(a, r) PROVE Refined
    BY <2>2 DEF SendFails, rows
  <2>3. CASE FanOutCheck(a) \/ FanOutRefused(a) \/ FanOutStart(a) \/ FanOutFinish(a)
    BY <2>3 DEF FanOutCheck, FanOutRefused, FanOutStart, FanOutFinish, rows
  <2> QED BY <1>1, <2>1, <2>2, <2>3 DEF FanOut
<1>2. ASSUME NEW m \in Msg, Receive(m) \/ Webhook(m) PROVE Refined
  <2>1. CASE Authorize(m)
    BY <2>1, GrantRefines DEF Authorize, At, Actor, RoutingInv, Own, Control
  <2>2. CASE Receive(m) \/ ReadPolicy(m) \/ Process(m) \/ ProcessFails(m)
             \/ LeaveToModerator(m) \/ DecideAutomatic(m)
    BY <2>2 DEF Receive, ReadPolicy, Process, ProcessFails,
       LeaveToModerator, DecideAutomatic, rows
  <2> QED BY <1>1, <1>2, <2>1, <2>2 DEF Webhook, Actor
<1>3. ASSUME NEW a \in Mod, Moderate(a) PROVE Refined
  <2>1. CASE Approve(a)
    BY <2>1, GrantRefines DEF Approve, At, Actor
  <2>2. CASE Reject(a)
    BY <2>2 DEF Reject
  <2> QED BY <1>1, <1>3, <2>1, <2>2 DEF Moderate, Actor
<1>4. ASSUME NEW a \in Mod, NEW m \in Msg, ApproveLoad(a, m) \/ RejectLoad(a, m)
      PROVE Refined
  BY <1>4 DEF ApproveLoad, RejectLoad, rows
<1>5. CASE Environment
  BY <1>5 DEF Environment, Abort, SetRoutingPolicy, SwitchMembership,
     ReleaseNumber, AssignNumber, rows
<1>6. CASE UNCHANGED vars
  BY <1>6 DEF vars, rows
<1> QED BY <1>2, <1>3, <1>4, <1>5, <1>6 DEF Next

(* The handlers implement the abstract promise. *)
THEOREM RoutingRefines == Spec => ImplementsAuthorizedSends
<1> QED
  BY InitRefines, StepRefines, RoutingInvariant, PTL
     DEF Spec, ImplementsAuthorizedSends, Authority!Spec
=============================================================================
