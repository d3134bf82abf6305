---------------------------- MODULE RequestsPage ----------------------------
(***************************************************************************)
(* The page on which a moderator reads requests and decides (Requests.tsx  *)
(* of the web application).  Clicking through requests, and the reload     *)
(* after each action, leave requests to the API under way that are         *)
(* answered in any order or fail; meanwhile texts arrive and other         *)
(* moderators decide.  All of it shares one detail, one approval block     *)
(* and one flag busy.                                                      *)
(*                                                                         *)
(* A request has one message that may wait for a decision, its original,   *)
(* which is named like the request.  Approving and rejecting are one       *)
(* action, so are completing and cancelling.  Drafts, the choice of        *)
(* recipients and the rows of the list are left out, but not what loading  *)
(* the list does to busy.                                                  *)
(***************************************************************************)
EXTENDS Naturals, FiniteSets

CONSTANTS
  Request,
  Slot,        (* what the page may be waiting for at once                 *)
  None,
  MaxClick,    (* bound on what the moderator does                         *)
  MaxLost      (* bound on requests to the API that fail                   *)

(* A thread on screen, and a call of the API. *)
Detail == [id : Request, waiting : BOOLEAN]
Call == [kind : {"list", "thread", "message", "decide", "other"},
         id : Request \cup {None},
         with : Request \cup Slot \cup {None, "over"},
         current : BOOLEAN,
         answer : {None, "none", "waiting", "decided", "ok", "error"}]

ASSUME NoneAssumption == None \notin Request \cup Slot \cup Detail \cup Call
ASSUME BoundsAssumption == MaxClick \in Nat /\ MaxLost \in Nat

VARIABLES
  message,     (* the message of each request, on the server               *)
  selected,    (* selectedId: the request in the address of the page       *)
  detail,      (* the thread that was loaded                               *)
  pending,     (* whose approval block is up                               *)
  busy,
  call,        (* what is under way                                        *)
  strayed,     (* an action reloaded a request that was left (history)     *)
  missed,      (* the newest load has failed (history)                     *)
  clicks, lost

pane == <<selected, detail, pending>>
history == <<strayed, missed>>
vars == <<message, pane, busy, call, history, clicks, lost>>

Action == {"decide", "other"}   (* "other": send, complete, cancel        *)

-----------------------------------------------------------------------------
Free(s) == call[s] = None
Waiting(r) == message[r] = "waiting"

(* A call of the page about request r.  A load is current until a newer one *)
(* begins (its token is detailToken.current).  with is what else it has to  *)
(* remember: a decision the message it is about; a load the load of the     *)
(* list that the same action has begun, or "over" when that has ended.      *)
Calling(kind, r, with) ==
  [kind |-> kind, id |-> r, with |-> with, current |-> TRUE, answer |-> None]

Loading == {s \in Slot : ~Free(s) /\ call[s].kind \in {"thread", "message"}}
Answered(s, kind) == ~Free(s) /\ call[s].kind = kind /\ call[s].answer # None
Failed(s) == call[s].answer = "error"

(* loadDetail supersedes every load that is under way. *)
LoadDetail(s, r, with) ==
  [o \in Slot |-> IF o = s THEN Calling("thread", r, with)
                  ELSE IF o \in Loading THEN [call[o] EXCEPT !.current = FALSE]
                  ELSE call[o]]

(* The pane is drawn only for a detail of the selected request. *)
Shown == detail # None /\ detail.id = selected

Click == clicks < MaxClick /\ clicks' = clicks + 1

(* The page opens without a request, and loads the list. *)
Init ==
  /\ message \in [Request -> {"none", "waiting"}]
  /\ selected = None /\ detail = None /\ pending = None
  /\ busy = TRUE
  /\ \E s \in Slot :
       call = [[o \in Slot |-> None] EXCEPT ![s] = Calling("list", None, None)]
  /\ strayed = FALSE /\ missed = FALSE
  /\ clicks = 0 /\ lost = 0

-----------------------------------------------------------------------------
(* The moderator *)

SelectFaulty(s, r) ==
  /\ r # selected /\ Free(s) /\ Click
  /\ selected' = r
  /\ call' = LoadDetail(s, r, None)
  /\ busy' = TRUE
  /\ strayed' = FALSE /\ missed' = FALSE
  /\ UNCHANGED <<message, detail, pending, lost>>

(* selectRequest, and the effect of the new selectedId. *)
Select(s, r) ==
  /\ r # selected /\ Free(s) /\ Click
  /\ selected' = r
  /\ pending' = None
  /\ call' = LoadDetail(s, r, None)
  /\ busy' = TRUE
  /\ strayed' = FALSE /\ missed' = FALSE
  /\ UNCHANGED <<message, detail, lost>>

(* A click on the selected request leaves it; loads of it go on. *)
Deselect ==
  /\ selected # None /\ Click
  /\ selected' = None /\ detail' = None /\ pending' = None
  /\ UNCHANGED <<message, busy, call, history, lost>>

(* The buttons call the API unless the page is busy: onApprove and onReject *)
(* for the message of the block, onSend and onResolve for the thread.       *)
Act(s, act) ==
  /\ Shown /\ ~busy /\ Free(s) /\ Click
  /\ act = "decide" => pending # None
  /\ busy' = TRUE
  /\ call' = [call EXCEPT ![s] =
       Calling(act, detail.id, IF act = "decide" THEN pending ELSE None)]
  /\ UNCHANGED <<message, pane, history, lost>>

Refresh(s) ==
  /\ ~busy /\ Free(s) /\ Click
  /\ busy' = TRUE
  /\ call' = [call EXCEPT ![s] = Calling("list", None, None)]
  /\ UNCHANGED <<message, pane, history, lost>>

-----------------------------------------------------------------------------
(* The server, and the other moderators *)

Arrive(r) ==
  /\ message[r] = "none"
  /\ message' = [message EXCEPT ![r] = "waiting"]
  /\ UNCHANGED <<pane, busy, call, history, clicks, lost>>

DecideElsewhere(r) ==
  /\ Waiting(r)
  /\ message' = [message EXCEPT ![r] = "decided"]
  /\ UNCHANGED <<pane, busy, call, history, clicks, lost>>

Answer(s, a) == call' = [call EXCEPT ![s].answer = a]

(* A thread comes with the status of its message; a decision is refused     *)
(* unless the message waits for one.                                        *)
Serve(s) ==
  /\ ~Free(s) /\ call[s].answer = None
  /\ CASE call[s].kind = "thread" ->
            Answer(s, message[call[s].id]) /\ UNCHANGED message
       [] call[s].kind = "decide" ->
            IF Waiting(call[s].with)
            THEN /\ message' = [message EXCEPT ![call[s].with] = "decided"]
                 /\ Answer(s, "ok")
            ELSE Answer(s, "error") /\ UNCHANGED message
       [] OTHER -> Answer(s, "ok") /\ UNCHANGED message
  /\ UNCHANGED <<pane, busy, history, clicks, lost>>

(* A call, or its answer, is lost. *)
Lose(s) ==
  /\ ~Free(s) /\ ~Failed(s) /\ lost < MaxLost
  /\ lost' = lost + 1
  /\ Answer(s, "error")
  /\ UNCHANGED <<message, pane, busy, history, clicks>>

-----------------------------------------------------------------------------
(* The answers *)

EndFaulty(s) ==
  /\ call' = [call EXCEPT ![s] = None]
  /\ busy' = (busy /\ Failed(s))

(* The finally of a call that is not superseded. *)
End(s) ==
  /\ call' = [call EXCEPT ![s] = None]
  /\ busy' = FALSE

(* The list is there.  If its action has reloaded a thread as well, the end *)
(* of that load is the end of the action.                                   *)
LandList(s) ==
  /\ Answered(s, "list")
  /\ call' = [o \in Slot |->
       IF o = s THEN None
       ELSE IF o \in Loading /\ call[o].with = s THEN [call[o] EXCEPT !.with = "over"]
       ELSE call[o]]
  /\ busy' = FALSE
  /\ UNCHANGED <<message, pane, history, clicks, lost>>

LandThreadFaulty(s) ==
  /\ Answered(s, "thread") /\ ~Failed(s)
  /\ detail' = [id |-> call[s].id, waiting |-> call[s].answer = "waiting"]
  /\ IF call[s].answer = "waiting"
     THEN /\ call' = [call EXCEPT ![s] = [@ EXCEPT !.kind = "message", !.answer = None]]
          /\ UNCHANGED <<pending, busy>>
     ELSE /\ pending' = None
          /\ End(s)
  /\ UNCHANGED <<message, selected, history, clicks, lost>>

(* A thread is shown; if its message waits, that is fetched too, for the    *)
(* approval block.                                                          *)
LandThread(s) ==
  /\ Answered(s, "thread") /\ ~Failed(s) /\ call[s].current
  /\ detail' = [id |-> call[s].id, waiting |-> call[s].answer = "waiting"]
  /\ IF call[s].answer = "waiting"
     THEN /\ call' = [call EXCEPT ![s] = [@ EXCEPT !.kind = "message", !.answer = None]]
          /\ UNCHANGED <<pending, busy>>
     ELSE /\ pending' = None
          /\ End(s)
  /\ UNCHANGED <<message, selected, history, clicks, lost>>

LandMessage(s) ==
  /\ Answered(s, "message") /\ ~Failed(s) /\ call[s].current
  /\ pending' = call[s].id
  /\ End(s)
  /\ UNCHANGED <<message, selected, detail, history, clicks, lost>>

MissLoad(s) ==
  /\ s \in Loading /\ Failed(s) /\ call[s].current
  /\ missed' = TRUE
  /\ End(s)
  /\ UNCHANGED <<message, pane, strayed, clicks, lost>>

(* A load that is superseded does nothing, but the action it ends does. *)
Drop(s) ==
  /\ s \in Loading /\ call[s].answer # None /\ ~call[s].current
  /\ call' = [call EXCEPT ![s] = None]
  /\ busy' = (busy /\ call[s].with # "over")
  /\ UNCHANGED <<message, pane, history, clicks, lost>>

(* An action that has failed leaves everything in place ... *)
ActionFails(s) ==
  /\ ~Free(s) /\ call[s].kind \in Action /\ Failed(s)
  /\ End(s)
  /\ UNCHANGED <<message, pane, history, clicks, lost>>

(* ... and one that has succeeded reloads its request (not the selected     *)
(* one) and the list: refreshAfterAction.                                   *)
ActionDone(s, t) ==
  LET r == call[s].id IN
  /\ ~Free(s) /\ call[s].kind \in Action /\ call[s].answer = "ok" /\ Free(t)
  /\ call' = [LoadDetail(t, r, s) EXCEPT ![s] = Calling("list", None, None)]
  /\ busy' = TRUE
  /\ strayed' = (strayed \/ r # selected)
  /\ missed' = FALSE
  /\ UNCHANGED <<message, selected, detail, pending, clicks, lost>>

Land(s) ==
  \/ LandList(s) \/ LandThread(s) \/ LandMessage(s) \/ MissLoad(s) \/ Drop(s)
  \/ ActionFails(s) \/ \E t \in Slot : ActionDone(s, t)

Next ==
  \/ \E r \in Request : Arrive(r) \/ DecideElsewhere(r)
  \/ Deselect
  \/ \E s \in Slot :
       \/ \E r \in Request : Select(s, r)
       \/ \E act \in Action : Act(s, act)
       \/ Refresh(s) \/ Serve(s) \/ Lose(s) \/ Land(s)

Spec == Init /\ [][Next]_vars

-----------------------------------------------------------------------------
(* Properties *)

(* The approval block "is keyed to a message id, so leaving it up while the *)
(* next request loads would offer Approve for a message that is not in the  *)
(* thread on screen": however the answers are ordered, the thread that is   *)
(* drawn and the message to be decided are of one request - unless, since   *)
(* the last click on a request, an action has reloaded one that was left.   *)
ApprovalIsOfTheThread ==
  Shown /\ pending # None /\ ~strayed => pending = selected

(* "Without this token the slowest response wins and the pane shows a       *)
(* request the moderator has already navigated away from": when no load is  *)
(* under way, and none was missed, the pane shows the selected request, and *)
(* offers its message exactly if the thread says that it waits.  Again it   *)
(* is not claimed once an action has reloaded a request the moderator had   *)
(* left (strayed): that newest load does land over the selected one.        *)
PaneComesToSelected ==
  /\ selected # None /\ ~strayed /\ ~missed
  /\ \A s \in Loading : ~call[s].current
  => Shown /\ pending = IF detail.waiting THEN selected ELSE None

(* The one flag that overlapping calls set and clear is clear when none is  *)
(* under way: the buttons come back, whatever was superseded or failed.     *)
IdleIsNotBusy == (\A s \in Slot : Free(s)) => ~busy
=============================================================================
