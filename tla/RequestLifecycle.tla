-------------------------- MODULE RequestLifecycle --------------------------
(***************************************************************************)
(* How requests stay open and end: the texts that join them and the copies *)
(* that go out, each moving last_activity_at; the moderators who complete  *)
(* or cancel them; and the runs of scripts/sweep_requests.py, which expire *)
(* the quiet ones and those past their lifetime.                           *)
(*                                                                         *)
(* Every handler reads the status of a request and acts on it in a later   *)
(* statement.  Writes are by id, whatever the row has become meanwhile.    *)
(* An updated row is locked until its transaction ends; a transaction that *)
(* updates one row and commits at once is one step here.                   *)
(* The clock of a transaction, func.now(), stands still at its start.      *)
(***************************************************************************)
EXTENDS Integers, Sequences, SequencesExt, FiniteSetsExt

CONSTANTS
  Request,
  Texter,      (* texts of members, each with its own webhook              *)
  Speaker,     (* moderator messages into a request, and fan-outs          *)
  Moderator,   (* calls that complete or cancel a request                  *)
  Sweeper,     (* processes cron starts, again and again                   *)
  Nobody,
  Inactivity,  (* Config.REQUEST_INACTIVITY_AFTER                          *)
  Lifetime,    (* Config.REQUEST_EXPIRES_AFTER                             *)
  MaxTime,     (* the clock stops here                                     *)
  MaxAbort     (* how many transactions may be lost                        *)

ASSUME TimesAssumption ==
  /\ Inactivity \in Nat \ {0} /\ Lifetime \in Nat \ {0}
  /\ MaxTime \in Nat /\ MaxAbort \in Nat
ASSUME NobodyAssumption ==
  Nobody \notin Texter \cup Speaker \cup Moderator \cup Sweeper \cup Request

ASSUME KindsAreDistinct ==
  /\ Sweeper \cap (Texter \cup Speaker \cup Moderator) = {}
  /\ Speaker \cap (Texter \cup Moderator) = {}

Actor == Texter \cup Speaker \cup Moderator \cup Sweeper
Time == 0 .. MaxTime

VARIABLES
  now,
  status,       (* requests.status                                         *)
  activity,     (* requests.last_activity_at                               *)
  completedAt,  (* whether requests.completed_at is set, and cancelled_at  *)
  cancelledAt,
  closings,     (* the closing events of each request, as committed        *)
  lock,         (* the transaction that has updated the row of a request   *)
  pc,
  req,          (* the request each actor has read                         *)
  began,        (* when its transaction began                              *)
  todo,         (* what a sweep has listed and not yet expired ...         *)
  judged        (* ... and the last_activity_at it has read                *)

row == <<status, activity, completedAt, cancelledAt, closings>>
local == <<req, began, todo, judged>>
NothingRead == [r \in Request |-> 0]
VARIABLE aborts
vars == <<now, row, lock, pc, local, aborts>>

-----------------------------------------------------------------------------
Open(r) == status[r] = "open"
At(a, l) == pc[a] = l
Goto(a, l) == pc' = [pc EXCEPT ![a] = l]

(* All requests of a model are as old as its clock. *)
ExpiresAt == Lifetime

(* RequestManager.complete and cancel. *)
ResolvedStatus(act) == IF act = "complete" THEN "completed" ELSE "cancelled"

NeedsCloseFaulty(r) == Open(r) /\ activity[r] + Inactivity <= now

(* list_open_needing_close *)
NeedsClose(r) ==
  Open(r) /\ (ExpiresAt <= now \/ activity[r] + Inactivity <= now)

CloseReasonFaulty(t) ==
  IF ExpiresAt < t THEN "maximum_lifetime" ELSE "inactivity"

(* _close_reason *)
CloseReason(t) == IF ExpiresAt <= t THEN "maximum_lifetime" ELSE "inactivity"

(* The expired event, with what it was judged against.  Of every event, at  *)
(* is created_at, the start of the transaction, by which the trail is       *)
(* ordered when it is read; when it was committed is not stored (history).  *)
Expired(s, r) ==
  [type |-> "expired", reason |-> CloseReason(began[s]),
   activity |-> judged[s][r], at |-> began[s], committed |-> now]

(* The completed or cancelled event: it has no payload. *)
Resolved(m, act) ==
  [type |-> ResolvedStatus(act), reason |-> "moderator", activity |-> 0,
   at |-> began[m], committed |-> now]

Init ==
  /\ now = 0
  /\ status = [r \in Request |-> "open"]
  /\ activity = [r \in Request |-> 0]
  /\ completedAt = [r \in Request |-> FALSE]
  /\ cancelledAt = [r \in Request |-> FALSE]
  /\ closings = [r \in Request |-> <<>>]
  /\ lock = [r \in Request |-> Nobody]
  /\ pc = [a \in Actor |-> "idle"]
  /\ req = [a \in Actor |-> Nobody]
  /\ began = [a \in Actor |-> 0]
  /\ todo = [s \in Sweeper |-> {}]
  /\ judged = [s \in Sweeper |-> NothingRead]
  /\ aborts = 0

(* A transaction of a that has read request r and goes on at l. *)
Begin(a, r, l) ==
  /\ At(a, "idle")
  /\ req' = [req EXCEPT ![a] = r]
  /\ began' = [began EXCEPT ![a] = now]
  /\ Goto(a, l)
  /\ UNCHANGED <<now, row, lock, todo, judged, aborts>>

(* Its end: what it has read is forgotten. *)
Finish(a) ==
  /\ Goto(a, IF a \in Sweeper THEN "idle" ELSE "done")
  /\ req' = [req EXCEPT ![a] = Nobody]
  /\ began' = [began EXCEPT ![a] = 0]
  /\ judged' = [s \in Sweeper |-> IF s = a THEN NothingRead ELSE judged[s]]

(* A message of a enters the request, and _touch_request                   *)
(* sets last_activity_at to the time u of the transaction.                  *)
Enter(a, u) == activity' = [activity EXCEPT ![req[a]] = u]

-----------------------------------------------------------------------------
(* Texts of members *)

(* The only candidate of the text is open: it will be a reply. *)
FindCandidate(x, r) == Open(r) /\ Begin(x, r, "join")

JoinFaulty(x) ==
  /\ At(x, "join") /\ lock[req[x]] = Nobody
  /\ Enter(x, began[x])
  /\ status' = [status EXCEPT ![req[x]] = "open"]
  /\ Finish(x)
  /\ UNCHANGED <<now, completedAt, cancelledAt, closings, lock, todo,
                 aborts>>

(* create_inbound and the commit. *)
Join(x) ==
  /\ At(x, "join") /\ lock[req[x]] = Nobody
  /\ Enter(x, began[x])
  /\ Finish(x)
  /\ UNCHANGED <<now, status, completedAt, cancelledAt, closings, lock, todo,
                 aborts>>

(* Two candidates or more: the text is held, the request offered. *)
AskWhichRequest(x, r) == Open(r) /\ Begin(x, r, "held")

(* The letter comes, in a transaction of its own that begins some time      *)
(* after the question: attach_held_message.                                 *)
HandleChoice(x) ==
  /\ At(x, "held") /\ lock[req[x]] = Nobody
  /\ \E u \in began[x] .. now : Enter(x, u)
  /\ Finish(x)
  /\ UNCHANGED <<now, status, completedAt, cancelledAt, closings, lock, todo,
                 aborts>>

-----------------------------------------------------------------------------
(* Texts to members: the first copy takes the row, the commit comes after   *)
(* the last.                                                                *)

(* send_moderator_message asks for an open request ... *)
SendModeratorMessage(p, r) == Open(r) /\ Begin(p, r, "send")

(* ... and fan_out does not. *)
FanOut(p, r) == Begin(p, r, "send")

SendCopy(p) ==
  /\ At(p, "send") /\ lock[req[p]] = Nobody
  /\ lock' = [lock EXCEPT ![req[p]] = p]
  /\ Goto(p, "sent")
  /\ UNCHANGED <<now, row, local, aborts>>

(* No text went out: nothing is recorded in the request. *)
AllSendsFail(p) ==
  /\ At(p, "send")
  /\ Finish(p)
  /\ UNCHANGED <<now, row, lock, todo,
                 aborts>>

CommitCopies(p) ==
  /\ At(p, "sent")
  /\ Enter(p, began[p])
  /\ lock' = [lock EXCEPT ![req[p]] = Nobody]
  /\ Finish(p)
  /\ UNCHANGED <<now, status, completedAt, cancelledAt, closings, todo, aborts>>

-----------------------------------------------------------------------------
(* Moderators *)

(* _require_open *)
RequireOpen(m, r, act) == Open(r) /\ Begin(m, r, act)

(* The status, its timestamp and the event commit together. *)
Resolve(m, act) ==
  LET r == req[m] IN
  /\ At(m, act) /\ lock[r] = Nobody
  /\ status' = [status EXCEPT ![r] = ResolvedStatus(act)]
  /\ completedAt' = [completedAt EXCEPT ![r] = @ \/ act = "complete"]
  /\ cancelledAt' = [cancelledAt EXCEPT ![r] = @ \/ act = "cancel"]
  /\ closings' = [closings EXCEPT ![r] = Append(@, Resolved(m, act))]
  /\ Finish(m)
  /\ UNCHANGED <<now, activity, lock, todo,
                 aborts>>

-----------------------------------------------------------------------------
(* The sweep *)

(* One list of all that is stale. *)
ListStale(s) ==
  LET stale == {r \in Request : NeedsClose(r)} IN
  /\ At(s, "idle") /\ stale # {}
  /\ began' = [began EXCEPT ![s] = now]
  /\ todo' = [todo EXCEPT ![s] = stale]
  /\ judged' = [judged EXCEPT ![s] = activity]
  /\ Goto(s, "sweep")
  /\ UNCHANGED <<now, row, lock, req, aborts>>

(* expire flushes each in turn, in the order the query happened to give. *)
Expire(s, r) ==
  /\ At(s, "sweep") /\ r \in todo[s] /\ lock[r] = Nobody
  /\ lock' = [lock EXCEPT ![r] = s]
  /\ todo' = [todo EXCEPT ![s] = @ \ {r}]
  /\ UNCHANGED <<now, row, pc, req, began, judged, aborts>>

Holding(a) == {r \in Request : lock[r] = a}
Release(a) == lock' = [r \in Request |-> IF lock[r] = a THEN Nobody ELSE lock[r]]

CommitSweepFaulty(s) ==
  /\ At(s, "sweep") /\ todo[s] = {}
  /\ status' = [r \in Request |->
                  IF lock[r] = s /\ Open(r) THEN "expired" ELSE status[r]]
  /\ closings' = [r \in Request |->
                    IF lock[r] = s THEN Append(closings[r], Expired(s, r))
                                   ELSE closings[r]]
  /\ Release(s)
  /\ Finish(s)
  /\ UNCHANGED <<now, activity, completedAt, cancelledAt,
                 todo, aborts>>

(* One commit for all of them. *)
CommitSweep(s) ==
  /\ At(s, "sweep") /\ todo[s] = {}
  /\ status' = [r \in Request |-> IF lock[r] = s THEN "expired" ELSE status[r]]
  /\ closings' = [r \in Request |->
                    IF lock[r] = s THEN Append(closings[r], Expired(s, r))
                                   ELSE closings[r]]
  /\ Release(s)
  /\ Finish(s)
  /\ UNCHANGED <<now, activity, completedAt, cancelledAt,
                 todo, aborts>>

-----------------------------------------------------------------------------
(* Two sweeps whose next rows are each held by the other: the list is in no *)
(* particular order, so that any row left may be the next.                  *)
Deadlocked(s, v) ==
  /\ todo[s] \cap Holding(v) # {}
  /\ todo[v] \cap Holding(s) # {}

(* The database aborts one of the two, and the row the other waits for is   *)
(* granted to it.                                                           *)
AbortDeadlocked(s, v, r) ==
  /\ s # v /\ Deadlocked(s, v) /\ r \in todo[v] \cap Holding(s)
  /\ lock' = [q \in Request |-> IF q = r THEN v
                               ELSE IF lock[q] = s THEN Nobody ELSE lock[q]]
  /\ todo' = [todo EXCEPT ![s] = {}, ![v] = @ \ {r}]
  /\ Finish(s)
  /\ UNCHANGED <<now, row, aborts>>

(* A process dies in the middle of a transaction, or an error ends it.  A   *)
(* held text is no transaction: it is committed, and its letter may never   *)
(* come.                                                                    *)
Abort(a) ==
  /\ pc[a] \notin {"idle", "held", "done"}
  /\ aborts < MaxAbort /\ aborts' = aborts + 1
  /\ Release(a)
  /\ todo' = [s \in Sweeper |-> IF s = a THEN {} ELSE todo[s]]
  /\ Finish(a)
  /\ UNCHANGED <<now, row>>

Tick ==
  /\ now < MaxTime
  /\ now' = now + 1
  /\ UNCHANGED <<row, lock, pc, local, aborts>>

Sweep(s) ==
  \/ ListStale(s) \/ \E r \in Request : Expire(s, r)
  \/ CommitSweep(s)
  \/ \E v \in Sweeper, r \in Request : AbortDeadlocked(s, v, r)

Text(x) ==
  \/ \E r \in Request : FindCandidate(x, r) \/ AskWhichRequest(x, r)
  \/ Join(x) \/ HandleChoice(x)

Speak(p) ==
  \/ \E r \in Request : SendModeratorMessage(p, r) \/ FanOut(p, r)
  \/ SendCopy(p) \/ AllSendsFail(p) \/ CommitCopies(p)

Moderate(m) ==
  \E act \in {"complete", "cancel"} :
    Resolve(m, act) \/ \E r \in Request : RequireOpen(m, r, act)

Next ==
  \/ Tick
  \/ \E x \in Texter : Text(x)
  \/ \E p \in Speaker : Speak(p)
  \/ \E m \in Moderator : Moderate(m)
  \/ \E s \in Sweeper : Sweep(s)
  \/ \E a \in Actor : Abort(a)

(* Time passes, cron starts the sweep and the sweep runs on, and a handler  *)
(* that holds a row comes to its commit.  Members and moderators need do    *)
(* nothing.                                                                 *)
Fairness ==
  /\ WF_vars(Tick)
  /\ \A s \in Sweeper : WF_vars(Sweep(s))
  /\ \A p \in Speaker : WF_vars(CommitCopies(p))

Spec == Init /\ [][Next]_vars
FairSpec == Spec /\ Fairness

-----------------------------------------------------------------------------
(* Properties *)

ClosedStatus == {"completed", "cancelled", "expired"}
ClosingEvent ==
  [type: ClosedStatus, reason: {"moderator", "maximum_lifetime", "inactivity"},
   activity: Time, at: Time, committed: Time]

(* Types; the columns stay within the constraints of the table. *)
TypeOK ==
  /\ now \in Time
  /\ status \in [Request -> {"open"} \cup ClosedStatus]
  /\ activity \in [Request -> Time]
  /\ completedAt \in [Request -> BOOLEAN]
  /\ cancelledAt \in [Request -> BOOLEAN]
  /\ closings \in [Request -> Seq(ClosingEvent)]
  /\ lock \in [Request -> Speaker \cup Sweeper \cup {Nobody}]
  /\ pc \in [Actor -> {"idle", "join", "held", "send", "sent", "complete",
                       "cancel", "sweep", "done"}]
  /\ req \in [Actor -> Request \cup {Nobody}]
  /\ began \in [Actor -> Time]
  /\ todo \in [Sweeper -> SUBSET Request]
  /\ judged \in [Sweeper -> [Request -> Time]]
  /\ aborts \in 0 .. MaxAbort

(* However many handlers close a request, the status it is left with is     *)
(* that of the closing event committed last, and it has one exactly when it *)
(* is closed.  All that close it overlap: each had begun when the first one *)
(* committed.  The trail as it is read, by created_at, has them in another  *)
(* order if one that began earlier committed later, and may then end in an  *)
(* event that is not the status; only overlapping handlers can do that.     *)
LastCommitted(r) == Last(closings[r])
FirstCommitted(r) == closings[r][1]
ClosingsOverlap ==
  \A r \in Request :
    IF closings[r] = <<>> THEN Open(r)
    ELSE /\ status[r] = LastCommitted(r).type
         /\ \A e \in ToSet(closings[r]) : e.at <= FirstCommitted(r).committed

(* completed_at and cancelled_at are set for the requests a moderator did   *)
(* complete or cancel, also when another handler has closed them since.     *)
TimestampsHaveEvents ==
  \A r \in Request :
    LET types == {e.type : e \in ToSet(closings[r])} IN
    /\ completedAt[r] <=> "completed" \in types
    /\ cancelledAt[r] <=> "cancelled" \in types

(* The payload of an expired event explains it ("both timestamps it was     *)
(* judged against"): past the ceiling, or quiet for the whole period at the *)
(* time of the sweep, whatever has moved between the list and the commit.   *)
ExpiryIsJustified ==
  \A r \in Request : \A e \in ToSet(closings[r]) : e.type = "expired" =>
    IF e.reason = "maximum_lifetime"
      THEN ExpiresAt <= e.at
      ELSE e.at < ExpiresAt /\ e.activity + Inactivity <= e.at

(* What a sweep will still expire, or has updated and not committed, was    *)
(* stale when it was listed; a sweep that is not running holds nothing.     *)
SweepsExpireStale ==
  \A s \in Sweeper, r \in Request : r \in todo[s] \/ lock[r] = s =>
    /\ pc[s] = "sweep"
    /\ ExpiresAt <= began[s] \/ judged[s][r] + Inactivity <= began[s]

(* Whoever may still close r, and the clock of all transactions: a handler  *)
(* that goes on to close a closed request has found it open before.         *)
Closing(a, r) ==
  \/ pc[a] \in {"complete", "cancel"} /\ req[a] = r
  \/ a \in Sweeper /\ (r \in todo[a] \/ lock[r] = a)
ClosersBeganBefore ==
  \A a \in Actor :
    /\ began[a] <= now
    /\ \A r \in Request :
         Closing(a, r) /\ closings[r] # <<>> => began[a] <= FirstCommitted(r).committed

(* The inductive invariant: the trail of each request agrees with its row,  *)
(* and a running sweep is justified in what it is about to write.           *)
LifecycleInv ==
  /\ TypeOK
  /\ ClosingsOverlap
  /\ ClosersBeganBefore
  /\ TimestampsHaveEvents
  /\ SweepsExpireStale
  /\ ExpiryIsJustified

(* No late text, copy or sweep opens a request again. *)
ClosedForGood ==
  [][\A r \in Request : ~Open(r) => status'[r] # "open"]_vars

(* Without any moderator, and whatever the members go on texting, the sweep *)
(* closes every request: a thread that stays open would swallow unrelated   *)
(* texts (sweep_requests.py).                                               *)
EveryRequestCloses == \A r \in Request : <>(~Open(r))
=============================================================================
