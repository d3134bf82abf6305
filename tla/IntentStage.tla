---------------------------- MODULE IntentStage ----------------------------
(***************************************************************************)
(* One request between its creation and the moment its intent is known:    *)
(* intent_service.discover run by background tasks and by the cron sweep,  *)
(* and the webhooks of the replies that come in meanwhile                  *)
(* (inbound_message_service, from the insert of the reply to _defer_reply  *)
(* or _handle_member_reply).  A reply that comes before the intent is      *)
(* marked "deferred", and the worker that makes the request ready claims   *)
(* and records what has been deferred.                                     *)
(*                                                                         *)
(* Reads take no lock.  An UPDATE of the request row keeps the row locked  *)
(* until its transaction ends, and every insert of a message updates it    *)
(* (_touch_request): that is the one lock modelled.                        *)
(***************************************************************************)
EXTENDS Naturals, FiniteSets

CONSTANTS
  Reply,    (* the replies to the request, each with its own webhook       *)
  Chosen,   (* those that arrive as a letter answering a question          *)
  Worker,   (* runs of IntentService.discover: background tasks and sweeps *)
  Nobody,
  MaxFail,  (* how often an analysis may raise                             *)
  MaxCrash  (* how often a process may die                                 *)

ASSUME ActorsAssumption ==
  /\ Chosen \subseteq Reply
  /\ Reply \cap Worker = {}
  /\ Nobody \notin Reply \cup Worker
ASSUME BoundsAssumption == MaxFail \in Nat /\ MaxCrash \in Nat

Actor == Reply \cup Worker

VARIABLES
  intent,    (* requests.intent_status                                     *)
  analysis,  (* whose analysis is in the columns of the request            *)
  notes,     (* messages.processing_notes of each reply                    *)
  recorders, (* who has committed the record of each reply (history)       *)
  lock,      (* the transaction that has updated the request row           *)
  pc,
  batch,     (* the deferred replies a worker has read, then claimed       *)
  fails, crashes

stored == <<intent, analysis, notes, recorders>>
vars == <<stored, lock, pc, batch, fails, crashes>>

-----------------------------------------------------------------------------
Unfinished == {"pending", "failed"}

(* What create gives a new request. *)
InitialIntent == "pending"

(* intent_blocks_reply *)
IntentBlocksReply == intent \in Unfinished

DeferredFaulty == {r \in Reply : notes[r] \in {"null", "deferred"}}

(* The replies claim_deferred_replies may take. *)
Deferred == {r \in Reply : notes[r] = "deferred"}

At(a, l) == pc[a] = l
Goto(a, l) == pc' = [pc EXCEPT ![a] = l]
Note(R, n) == notes' = [r \in Reply |-> IF r \in R THEN n ELSE notes[r]]

Init ==
  /\ intent = InitialIntent
  /\ analysis = Nobody
  /\ notes = [r \in Reply |-> "absent"]
  /\ recorders = [r \in Reply |-> {}]
  /\ lock = Nobody
  /\ pc = [a \in Actor |-> IF a \in Reply THEN "none" ELSE "idle"]
  /\ batch = [w \in Worker |-> {}]
  /\ fails = 0
  /\ crashes = 0

-----------------------------------------------------------------------------
(* The webhook of a reply *)

(* The reply joins the request: the row is inserted, the request touched,   *)
(* and both committed.  A chosen reply is the held message attached.        *)
Arrive(r) ==
  /\ At(r, "none") /\ lock = Nobody
  /\ Note({r}, "null")
  /\ Goto(r, IF r \in Chosen THEN "record" ELSE "created")
  /\ UNCHANGED <<intent, analysis, recorders, lock, batch, fails, crashes>>

(* After that commit the intent is read ... *)
Look(r) ==
  /\ At(r, "created")
  /\ Goto(r, IF IntentBlocksReply THEN "defer" ELSE "record")
  /\ UNCHANGED <<stored, lock, batch, fails, crashes>>

(* ... and what was read decides, whatever has been committed since. *)
Defer(r) ==
  /\ At(r, "defer")
  /\ Note({r}, "deferred")
  /\ Goto(r, "done")
  /\ UNCHANGED <<intent, analysis, recorders, lock, batch, fails, crashes>>

(* _handle_member_reply: an unconditional write, except that a row already  *)
(* recorded is left alone.                                                  *)
HandleMemberReply(a, r) ==
  /\ Note({r}, "recorded")
  /\ recorders' = [recorders EXCEPT ![r] =
                     IF notes[r] = "recorded" THEN @ ELSE @ \cup {a}]

Record(r) ==
  /\ At(r, "record")
  /\ HandleMemberReply(r, r)
  /\ Goto(r, "done")
  /\ UNCHANGED <<intent, analysis, lock, batch, fails, crashes>>

-----------------------------------------------------------------------------
(* A worker *)

StartFaulty(w) ==
  /\ At(w, "idle") /\ intent = "pending"
  /\ Goto(w, "analyze")
  /\ UNCHANGED <<stored, lock, batch, fails, crashes>>

(* discover skips a request that is ready. *)
Start(w) ==
  /\ At(w, "idle") /\ intent \in Unfinished
  /\ Goto(w, "analyze")
  /\ UNCHANGED <<stored, lock, batch, fails, crashes>>

MarkIntentFailedFaulty == intent' = "failed"

(* mark_intent_failed: one conditional UPDATE, so ready stays ready. *)
MarkIntentFailed ==
  intent' = IF intent \in Unfinished THEN "failed" ELSE intent

AnalysisFails(w) ==
  /\ At(w, "analyze") /\ lock = Nobody
  /\ fails < MaxFail /\ fails' = fails + 1
  /\ MarkIntentFailed
  /\ Goto(w, "idle")
  /\ UNCHANGED <<analysis, notes, recorders, lock, batch, crashes>>

(* apply_analysis flushes the columns, which takes the row. *)
Apply(w) ==
  /\ At(w, "analyze") /\ lock = Nobody
  /\ lock' = w
  /\ Goto(w, "claim")
  /\ UNCHANGED <<stored, batch, fails, crashes>>

(* claim_intent_ready updated no row: another worker was first, and the     *)
(* rollback takes the flushed columns back.                                 *)
ClaimLost(w) ==
  /\ At(w, "claim") /\ intent \notin Unfinished
  /\ lock' = Nobody
  /\ Goto(w, "idle")
  /\ UNCHANGED <<stored, batch, fails, crashes>>

(* It updated the row: read what is deferred now ... *)
ClaimWon(w) ==
  /\ At(w, "claim") /\ intent \in Unfinished
  /\ batch' = [batch EXCEPT ![w] = Deferred]
  /\ Goto(w, "commit")
  /\ UNCHANGED <<stored, lock, fails, crashes>>

(* ... and commit the analysis, the flip and the claims together. *)
CommitReady(w) ==
  /\ At(w, "commit")
  /\ intent' = "ready"
  /\ analysis' = w
  /\ Note(batch[w], "claimed")
  /\ lock' = Nobody
  /\ Goto(w, "record")
  /\ UNCHANGED <<recorders, batch, fails, crashes>>

(* One commit for each claimed reply. *)
RecordClaimed(w, r) ==
  /\ At(w, "record") /\ r \in batch[w]
  /\ HandleMemberReply(w, r)
  /\ batch' = [batch EXCEPT ![w] = @ \ {r}]
  /\ UNCHANGED <<intent, analysis, lock, pc, fails, crashes>>

Finish(w) ==
  /\ At(w, "record") /\ batch[w] = {}
  /\ Goto(w, "idle")
  /\ UNCHANGED <<stored, lock, batch, fails, crashes>>

-----------------------------------------------------------------------------
(* A process dies, or an exception ends the run: the open transaction is    *)
(* rolled back and its locks are released.                                  *)
Crash(a) ==
  /\ pc[a] \notin {"none", "idle", "done"}
  /\ crashes < MaxCrash /\ crashes' = crashes + 1
  /\ lock' = IF lock = a THEN Nobody ELSE lock
  /\ Goto(a, IF a \in Reply THEN "done" ELSE "idle")
  /\ batch' = [w \in Worker |-> IF w = a THEN {} ELSE batch[w]]
  /\ UNCHANGED <<stored, fails>>

Webhook(r) == Arrive(r) \/ Look(r) \/ Defer(r) \/ Record(r)

Discover(w) ==
  \/ Start(w) \/ AnalysisFails(w) \/ Apply(w) \/ ClaimLost(w) \/ ClaimWon(w)
  \/ CommitReady(w) \/ \E r \in Reply : RecordClaimed(w, r)
  \/ Finish(w)

Next ==
  \/ \E r \in Reply : Webhook(r)
  \/ \E w \in Worker : Discover(w)
  \/ \E a \in Actor : Crash(a)

(* A webhook that has inserted its reply runs on.  The sweep starts a       *)
(* worker again and again, and each of its runs gets the row in the end.    *)
Fairness ==
  /\ \A r \in Reply : WF_vars(Look(r) \/ Defer(r) \/ Record(r))
  /\ \A w \in Worker : SF_vars(Apply(w)) /\ WF_vars(Discover(w))

Spec == Init /\ [][Next]_vars
FairSpec == Spec /\ Fairness

-----------------------------------------------------------------------------
(* Properties *)

(* Types, and the places of webhooks and workers. *)
TypeOK ==
  /\ intent \in {"pending", "failed", "ready"}
  /\ analysis \in Worker \cup {Nobody}
  /\ notes \in [Reply -> {"absent", "null", "deferred", "claimed", "recorded"}]
  /\ recorders \in [Reply -> SUBSET Actor]
  /\ lock \in Worker \cup {Nobody}
  /\ pc \in [Actor -> {"none", "created", "defer", "record", "done",
                       "idle", "analyze", "claim", "commit"}]
  /\ batch \in [Worker -> SUBSET Reply]
  /\ fails \in Nat /\ crashes \in Nat

(* intent_status.py: "Flipping this note is the claim, so the webhook and   *)
(* the worker cannot both record the same reply" - nor two workers.         *)
RecordedByOneActor ==
  \A r \in Reply :
    /\ Cardinality(recorders[r]) <= 1
    /\ \A a \in Actor : a \in recorders[r] => a = r \/ a = analysis

(* Once ready, for good: no late failure and no slower worker takes the     *)
(* flip or the analysis it was committed with back ("The status flip and    *)
(* the analysis columns commit together").                                  *)
ReadyIsFinal ==
  [][intent = "ready" => intent' = "ready" /\ analysis' = analysis]_vars

(* A reply whose sender was not asked which request it answers is on record *)
(* only when its request has a committed description to be read with.       *)
RecordedAfterReady ==
  \A r \in Reply \ Chosen : notes[r] \in {"claimed", "recorded"} =>
    intent = "ready" /\ analysis # Nobody

(* The sweep gets there: a request does not stay without an intent, however *)
(* the workers collide, as long as analyses do not raise for ever.          *)
IntentBecomesReady == <>(intent = "ready")

(* A claimed reply still has the one worker that will record it, unless     *)
(* that worker died; and only the worker that made the request ready has.   *)
ClaimedHasItsWorker ==
  \A r \in Reply : notes[r] = "claimed" /\ crashes = 0 =>
    \E w \in Worker : /\ pc[w] = "record" /\ r \in batch[w] /\ w = analysis
                      /\ \A v \in Worker \ {w} : r \notin batch[v]

-----------------------------------------------------------------------------
(* What the repository says and the code does not do *)

(* _defer_reply: "Keep the reply on its request until intent is committed"; *)
(* intent_blocks_reply: "... instead of deferring forever".                 *)
DeferredIsRecorded ==
  \A r \in Reply : (notes[r] = "deferred") ~> (notes[r] = "recorded")
=============================================================================
