---------------------------- MODULE IntentProofs ----------------------------
(***************************************************************************)
(* What holds of IntentStage for any number of replies and workers, of     *)
(* failures and of crashes.                                                *)
(***************************************************************************)
EXTENDS IntentStage, FiniteSetTheorems, TLAPS

(* Where a webhook is, and what its reply looks like there.  Only a reply   *)
(* whose webhook is done can be deferred, and none with a chosen request.   *)
WebhooksInv ==
  \A r \in Reply :
    /\ pc[r] \in {"none", "created", "defer", "record", "done"}
    /\ pc[r] = "none" => notes[r] = "absent"
    /\ pc[r] \in {"created", "defer", "record"} => notes[r] = "null"
    /\ pc[r] \in {"created", "defer"} \/ notes[r] \in {"deferred", "claimed"} =>
         r \notin Chosen
    /\ notes[r] # "recorded" => recorders[r] = {}

(* A webhook that goes on to record has seen the request ready. *)
RecordsAfterReady ==
  \A r \in Reply \ Chosen :
    pc[r] = "record" \/ notes[r] \in {"claimed", "recorded"} => intent = "ready"

(* The analysis is there when the flip is. *)
FlipHasAnalysis == intent = "ready" <=> analysis # Nobody

(* Where a worker is, and what it holds there.  Of the workers the lock     *)
(* lets one be between its flush and its commit, and only the one that      *)
(* committed has claimed replies left.                                      *)
WorkersInv ==
  \A w \in Worker :
    /\ pc[w] \in {"idle", "analyze", "claim", "commit", "record"}
    /\ pc[w] \in {"claim", "commit"} => lock = w
    /\ pc[w] \in {"idle", "analyze", "claim"} => batch[w] = {}
    /\ pc[w] = "commit" => intent \in Unfinished /\ batch[w] \subseteq Deferred
    /\ pc[w] = "record" => intent = "ready" /\ analysis = w
                           /\ \A r \in batch[w] : notes[r] = "claimed"

(* A claimed reply is still in the batch of the worker that claimed it.     *)
ClaimedInBatch ==
  crashes = 0 => \A r \in Reply : notes[r] = "claimed" =>
    \E w \in Worker : pc[w] = "record" /\ r \in batch[w]

IntentInv ==
  /\ TypeOK /\ WebhooksInv /\ RecordsAfterReady /\ FlipHasAnalysis /\ WorkersInv
  /\ ClaimedInBatch /\ RecordedByOneActor

-----------------------------------------------------------------------------
(* Nothing has happened yet. *)
LEMMA InitInv == Init => IntentInv
<1> SUFFICES ASSUME Init PROVE IntentInv
  OBVIOUS
<1> USE ActorsAssumption DEF Init, InitialIntent, Actor, Unfinished
<1>1. TypeOK
  BY DEF TypeOK
<1>2. WebhooksInv /\ RecordsAfterReady /\ FlipHasAnalysis /\ ClaimedInBatch
  BY DEF WebhooksInv, RecordsAfterReady, FlipHasAnalysis, ClaimedInBatch
<1>3. WorkersInv
  BY DEF WorkersInv, Deferred
<1>4. RecordedByOneActor
  BY FS_EmptySet DEF RecordedByOneActor
<1> QED BY <1>1, <1>2, <1>3, <1>4 DEF IntentInv

(* Every step has its types. *)
LEMMA NextTypeOK ==
  ASSUME TypeOK, Next
  PROVE  TypeOK'
<1> USE ActorsAssumption DEF TypeOK, Actor, At, Goto, Note, Unfinished, stored
<1>1. ASSUME NEW r \in Reply, Arrive(r) PROVE TypeOK'
  BY <1>1 DEF Arrive
<1>2. ASSUME NEW r \in Reply, Look(r) PROVE TypeOK'
  BY <1>2 DEF Look, IntentBlocksReply
<1>3. ASSUME NEW r \in Reply, Defer(r) PROVE TypeOK'
  BY <1>3 DEF Defer
<1>4. ASSUME NEW r \in Reply, Record(r) PROVE TypeOK'
  BY <1>4 DEF Record, HandleMemberReply
<1>5. ASSUME NEW w \in Worker, Start(w) PROVE TypeOK'
  BY <1>5 DEF Start
<1>6. ASSUME NEW w \in Worker, AnalysisFails(w) PROVE TypeOK'
  BY <1>6 DEF AnalysisFails, MarkIntentFailed
<1>7. ASSUME NEW w \in Worker, Apply(w) PROVE TypeOK'
  BY <1>7 DEF Apply
<1>8. ASSUME NEW w \in Worker, ClaimLost(w) PROVE TypeOK'
  BY <1>8 DEF ClaimLost
<1>9. ASSUME NEW w \in Worker, ClaimWon(w) PROVE TypeOK'
  BY <1>9 DEF ClaimWon, Deferred
<1>10. ASSUME NEW w \in Worker, CommitReady(w) PROVE TypeOK'
  BY <1>10 DEF CommitReady
<1>11. ASSUME NEW w \in Worker, NEW r \in Reply, RecordClaimed(w, r) PROVE TypeOK'
  BY <1>11 DEF RecordClaimed, HandleMemberReply
<1>12. ASSUME NEW w \in Worker, Finish(w) PROVE TypeOK'
  BY <1>12 DEF Finish
<1>13. ASSUME NEW a \in Actor, Crash(a) PROVE TypeOK'
  BY <1>13 DEF Crash
<1> QED
  BY <1>1, <1>2, <1>3, <1>4, <1>5, <1>6, <1>7,
     <1>8, <1>9, <1>10, <1>11, <1>12, <1>13
     DEF Next, Webhook, Discover

(* A reply and its webhook go together. *)
LEMMA NextWebhooks ==
  ASSUME IntentInv, TypeOK', Next
  PROVE  WebhooksInv'
<1> USE ActorsAssumption DEF IntentInv, TypeOK, Actor, Deferred, At, Goto, Note, Unfinished,
       stored, WebhooksInv, WorkersInv
<1>1. ASSUME NEW r \in Reply, Arrive(r) PROVE WebhooksInv'
  BY <1>1 DEF Arrive
<1>2. ASSUME NEW r \in Reply, Look(r) PROVE WebhooksInv'
  BY <1>2 DEF Look, IntentBlocksReply
<1>3. ASSUME NEW r \in Reply, Defer(r) PROVE WebhooksInv'
  BY <1>3 DEF Defer
<1>4. ASSUME NEW r \in Reply, Record(r) PROVE WebhooksInv'
  BY <1>4 DEF Record, HandleMemberReply
<1>5. ASSUME NEW w \in Worker, Start(w) PROVE WebhooksInv'
  BY <1>5 DEF Start
<1>6. ASSUME NEW w \in Worker, AnalysisFails(w) PROVE WebhooksInv'
  BY <1>6 DEF AnalysisFails, MarkIntentFailed
<1>7. ASSUME NEW w \in Worker, Apply(w) PROVE WebhooksInv'
  BY <1>7 DEF Apply
<1>8. ASSUME NEW w \in Worker, ClaimLost(w) PROVE WebhooksInv'
  BY <1>8 DEF ClaimLost
<1>9. ASSUME NEW w \in Worker, ClaimWon(w) PROVE WebhooksInv'
  BY <1>9 DEF ClaimWon
<1>10. ASSUME NEW w \in Worker, CommitReady(w) PROVE WebhooksInv'
  BY <1>10 DEF CommitReady
<1>11. ASSUME NEW w \in Worker, NEW r \in Reply, RecordClaimed(w, r) PROVE WebhooksInv'
  BY <1>11 DEF RecordClaimed, HandleMemberReply
<1>12. ASSUME NEW w \in Worker, Finish(w) PROVE WebhooksInv'
  BY <1>12 DEF Finish
<1>13. ASSUME NEW a \in Actor, Crash(a) PROVE WebhooksInv'
  BY <1>13 DEF Crash
<1> QED
  BY <1>1, <1>2, <1>3, <1>4, <1>5, <1>6, <1>7,
     <1>8, <1>9, <1>10, <1>11, <1>12, <1>13
     DEF Next, Webhook, Discover

(* What is recorded was recorded after the flip. *)
LEMMA NextRecords ==
  ASSUME IntentInv, TypeOK', Next
  PROVE  RecordsAfterReady'
<1> USE ActorsAssumption DEF IntentInv, TypeOK, Actor, Deferred, At, Goto, Note, Unfinished,
       stored, WebhooksInv, RecordsAfterReady, WorkersInv, FlipHasAnalysis
<1>1. ASSUME NEW r \in Reply, Arrive(r) PROVE RecordsAfterReady'
  BY <1>1 DEF Arrive
<1>2. ASSUME NEW r \in Reply, Look(r) PROVE RecordsAfterReady'
  BY <1>2 DEF Look, IntentBlocksReply
<1>3. ASSUME NEW r \in Reply, Defer(r) PROVE RecordsAfterReady'
  BY <1>3 DEF Defer
<1>4. ASSUME NEW r \in Reply, Record(r) PROVE RecordsAfterReady'
  BY <1>4 DEF Record, HandleMemberReply
<1>5. ASSUME NEW w \in Worker, Start(w) PROVE RecordsAfterReady'
  BY <1>5 DEF Start
<1>6. ASSUME NEW w \in Worker, AnalysisFails(w) PROVE RecordsAfterReady'
  BY <1>6 DEF AnalysisFails, MarkIntentFailed
<1>7. ASSUME NEW w \in Worker, Apply(w) PROVE RecordsAfterReady'
  BY <1>7 DEF Apply
<1>8. ASSUME NEW w \in Worker, ClaimLost(w) PROVE RecordsAfterReady'
  BY <1>8 DEF ClaimLost
<1>9. ASSUME NEW w \in Worker, ClaimWon(w) PROVE RecordsAfterReady'
  BY <1>9 DEF ClaimWon
<1>10. ASSUME NEW w \in Worker, CommitReady(w) PROVE RecordsAfterReady'
  BY <1>10 DEF CommitReady
<1>11. ASSUME NEW w \in Worker, NEW r \in Reply, RecordClaimed(w, r) PROVE RecordsAfterReady'
  BY <1>11 DEF RecordClaimed, HandleMemberReply
<1>12. ASSUME NEW w \in Worker, Finish(w) PROVE RecordsAfterReady'
  BY <1>12 DEF Finish
<1>13. ASSUME NEW a \in Actor, Crash(a) PROVE RecordsAfterReady'
  BY <1>13 DEF Crash
<1> QED
  BY <1>1, <1>2, <1>3, <1>4, <1>5, <1>6, <1>7,
     <1>8, <1>9, <1>10, <1>11, <1>12, <1>13
     DEF Next, Webhook, Discover

(* Flip and analysis are committed together. *)
LEMMA NextFlip ==
  ASSUME IntentInv, TypeOK', Next
  PROVE  FlipHasAnalysis'
<1> USE ActorsAssumption DEF IntentInv, TypeOK, Actor, Deferred, At, Goto, Note, Unfinished,
       stored, FlipHasAnalysis, WorkersInv
<1>1. ASSUME NEW r \in Reply, Arrive(r) PROVE FlipHasAnalysis'
  BY <1>1 DEF Arrive
<1>2. ASSUME NEW r \in Reply, Look(r) PROVE FlipHasAnalysis'
  BY <1>2 DEF Look, IntentBlocksReply
<1>3. ASSUME NEW r \in Reply, Defer(r) PROVE FlipHasAnalysis'
  BY <1>3 DEF Defer
<1>4. ASSUME NEW r \in Reply, Record(r) PROVE FlipHasAnalysis'
  BY <1>4 DEF Record, HandleMemberReply
<1>5. ASSUME NEW w \in Worker, Start(w) PROVE FlipHasAnalysis'
  BY <1>5 DEF Start
<1>6. ASSUME NEW w \in Worker, AnalysisFails(w) PROVE FlipHasAnalysis'
  BY <1>6 DEF AnalysisFails, MarkIntentFailed
<1>7. ASSUME NEW w \in Worker, Apply(w) PROVE FlipHasAnalysis'
  BY <1>7 DEF Apply
<1>8. ASSUME NEW w \in Worker, ClaimLost(w) PROVE FlipHasAnalysis'
  BY <1>8 DEF ClaimLost
<1>9. ASSUME NEW w \in Worker, ClaimWon(w) PROVE FlipHasAnalysis'
  BY <1>9 DEF ClaimWon
<1>10. ASSUME NEW w \in Worker, CommitReady(w) PROVE FlipHasAnalysis'
  BY <1>10 DEF CommitReady
<1>11. ASSUME NEW w \in Worker, NEW r \in Reply, RecordClaimed(w, r) PROVE FlipHasAnalysis'
  BY <1>11 DEF RecordClaimed, HandleMemberReply
<1>12. ASSUME NEW w \in Worker, Finish(w) PROVE FlipHasAnalysis'
  BY <1>12 DEF Finish
<1>13. ASSUME NEW a \in Actor, Crash(a) PROVE FlipHasAnalysis'
  BY <1>13 DEF Crash
<1> QED
  BY <1>1, <1>2, <1>3, <1>4, <1>5, <1>6, <1>7,
     <1>8, <1>9, <1>10, <1>11, <1>12, <1>13
     DEF Next, Webhook, Discover

(* Workers keep what the lock gives them. *)
LEMMA NextWorkers ==
  ASSUME IntentInv, TypeOK', Next
  PROVE  WorkersInv'
<1> USE ActorsAssumption DEF IntentInv, TypeOK, Actor, Deferred, At, Goto, Note, Unfinished,
       stored, WebhooksInv, WorkersInv, FlipHasAnalysis
<1>1. ASSUME NEW r \in Reply, Arrive(r) PROVE WorkersInv'
  BY <1>1 DEF Arrive
<1>2. ASSUME NEW r \in Reply, Look(r) PROVE WorkersInv'
  BY <1>2 DEF Look, IntentBlocksReply
<1>3. ASSUME NEW r \in Reply, Defer(r) PROVE WorkersInv'
  BY <1>3 DEF Defer
<1>4. ASSUME NEW r \in Reply, Record(r) PROVE WorkersInv'
  BY <1>4 DEF Record, HandleMemberReply
<1>5. ASSUME NEW w \in Worker, Start(w) PROVE WorkersInv'
  BY <1>5 DEF Start
<1>6. ASSUME NEW w \in Worker, AnalysisFails(w) PROVE WorkersInv'
  BY <1>6 DEF AnalysisFails, MarkIntentFailed
<1>7. ASSUME NEW w \in Worker, Apply(w) PROVE WorkersInv'
  BY <1>7 DEF Apply
<1>8. ASSUME NEW w \in Worker, ClaimLost(w) PROVE WorkersInv'
  BY <1>8 DEF ClaimLost
<1>9. ASSUME NEW w \in Worker, ClaimWon(w) PROVE WorkersInv'
  BY <1>9 DEF ClaimWon
<1>10. ASSUME NEW w \in Worker, CommitReady(w) PROVE WorkersInv'
  BY <1>10 DEF CommitReady
<1>11. ASSUME NEW w \in Worker, NEW r \in Reply, RecordClaimed(w, r) PROVE WorkersInv'
  BY <1>11 DEF RecordClaimed, HandleMemberReply
<1>12. ASSUME NEW w \in Worker, Finish(w) PROVE WorkersInv'
  BY <1>12 DEF Finish
<1>13. ASSUME NEW a \in Actor, Crash(a) PROVE WorkersInv'
  BY <1>13 DEF Crash
<1> QED
  BY <1>1, <1>2, <1>3, <1>4, <1>5, <1>6, <1>7,
     <1>8, <1>9, <1>10, <1>11, <1>12, <1>13
     DEF Next, Webhook, Discover

(* A claim is in the batch that was committed with it. *)
LEMMA NextClaimed ==
  ASSUME IntentInv, TypeOK', Next
  PROVE  ClaimedInBatch'
<1> USE ActorsAssumption DEF IntentInv, TypeOK, Actor, Deferred, At, Goto, Note, Unfinished,
       stored, ClaimedInBatch, WebhooksInv, WorkersInv
<1>1. ASSUME NEW r \in Reply, Arrive(r) PROVE ClaimedInBatch'
  BY <1>1 DEF Arrive
<1>2. ASSUME NEW r \in Reply, Look(r) PROVE ClaimedInBatch'
  BY <1>2 DEF Look, IntentBlocksReply
<1>3. ASSUME NEW r \in Reply, Defer(r) PROVE ClaimedInBatch'
  BY <1>3 DEF Defer
<1>4. ASSUME NEW r \in Reply, Record(r) PROVE ClaimedInBatch'
  BY <1>4 DEF Record, HandleMemberReply
<1>5. ASSUME NEW w \in Worker, Start(w) PROVE ClaimedInBatch'
  BY <1>5 DEF Start
<1>6. ASSUME NEW w \in Worker, AnalysisFails(w) PROVE ClaimedInBatch'
  BY <1>6 DEF AnalysisFails, MarkIntentFailed
<1>7. ASSUME NEW w \in Worker, Apply(w) PROVE ClaimedInBatch'
  BY <1>7 DEF Apply
<1>8. ASSUME NEW w \in Worker, ClaimLost(w) PROVE ClaimedInBatch'
  BY <1>8 DEF ClaimLost
<1>9. ASSUME NEW w \in Worker, ClaimWon(w) PROVE ClaimedInBatch'
  BY <1>9 DEF ClaimWon
<1>10. ASSUME NEW w \in Worker, CommitReady(w) PROVE ClaimedInBatch'
  BY <1>10 DEF CommitReady
<1>11. ASSUME NEW w \in Worker, NEW r \in Reply, RecordClaimed(w, r) PROVE ClaimedInBatch'
  BY <1>11 DEF RecordClaimed, HandleMemberReply
<1>12. ASSUME NEW w \in Worker, Finish(w) PROVE ClaimedInBatch'
  BY <1>12 DEF Finish
<1>13. ASSUME NEW a \in Actor, Crash(a) PROVE ClaimedInBatch'
  BY <1>13 DEF Crash
<1> QED
  BY <1>1, <1>2, <1>3, <1>4, <1>5, <1>6, <1>7,
     <1>8, <1>9, <1>10, <1>11, <1>12, <1>13
     DEF Next, Webhook, Discover

(* The record of a reply by an actor a that is its webhook or has the       *)
(* analysis: the first stays the only one.                                  *)
LEMMA RecordOnce ==
  ASSUME IntentInv, NEW a \in Actor, NEW q \in Reply, a = q \/ a = analysis,
         HandleMemberReply(a, q), analysis' = analysis
  PROVE  RecordedByOneActor'
<1> USE DEF IntentInv, TypeOK, RecordedByOneActor, HandleMemberReply
<1>1. \A r \in Reply \ {q} : recorders'[r] = recorders[r]
  OBVIOUS
<1>2. recorders'[q] = recorders[q] \/ recorders'[q] = {a}
  BY DEF WebhooksInv
<1>3. Cardinality({a}) = 1
  BY FS_Singleton
<1>4. ASSUME NEW r \in Reply
      PROVE  /\ Cardinality(recorders'[r]) <= 1
             /\ \A b \in Actor : b \in recorders'[r] => b = r \/ b = analysis
  <2>1. CASE r # q
    BY <1>1, <2>1
  <2>2. CASE r = q /\ recorders'[q] = recorders[q]
    BY <2>2
  <2>3. CASE r = q /\ recorders'[q] = {a}
    <3>1. Cardinality(recorders'[r]) = Cardinality({a})
      BY <2>3
    <3>2. \A b \in recorders'[r] : b = r \/ b = analysis
      BY <2>3
    <3> QED BY <1>3, <3>1, <3>2
  <2> QED BY <1>2, <2>1, <2>2, <2>3
<1> QED BY <1>4

(* Other steps record nothing; the first analysis is of no actor before. *)
LEMMA NextRecorders ==
  ASSUME IntentInv, Next
  PROVE  RecordedByOneActor'
<1>1. CASE recorders' = recorders /\ (analysis' = analysis \/ analysis = Nobody)
  BY <1>1, ActorsAssumption
     DEF IntentInv, TypeOK, RecordedByOneActor, Actor
<1>2. ASSUME NEW r \in Reply, Record(r) PROVE RecordedByOneActor'
  BY <1>2, RecordOnce DEF Record, Actor
<1>3. ASSUME NEW w \in Worker, NEW r \in Reply, RecordClaimed(w, r)
      PROVE  RecordedByOneActor'
  <2>1. analysis = w
    BY <1>3 DEF RecordClaimed, At, IntentInv, WorkersInv
  <2> QED BY <1>3, <2>1, RecordOnce DEF RecordClaimed, Actor
<1>4. ASSUME NEW w \in Worker, CommitReady(w) PROVE RecordedByOneActor'
  BY <1>1, <1>4
     DEF CommitReady, At, IntentInv, WorkersInv, FlipHasAnalysis, Unfinished
<1>5. ASSUME NEW r \in Reply, Arrive(r) \/ Look(r) \/ Defer(r) PROVE RecordedByOneActor'
  BY <1>1, <1>5 DEF Arrive, Look, Defer, stored
<1>6. ASSUME NEW w \in Worker,
             \/ Start(w) \/ AnalysisFails(w) \/ Apply(w) \/ ClaimLost(w)
             \/ ClaimWon(w) \/ Finish(w)
      PROVE  RecordedByOneActor'
  BY <1>1, <1>6 DEF Start, AnalysisFails, Apply, ClaimLost, ClaimWon, Finish, stored
<1>7. ASSUME NEW a \in Actor, Crash(a) PROVE RecordedByOneActor'
  BY <1>1, <1>7 DEF Crash, stored
<1> QED BY <1>2, <1>3, <1>4, <1>5, <1>6, <1>7 DEF Next, Webhook, Discover

(* A step that changes nothing. *)
LEMMA StutterKeepsInv == IntentInv /\ UNCHANGED vars => IntentInv'
BY DEF IntentInv, vars, stored, TypeOK, WebhooksInv, RecordsAfterReady, FlipHasAnalysis,
       WorkersInv, ClaimedInBatch, RecordedByOneActor, Deferred

(* The invariant from which the properties of the stage follow. *)
THEOREM IntentInvariant == Spec => []IntentInv
<1>1. IntentInv /\ [Next]_vars => IntentInv'
  <2>1. ASSUME IntentInv, Next PROVE IntentInv'
    <3>1. TypeOK'
      BY <2>1, NextTypeOK DEF IntentInv
    <3> QED BY <2>1, <3>1, NextWebhooks, NextRecords, NextFlip, NextWorkers,
               NextClaimed, NextRecorders
            DEF IntentInv
  <2> QED BY <2>1, StutterKeepsInv
<1> QED BY <1>1, InitInv, PTL DEF Spec

-----------------------------------------------------------------------------
(* The variables keep their types. *)
THEOREM TypesAreKept == Spec => []TypeOK
<1>1. IntentInv => TypeOK
  BY DEF IntentInv
<1> QED BY <1>1, IntentInvariant, PTL

(* A reply is recorded once: by its webhook, or by the one worker whose     *)
(* analysis was committed.                                                  *)
THEOREM RepliesRecordedOnce == Spec => []RecordedByOneActor
<1>1. IntentInv => RecordedByOneActor
  BY DEF IntentInv
<1> QED BY <1>1, IntentInvariant, PTL

(* No reply that was not chosen is recorded before the analysis is there. *)
THEOREM RecordsFollowTheFlip == Spec => []RecordedAfterReady
<1>1. IntentInv => RecordedAfterReady
  BY DEF IntentInv, RecordsAfterReady, FlipHasAnalysis, RecordedAfterReady
<1> QED BY <1>1, IntentInvariant, PTL

(* While nobody dies, a claimed reply has the one worker that records it. *)
THEOREM ClaimsHaveOneWorker == Spec => []ClaimedHasItsWorker
<1>1. ASSUME IntentInv PROVE ClaimedHasItsWorker
  <2>1. SUFFICES ASSUME NEW r \in Reply, notes[r] = "claimed", crashes = 0
                 PROVE  \E w \in Worker : /\ pc[w] = "record" /\ r \in batch[w]
                                          /\ w = analysis
                                          /\ \A v \in Worker \ {w} : r \notin batch[v]
    BY DEF ClaimedHasItsWorker
  <2>2. PICK w \in Worker : pc[w] = "record" /\ r \in batch[w]
    BY <1>1, <2>1 DEF IntentInv, ClaimedInBatch
  <2>3. w = analysis /\ intent = "ready"
    BY <1>1, <2>2 DEF IntentInv, WorkersInv
  <2>4. ASSUME NEW v \in Worker \ {w} PROVE r \notin batch[v]
    BY <1>1, <2>3 DEF IntentInv, WorkersInv, Unfinished
  <2> QED BY <2>2, <2>3, <2>4
<1> QED BY <1>1, IntentInvariant, PTL

(* No step takes a committed flip or analysis back. *)
THEOREM ReadyStaysReady == Spec => ReadyIsFinal
<1>1. ASSUME IntentInv, [Next]_vars, intent = "ready"
      PROVE  intent' = "ready" /\ analysis' = analysis
  <2>1. ASSUME NEW w \in Worker PROVE ~CommitReady(w)
    BY <1>1 DEF CommitReady, At, IntentInv, WorkersInv, Unfinished
  <2>2. ASSUME NEW w \in Worker, Discover(w)
        PROVE  intent' = "ready" /\ analysis' = analysis
    BY <1>1, <2>1, <2>2
       DEF Discover, Start, AnalysisFails, MarkIntentFailed, Apply, ClaimLost, ClaimWon,
           RecordClaimed, Finish, Unfinished, stored
  <2>3. ASSUME NEW r \in Reply, Webhook(r)
        PROVE  intent' = "ready" /\ analysis' = analysis
    BY <1>1, <2>3 DEF Webhook, Arrive, Look, Defer, Record, stored
  <2>4. ASSUME NEW a \in Actor, Crash(a)
        PROVE  intent' = "ready" /\ analysis' = analysis
    BY <1>1, <2>4 DEF Crash, stored
  <2>5. CASE UNCHANGED vars
    BY <1>1, <2>5 DEF vars, stored
  <2> QED BY <1>1, <2>2, <2>3, <2>4, <2>5 DEF Next
<1>2. IntentInv /\ [Next]_vars =>
        [intent = "ready" => intent' = "ready" /\ analysis' = analysis]_vars
  BY <1>1
<1> QED BY <1>2, IntentInvariant, PTL DEF Spec, ReadyIsFinal

=============================================================================
