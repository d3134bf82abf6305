--------------------------- MODULE IngressProofs ---------------------------
(***************************************************************************)
(* What holds of Ingress for any number of deliveries, texts and members,  *)
(* whatever the bounds; and, at the end, of the functions it is built      *)
(* from: the choice among requests and the roles of messages.              *)
(***************************************************************************)
EXTENDS Ingress, FiniteSetTheorems, TLAPS

(* Who may join a request: its requester, and whom its fan-out has reached. *)
Party(m, q) == m = Requester(q) \/ m \in copies[q]

(* The variables are functions of the deliveries. *)
Typed ==
  /\ kind \in [Delivery -> {"absent", "null", "original_request", "member_reply"}]
  /\ note \in [Delivery -> {"null", "awaiting_choice", "choice_applied",
                            "choice_received", "choice_unrecognized"}]
  /\ joined \in [Delivery -> Delivery \cup {None}]
  /\ offered \in [Delivery -> SUBSET (Delivery \cup {New})]
  /\ status \in [Delivery -> {"absent", "open", "closed"}]
  /\ original \in [Delivery -> Delivery \cup {None}]
  /\ copies \in [Delivery -> SUBSET Member]
  /\ pc \in [Delivery -> {"none", "pending", "own", "others", "write", "letter", "done"}]
  /\ held \in [Delivery -> Delivery \cup {None}]
  /\ cand \in [Delivery -> SUBSET Delivery]
  /\ answer \in [Delivery -> {"none", "ok", "duplicate", "error"}]

(* A handler has no row before its one write, and no question holds it. *)
NoRowYet ==
  \A d \in Delivery :
    /\ pc[d] # "done" => kind[d] = "absent" /\ note[d] = "null"
    /\ pc[d] \in {"none", "pending", "own", "others", "write"} => held[d] = None
    /\ pc[d] = "letter" => held[d] # None
    /\ kind[d] = "absent" => note[d] = "null" /\ status[d] = "absent"

(* What a letter has found is a text of its sender that was held, and stays *)
(* one that was.                                                            *)
HeldWasAsked ==
  \A d \in Delivery : held[d] # None =>
    /\ kind[held[d]] # "absent" /\ Sender(held[d]) = Sender(d)
    /\ note[held[d]] \in {"awaiting_choice", "choice_applied"}

(* Only requests of which its sender is a party are considered or offered.  *)
CandidatesAreOwn ==
  \A d, q \in Delivery : q \in cand[d] \cup offered[d] => Party(Sender(d), q)

(* One open request for each member. *)
OpenIsUnique ==
  \A q, r \in Delivery : Open(q) /\ Open(r) /\ Requester(q) = Requester(r) => q = r

(* A text still held is not stamped, and one that was applied has its       *)
(* letter.                                                                  *)
AppliedHasLetter ==
  \A p \in Delivery :
    /\ note[p] = "awaiting_choice" => kind[p] = "null"
    /\ note[p] = "choice_applied" => Letters(p) # {}

IngressInv ==
  /\ Typed /\ NoRowYet /\ HeldWasAsked /\ CandidatesAreOwn /\ OpenIsUnique
  /\ AppliedHasLetter /\ OneRowPerText /\ AcceptedIsStored
  /\ RepliesComeFromParties /\ OriginalIsInItsRequest

-----------------------------------------------------------------------------
(* How a handler ends, but for the order of the transactions. *)
LEMMA AnswerEffect ==
  ASSUME NEW d \in Delivery, NEW r, Answer(d, r)
  PROVE  /\ pc' = [pc EXCEPT ![d] = "done"]
         /\ answer' = [answer EXCEPT ![d] = r]
         /\ cand' = [cand EXCEPT ![d] = {}]
         /\ held' = held
BY DEF Answer, Goto

(* The steps of a handler that write no row. *)
Reads(d) ==
  \/ ArriveAgain(d) \/ Arrive(d) \/ FindPending(d) \/ FindOwn(d) \/ FindOthers(d)
  \/ RequestConflict(d) \/ InsertRace(d) \/ AskRace(d) \/ LetterConflict(d) \/ Fail(d)

(* What such a step changes. *)
LEMMA ReadsEffect ==
  ASSUME Typed, NEW d \in Delivery, Reads(d)
  PROVE  /\ UNCHANGED <<kind, note, joined, offered, status, original, copies>>
         /\ pc[d] # "done" /\ (pc[d] = "letter" => pc'[d] = "done")
         /\ \E l \in {"pending", "own", "others", "write", "letter", "done"} :
              pc' = [pc EXCEPT ![d] = l]
         /\ \/ answer' = answer
            \/ answer' = [answer EXCEPT ![d] = "error"]
            \/ answer' = [answer EXCEPT ![d] = "duplicate"] /\ Stored(d)
         /\ \/ cand' = cand
            \/ cand' = [cand EXCEPT ![d] = {}]
            \/ cand' = [cand EXCEPT ![d] = OwnRequests(Sender(d))]
            \/ cand' = [cand EXCEPT ![d] = @ \cup SharedRequests(Sender(d))]
         /\ \/ held' = held /\ pc'[d] # "letter"
            \/ \E p \in Questions(Sender(d)) :
                 held' = [held EXCEPT ![d] = p] /\ pc'[d] = "letter"
<1> USE DEF messages, requests, found
<1>1. CASE ArriveAgain(d)
  BY <1>1, AnswerEffect DEF ArriveAgain, At, Typed
<1>2. CASE Arrive(d)
  BY <1>2 DEF Arrive, At, Goto, Typed
<1>3. CASE FindPending(d)
  BY <1>3 DEF FindPending, At, Goto, Typed, PendingClarification
<1>4. CASE FindOwn(d)
  BY <1>4 DEF FindOwn, At, Goto, Typed
<1>5. CASE FindOthers(d)
  BY <1>5 DEF FindOthers, At, Goto, Typed
<1>6. CASE RequestConflict(d)
  BY <1>6, AnswerEffect DEF RequestConflict, At, Typed
<1>7. CASE InsertRace(d)
  BY <1>7, AnswerEffect DEF InsertRace, At, Typed, Taken
<1>8. CASE AskRace(d)
  BY <1>8, AnswerEffect DEF AskRace, Ask, At, Typed
<1>9. CASE LetterConflict(d)
  BY <1>9, AnswerEffect DEF LetterConflict, At, Typed
<1>10. CASE Fail(d)
  BY <1>10, AnswerEffect DEF Fail, Running, Typed
<1> QED BY <1>1, <1>2, <1>3, <1>4, <1>5, <1>6, <1>7, <1>8, <1>9, <1>10 DEF Reads

(* What OriginalIsInItsRequest says of one request. *)
OriginalOf(q) ==
  /\ original[q] # None /\ Sender(original[q]) = Requester(q)
  /\ \/ Cardinality(Letters(original[q])) > 1
     \/ kind[original[q]] = "original_request" /\ joined[original[q]] = q

(* It is enough to look at one request after the other. *)
LEMMA OriginalsOneByOne ==
  (\A q \in Delivery : status'[q] # "absent" => OriginalOf(q)') <=> OriginalIsInItsRequest'
BY DEF OriginalIsInItsRequest, OriginalOf

(* Two letters are more than one. *)
LEMMA MoreThanOne ==
  ASSUME NEW S \in SUBSET Delivery
  PROVE  /\ Cardinality(S) > 1 => S # {}
         /\ \A x, y \in S : x # y => Cardinality(S) > 1
<1>1. IsFiniteSet(S) /\ Cardinality(S) \in Nat
  BY TextsAssumption, FS_Subset, FS_CardinalityType
<1>2. Cardinality(S) > 1 => S # {}
  BY FS_EmptySet
<1>3. ASSUME NEW x \in S, NEW y \in S, x # y PROVE Cardinality(S) > 1
  <2>1. IsFiniteSet(S \ {x}) /\ Cardinality(S \ {x}) = Cardinality(S) - 1
    BY <1>1, FS_RemoveElement
  <2>2. Cardinality(S \ {x}) # 0
    BY <1>3, <2>1, FS_EmptySet
  <2> QED BY <1>1, <2>1, <2>2, FS_CardinalityType
<1> QED BY <1>2, <1>3

-----------------------------------------------------------------------------
(* The initial states: the requests of Past, each with its own sender. *)
LEMMA InitInv == Init => IngressInv
<1> SUFFICES ASSUME Init PROVE IngressInv
  OBVIOUS
<1> USE DEF Init
<1>1. Typed
  BY PastAssumption DEF Typed
<1>2. NoRowYet
  BY DEF NoRowYet
<1>3. HeldWasAsked /\ CandidatesAreOwn
  BY DEF HeldWasAsked, CandidatesAreOwn
<1>4. OpenIsUnique
  BY PastAssumption DEF OpenIsUnique, Open, Requester
<1>5. AppliedHasLetter
  BY DEF AppliedHasLetter
<1>6. OneRowPerText
  BY PastAssumption DEF OneRowPerText
<1>7. AcceptedIsStored
  BY DEF AcceptedIsStored
<1>8. RepliesComeFromParties
  BY DEF RepliesComeFromParties
<1>9. OriginalIsInItsRequest
  BY PastAssumption, NamesAssumption DEF OriginalIsInItsRequest, Requester
<1> QED BY <1>1, <1>2, <1>3, <1>4, <1>5, <1>6, <1>7, <1>8, <1>9 DEF IngressInv

(* A handler that only reads, or gives up, keeps the invariant. *)
LEMMA ReadsKeepInv ==
  ASSUME IngressInv, NEW d \in Delivery, Reads(d)
  PROVE  IngressInv'
<1>1. Typed
  BY DEF IngressInv
<1>2. PICK l \in {"pending", "own", "others", "write", "letter", "done"} :
        pc' = [pc EXCEPT ![d] = l]
  BY <1>1, ReadsEffect
<1>3. UNCHANGED <<kind, note, joined, offered, status, original, copies>> /\ pc[d] # "done"
  BY <1>1, ReadsEffect
<1>4. \/ answer' = answer
      \/ answer' = [answer EXCEPT ![d] = "error"]
      \/ answer' = [answer EXCEPT ![d] = "duplicate"] /\ Stored(d)
  BY <1>1, ReadsEffect
<1>5. \/ cand' = cand
      \/ cand' = [cand EXCEPT ![d] = {}]
      \/ cand' = [cand EXCEPT ![d] = OwnRequests(Sender(d))]
      \/ cand' = [cand EXCEPT ![d] = @ \cup SharedRequests(Sender(d))]
  BY <1>1, ReadsEffect
<1>6. \/ held' = held /\ pc'[d] # "letter"
      \/ \E p \in Questions(Sender(d)) :
           held' = [held EXCEPT ![d] = p] /\ pc'[d] = "letter"
  BY <1>1, ReadsEffect
<1>7. pc[d] # "letter" \/ l = "done"
  BY <1>1, <1>2, ReadsEffect DEF Typed
<1>8. Typed'
  BY <1>1, <1>2, <1>3, <1>4, <1>5, <1>6
     DEF Typed, OwnRequests, SharedRequests, Questions
<1>9. NoRowYet'
  <2>1. ASSUME NEW e \in Delivery
        PROVE  /\ pc'[e] # "done" => kind[e] = "absent" /\ note[e] = "null"
               /\ kind[e] = "absent" => note[e] = "null" /\ status[e] = "absent"
    BY <1>1, <1>2, <1>3 DEF IngressInv, NoRowYet, Typed
  <2>2. ASSUME NEW e \in Delivery \ {d}
        PROVE  held'[e] = held[e] /\ pc'[e] = pc[e]
    BY <1>1, <1>2, <1>6 DEF Typed
  <2>3. pc'[d] = l /\ (pc[d] # "letter" => held[d] = None)
    BY <1>1, <1>2, <1>3 DEF IngressInv, NoRowYet, Typed
  <2>4. /\ l \in {"none", "pending", "own", "others", "write"} => held'[d] = None
        /\ l = "letter" => held'[d] # None
    BY <1>1, <1>6, <1>7, <2>3, NamesAssumption DEF Typed, Questions
  <2> QED BY <1>3, <2>1, <2>2, <2>3, <2>4 DEF IngressInv, NoRowYet
<1>10. HeldWasAsked'
  BY <1>1, <1>3, <1>6 DEF IngressInv, HeldWasAsked, Typed, Questions, Sender
<1>11. CandidatesAreOwn'
  BY <1>1, <1>3, <1>5 DEF IngressInv, CandidatesAreOwn, Typed, Party, OwnRequests,
                         SharedRequests, Requester
<1>12. OpenIsUnique'
  BY <1>3 DEF IngressInv, OpenIsUnique, Open, Requester, Sender
<1>13. \A p \in Delivery : Letters(p)' = Letters(p)
  BY <1>1, <1>3, <1>6 DEF IngressInv, NoRowYet, Letters, Typed
<1>14. AppliedHasLetter'
  BY <1>3, <1>13 DEF IngressInv, AppliedHasLetter
<1>15. OneRowPerText'
  BY <1>3 DEF IngressInv, OneRowPerText
<1>16. AcceptedIsStored'
  BY <1>1, <1>3, <1>4 DEF IngressInv, AcceptedIsStored, Typed, Stored
<1>17. RepliesComeFromParties'
  BY <1>3 DEF IngressInv, RepliesComeFromParties, Requester, Sender
<1>18. OriginalIsInItsRequest'
  BY <1>1, <1>3, <1>13 DEF IngressInv, OriginalIsInItsRequest, Requester, Sender, Typed
<1> QED BY <1>8, <1>9, <1>10, <1>11, <1>12, <1>14, <1>15, <1>16, <1>17, <1>18
        DEF IngressInv

(* A write that inserts the row of its own text, and perhaps begins a       *)
(* request of which it is the original.                                     *)
LEMMA InsertKeepsInv ==
  ASSUME IngressInv, NEW d \in Delivery, pc[d] \in {"write", "letter"}, ~Taken(d),
         NEW k \in {"null", "original_request", "member_reply"},
         NEW n \in {"null", "awaiting_choice", "choice_unrecognized"},
         NEW q \in Delivery \cup {None},
         Insert(d, k, n, q), Answer(d, "ok"), copies' = copies,
         k = "member_reply" => q \in Delivery /\ Party(Sender(d), q),
         n = "awaiting_choice" => k = "null" /\ pc[d] = "write",
         \/ offered' = offered
         \/ \E S \in SUBSET (cand[d] \cup {New}) : offered' = [offered EXCEPT ![d] = S],
         \/ status' = status /\ original' = original
         \/ /\ k = "original_request" /\ q = d /\ ~HasOpen(d)
            /\ status' = [status EXCEPT ![d] = "open"]
            /\ original' = [original EXCEPT ![d] = d]
  PROVE  IngressInv'
<1> USE DEF Insert
<1>1. Typed /\ kind[d] = "absent" /\ note[d] = "null" /\ status[d] = "absent"
  BY DEF IngressInv, NoRowYet
<1>2. /\ pc' = [pc EXCEPT ![d] = "done"] /\ answer' = [answer EXCEPT ![d] = "ok"]
      /\ cand' = [cand EXCEPT ![d] = {}] /\ held' = held
  BY AnswerEffect
<1>3. Typed'
  <2>1. cand[d] \in SUBSET Delivery
    BY <1>1 DEF Typed
  <2>2. offered' \in [Delivery -> SUBSET (Delivery \cup {New})]
    BY <1>1, <2>1 DEF Typed
  <2>3. status' \in [Delivery -> {"absent", "open", "closed"}]
        /\ original' \in [Delivery -> Delivery \cup {None}]
    BY <1>1 DEF Typed
  <2>4. copies' \in [Delivery -> SUBSET Member]
    BY <1>1 DEF Typed
  <2> QED BY <1>1, <1>2, <2>2, <2>3, <2>4 DEF Typed
<1>4. NoRowYet'
  BY <1>1, <1>2 DEF IngressInv, NoRowYet, Typed
<1>5. \A e \in Delivery : held[e] # d
  <2>1. SUFFICES ASSUME NEW e \in Delivery, held[e] = d PROVE FALSE
    OBVIOUS
  <2>2. held[e] # None
    BY <2>1, NamesAssumption
  <2> QED BY <1>1, <2>1, <2>2 DEF IngressInv, HeldWasAsked
<1>6. HeldWasAsked'
  BY <1>1, <1>2, <1>5 DEF IngressInv, HeldWasAsked, Typed, Sender
<1>7. CandidatesAreOwn'
  BY <1>1, <1>2, NamesAssumption
     DEF IngressInv, CandidatesAreOwn, Typed, Party, Requester, Sender
<1>8. OpenIsUnique'
  BY <1>1 DEF IngressInv, OpenIsUnique, Open, HasOpen, Requester, Sender, Typed
<1>9. \A p \in Delivery : Letters(p)' = Letters(p)
  BY <1>1, <1>2 DEF Letters, Typed
<1>10. AppliedHasLetter'
  BY <1>1, <1>9 DEF IngressInv, AppliedHasLetter, Typed
<1>11. OneRowPerText'
  BY <1>1 DEF IngressInv, OneRowPerText, Taken, Stored, Typed
<1>12. AcceptedIsStored'
  BY <1>1, <1>2 DEF IngressInv, AcceptedIsStored, Typed
<1>13. RepliesComeFromParties'
  BY <1>1 DEF IngressInv, RepliesComeFromParties, Typed, Party, Requester, Sender
<1>14. OriginalIsInItsRequest'
  <2>1. ASSUME NEW r \in Delivery \ {d}, status'[r] # "absent"
        PROVE  OriginalOf(r)'
    <3>1. original'[r] = original[r] /\ status[r] # "absent"
      BY <1>1, <2>1 DEF Typed
    <3>2. /\ original[r] \in Delivery /\ Sender(original[r]) = Requester(r)
          /\ \/ Cardinality(Letters(original[r])) > 1
             \/ kind[original[r]] = "original_request" /\ joined[original[r]] = r
      BY <1>1, <3>1 DEF IngressInv, OriginalIsInItsRequest, Typed
    <3>3. kind[original[r]] = "original_request" =>
            kind'[original[r]] = kind[original[r]] /\ joined'[original[r]] = joined[original[r]]
      BY <1>1, <3>2 DEF Typed
    <3>4. {e \in Delivery : held'[e] = original[r] /\ note'[e] = "choice_received"}
            = Letters(original[r])
      BY <1>1, <1>2 DEF Letters, Typed
    <3>5. original'[r] # None /\ Sender(original'[r]) = Requester(r)
      BY <3>1, <3>2, NamesAssumption DEF Requester, Sender
    <3>6. Letters(original[r])' = Letters(original[r])
      BY <3>1, <3>4 DEF Letters
    <3>7. \/ Cardinality(Letters(original[r])') > 1
          \/ kind'[original'[r]] = "original_request" /\ joined'[original'[r]] = r
      BY <3>1, <3>2, <3>3, <3>6
    <3> QED BY <3>5, <3>7 DEF OriginalOf, Requester, Sender
  <2>2. ASSUME status'[d] # "absent"
        PROVE  OriginalOf(d)'
    <3>1. original'[d] = d /\ kind'[d] = "original_request" /\ joined'[d] = d
      BY <1>1, <2>2 DEF Typed
    <3> QED BY <3>1, NamesAssumption DEF OriginalOf, Requester, Sender
  <2> QED BY <2>1, <2>2, OriginalsOneByOne
<1> QED BY <1>3, <1>4, <1>6, <1>7, <1>8, <1>10, <1>11, <1>12, <1>13, <1>14
        DEF IngressInv

(* A letter that is applied: its own row, and the held text stamped. *)
LEMMA AttachKeepsInv ==
  ASSUME IngressInv, NEW d \in Delivery, pc[d] = "letter", ~Taken(d),
         NEW k, NEW q \in Delivery,
         Attach(d, held[d], k, q), Answer(d, "ok"), copies' = copies, offered' = offered,
         \/ /\ k = "member_reply" /\ q \in offered[held[d]]
            /\ status' = status /\ original' = original
         \/ /\ k = "original_request" /\ q = d /\ ~HasOpen(d)
            /\ status' = [status EXCEPT ![d] = "open"]
            /\ original' = [original EXCEPT ![d] = held[d]]
  PROVE  IngressInv'
<1> DEFINE p == held[d]
<1>1. Typed /\ kind[d] = "absent" /\ note[d] = "null" /\ status[d] = "absent"
  BY DEF IngressInv, NoRowYet
<1>2. /\ p \in Delivery /\ p # None /\ kind[p] # "absent" /\ Sender(p) = Sender(d)
      /\ note[p] \in {"awaiting_choice", "choice_applied"} /\ p # d
  BY <1>1 DEF IngressInv, NoRowYet, HeldWasAsked, Typed
<1>3. /\ pc' = [pc EXCEPT ![d] = "done"] /\ answer' = [answer EXCEPT ![d] = "ok"]
      /\ cand' = [cand EXCEPT ![d] = {}] /\ held' = held
  BY AnswerEffect
<1>4. /\ k \in {"member_reply", "original_request"}
      /\ kind' = [kind EXCEPT ![p] = k, ![d] = "null"]
      /\ note' = [note EXCEPT ![p] = "choice_applied", ![d] = "choice_received"]
      /\ joined' = [joined EXCEPT ![p] = q]
  BY DEF Attach
<1> HIDE DEF p
<1>5. /\ \A e \in Delivery \ {d, p} : kind'[e] = kind[e] /\ note'[e] = note[e]
      /\ \A e \in Delivery \ {p} : joined'[e] = joined[e]
      /\ kind'[p] = k /\ note'[p] = "choice_applied" /\ joined'[p] = q
      /\ kind'[d] = "null" /\ note'[d] = "choice_received"
  BY <1>1, <1>2, <1>4 DEF Typed
<1>6. /\ \A e \in Delivery \ {d} : status'[e] = status[e] /\ original'[e] = original[e]
      /\ \/ status'[d] = status[d] /\ k = "member_reply"
         \/ /\ status'[d] = "open" /\ original'[d] = p /\ ~HasOpen(d)
            /\ k = "original_request" /\ q = d
  BY <1>1 DEF Typed, p
<1>7. Typed'
  <2>1. kind' \in [Delivery -> {"absent", "null", "original_request", "member_reply"}]
    BY <1>1, <1>4 DEF Typed
  <2>2. note' \in [Delivery -> {"null", "awaiting_choice", "choice_applied",
                                "choice_received", "choice_unrecognized"}]
    BY <1>1, <1>4 DEF Typed
  <2>3. joined' \in [Delivery -> Delivery \cup {None}]
    BY <1>1, <1>4 DEF Typed
  <2>4. status' \in [Delivery -> {"absent", "open", "closed"}]
        /\ original' \in [Delivery -> Delivery \cup {None}]
    BY <1>1, <1>2 DEF Typed, p
  <2>5. pc' \in [Delivery -> {"none", "pending", "own", "others", "write", "letter", "done"}]
        /\ answer' \in [Delivery -> {"none", "ok", "duplicate", "error"}]
        /\ cand' \in [Delivery -> SUBSET Delivery]
    BY <1>1, <1>3 DEF Typed
  <2> QED BY <1>1, <1>3, <2>1, <2>2, <2>3, <2>4, <2>5 DEF Typed
<1>8. NoRowYet'
  <2>1. ASSUME NEW e \in Delivery \ {d, p}
        PROVE  /\ pc'[e] = pc[e] /\ kind'[e] = kind[e] /\ note'[e] = note[e]
               /\ status'[e] = status[e]
    BY <1>1, <1>3, <1>5, <1>6 DEF Typed
  <2>2. pc[p] = "done" /\ pc'[p] = "done" /\ pc'[d] = "done"
    BY <1>1, <1>2, <1>3 DEF IngressInv, NoRowYet, Typed
  <2>3. kind'[p] # "absent" /\ kind'[d] # "absent"
    BY <1>4, <1>5
  <2> QED BY <1>3, <2>1, <2>2, <2>3 DEF IngressInv, NoRowYet
<1>9. \A e \in Delivery : held[e] # d
  <2>1. SUFFICES ASSUME NEW e \in Delivery, held[e] = d PROVE FALSE
    OBVIOUS
  <2>2. held[e] # None
    BY <2>1, NamesAssumption
  <2> QED BY <1>1, <2>1, <2>2 DEF IngressInv, HeldWasAsked
<1>10. HeldWasAsked'
  <2>1. SUFFICES ASSUME NEW e \in Delivery, held[e] # None
                 PROVE  /\ kind'[held[e]] # "absent" /\ Sender(held[e]) = Sender(e)
                        /\ note'[held[e]] \in {"awaiting_choice", "choice_applied"}
    BY <1>3 DEF HeldWasAsked, Sender
  <2>2. /\ kind[held[e]] # "absent" /\ Sender(held[e]) = Sender(e)
        /\ note[held[e]] \in {"awaiting_choice", "choice_applied"}
        /\ held[e] \in Delivery
    BY <1>1, <2>1 DEF IngressInv, HeldWasAsked, Typed
  <2> QED BY <1>4, <1>5, <1>9, <2>2
<1>11. CandidatesAreOwn'
  BY <1>1, <1>3 DEF IngressInv, CandidatesAreOwn, Typed, Party, Requester, Sender
<1>12. OpenIsUnique'
  BY <1>1, <1>6 DEF IngressInv, OpenIsUnique, Open, HasOpen, Requester, Sender
<1>13. /\ {e \in Delivery : held'[e] = p /\ note'[e] = "choice_received"}
            = Letters(p) \cup {d}
       /\ d \notin Letters(p) /\ Letters(p) \subseteq Delivery
  BY <1>1, <1>2, <1>3, <1>5 DEF Letters, p
<1>14. ASSUME NEW r \in Delivery \ {p}
       PROVE {e \in Delivery : held'[e] = r /\ note'[e] = "choice_received"} = Letters(r)
  BY <1>1, <1>2, <1>3, <1>5, <1>14 DEF Letters, p
<1>15. AppliedHasLetter'
  <2>1. SUFFICES ASSUME NEW r \in Delivery
        PROVE /\ note'[r] = "awaiting_choice" => kind'[r] = "null"
              /\ note'[r] = "choice_applied" =>
                   {e \in Delivery : held'[e] = r /\ note'[e] = "choice_received"} # {}
    BY DEF AppliedHasLetter, Letters
  <2>2. CASE r = p
    BY <1>5, <1>13, <2>2
  <2>3. CASE r = d
    BY <1>5, <2>3
  <2>4. CASE r # p /\ r # d
    BY <1>5, <1>14, <2>4 DEF IngressInv, AppliedHasLetter
  <2> QED BY <2>2, <2>3, <2>4
<1>16. OneRowPerText'
  <2>1. \A e \in Delivery \ {d} : kind'[e] # "absent" => kind[e] # "absent"
    BY <1>2, <1>5
  <2> QED BY <2>1 DEF IngressInv, OneRowPerText, Taken, Stored
<1>17. AcceptedIsStored'
  <2>1. \A e \in Delivery : kind[e] # "absent" => kind'[e] # "absent"
    BY <1>4, <1>5
  <2>2. kind'[d] # "absent"
    BY <1>5
  <2>3. \A e \in Delivery \ {d} : answer'[e] = answer[e]
    BY <1>1, <1>3 DEF Typed
  <2> QED BY <2>1, <2>2, <2>3 DEF IngressInv, AcceptedIsStored
<1>18. RepliesComeFromParties'
  <2>1. SUFFICES ASSUME NEW e \in Delivery, kind'[e] = "member_reply"
                 PROVE  Party(Sender(e), joined'[e])
    BY DEF RepliesComeFromParties, Party, Requester, Sender
  <2>2. CASE e = p
    <3>1. k = "member_reply" /\ q \in offered[p]
      BY <1>5, <2>1, <2>2 DEF p
    <3> QED BY <1>2, <1>5, <2>2, <3>1 DEF IngressInv, CandidatesAreOwn
  <2>3. CASE e # p
    BY <1>5, <2>1, <2>3 DEF IngressInv, RepliesComeFromParties, Party
  <2> QED BY <2>2, <2>3
<1>19. OriginalIsInItsRequest'
  <2>1. ASSUME NEW r \in Delivery, status[r] # "absent"
        PROVE  OriginalOf(r)'
    <3>1. r # d /\ original'[r] = original[r]
      BY <1>1, <1>6, <2>1
    <3>2. /\ original[r] \in Delivery /\ Sender(original[r]) = Requester(r)
          /\ \/ Cardinality(Letters(original[r])) > 1
             \/ kind[original[r]] = "original_request" /\ joined[original[r]] = r
      BY <1>1, <2>1 DEF IngressInv, OriginalIsInItsRequest, Typed
    <3>3. CASE original[r] = p
      <4>1. Letters(p) # {}
        BY <1>1, <1>2, <1>13, <3>2, <3>3, MoreThanOne
           DEF IngressInv, AppliedHasLetter
      <4>2. Cardinality(Letters(p) \cup {d}) > 1
        <5>1. PICK x \in Letters(p) : x # d
          BY <1>13, <4>1
        <5>2. Letters(p) \cup {d} \in SUBSET Delivery
          BY <1>13
        <5> QED BY <5>1, <5>2, MoreThanOne
      <4> QED BY <1>13, <3>1, <3>2, <3>3, <4>2, NamesAssumption
              DEF OriginalOf, Letters, Requester, Sender
    <3>4. CASE original[r] # p
      <4>1. PICK m \in Delivery : m = original[r] /\ m # p
        BY <3>2, <3>4
      <4>2. Cardinality({e \in Delivery : held'[e] = m /\ note'[e] = "choice_received"})
              = Cardinality(Letters(m))
        BY <1>14, <4>1
      <4>3. kind[m] = "original_request" =>
              kind'[m] = "original_request" /\ joined'[m] = joined[m]
        BY <1>1, <1>5, <4>1
      <4>4. original'[r] = m /\ m # None /\ Sender(m) = Requester(r)
        BY <3>1, <3>2, <4>1, NamesAssumption
      <4>5. \/ Cardinality(Letters(m)) > 1
            \/ kind[m] = "original_request" /\ joined[m] = r
        BY <3>2, <4>1
      <4>6. \/ Cardinality({e \in Delivery : held'[e] = m /\ note'[e] = "choice_received"}) > 1
            \/ kind'[m] = "original_request" /\ joined'[m] = r
        BY <4>2, <4>3, <4>5
      <4> QED BY <4>4, <4>6 DEF OriginalOf, Letters, Requester, Sender
    <3> QED BY <3>3, <3>4
  <2>2. ASSUME status'[d] # "absent"
        PROVE  OriginalOf(d)'
    BY <1>1, <1>2, <1>5, <1>6, <2>2 DEF OriginalOf, Requester, Sender
  <2>3. \A r \in Delivery : status'[r] # "absent" => r = d \/ status[r] # "absent"
    BY <1>6
  <2> QED BY <2>1, <2>2, <2>3, OriginalsOneByOne
<1> QED BY <1>7, <1>8, <1>10, <1>11, <1>12, <1>15, <1>16, <1>17, <1>18, <1>19
        DEF IngressInv

(* The commit of a fan-out adds copies, and nothing else. *)
LEMMA CopiesKeepInv ==
  ASSUME IngressInv, NEW q \in Delivery, NEW sent \in SUBSET Listener, CommitCopies(q, sent)
  PROVE  IngressInv'
<1> USE DEF CommitCopies, messages, requests, found
<1>1. Typed /\ sent \subseteq Member
  BY TextsAssumption DEF IngressInv
<1>2. \A m, r : r \in Delivery /\ m \in copies[r] => m \in copies'[r]
  BY <1>1 DEF Typed
<1>3. Typed'
  BY <1>1 DEF Typed
<1>4. NoRowYet' /\ HeldWasAsked' /\ OpenIsUnique' /\ AppliedHasLetter'
  BY DEF IngressInv, NoRowYet, HeldWasAsked, OpenIsUnique, AppliedHasLetter, Letters,
         Open, Requester, Sender
<1>5. OneRowPerText' /\ AcceptedIsStored' /\ OriginalIsInItsRequest'
  BY DEF IngressInv, OneRowPerText, AcceptedIsStored, OriginalIsInItsRequest, Letters,
         Requester, Sender
<1>6. CandidatesAreOwn'
  BY <1>1, <1>2 DEF IngressInv, CandidatesAreOwn, Party, Requester, Sender
<1>7. RepliesComeFromParties'
  <2>1. SUFFICES ASSUME NEW d \in Delivery, kind[d] = "member_reply"
                 PROVE  Sender(d) = Requester(joined[d]) \/ Sender(d) \in copies'[joined[d]]
    BY DEF RepliesComeFromParties, Requester, Sender
  <2>2. joined[d] \in Delivery \/ copies'[joined[d]] = copies[joined[d]]
    BY <1>1 DEF Typed
  <2> QED BY <1>2, <2>1, <2>2 DEF IngressInv, RepliesComeFromParties
<1> QED BY <1>3, <1>4, <1>5, <1>6, <1>7 DEF IngressInv

(* A request that is closed stays what it was to its messages. *)
LEMMA CloseKeepsInv ==
  ASSUME IngressInv, NEW q \in Delivery, Close(q)
  PROVE  IngressInv'
<1> USE DEF Close, messages, found
<1>1. Typed /\ status[q] = "open" /\ status' = [status EXCEPT ![q] = "closed"]
  BY DEF IngressInv, Open
<1>2. \A r \in Delivery : /\ status'[r] = "absent" <=> status[r] = "absent"
                          /\ status'[r] = "open" => status[r] = "open"
  BY <1>1 DEF Typed
<1>3. Typed'
  BY <1>1 DEF Typed
<1>4. NoRowYet' /\ HeldWasAsked' /\ CandidatesAreOwn' /\ AppliedHasLetter'
  BY <1>2 DEF IngressInv, NoRowYet, HeldWasAsked, CandidatesAreOwn, AppliedHasLetter,
              Letters, Party, Requester, Sender
<1>5. OpenIsUnique'
  BY <1>2 DEF IngressInv, OpenIsUnique, Open, Requester, Sender
<1>6. OneRowPerText' /\ AcceptedIsStored' /\ RepliesComeFromParties'
  BY DEF IngressInv, OneRowPerText, AcceptedIsStored, RepliesComeFromParties,
         Requester, Sender
<1>7. OriginalIsInItsRequest'
  BY <1>2 DEF IngressInv, OriginalIsInItsRequest, Letters, Requester, Sender
<1> QED BY <1>3, <1>4, <1>5, <1>6, <1>7 DEF IngressInv

(* Every step keeps the invariant. *)
LEMMA NextKeepsInv == IngressInv /\ [Next]_vars => IngressInv'
<1> SUFFICES ASSUME IngressInv, [Next]_vars PROVE IngressInv'
  OBVIOUS
<1>1. Typed
  BY DEF IngressInv
<1>2. ASSUME NEW d \in Delivery, Reads(d) PROVE IngressInv'
  BY <1>2, ReadsKeepInv
<1>3. ASSUME NEW d \in Delivery, StartRequest(d) PROVE IngressInv'
  <2>1. Insert(d, "original_request", "null", d)
    BY <1>3 DEF StartRequest, DetermineInboundKind
  <2> QED BY <1>3, <2>1, InsertKeepsInv DEF StartRequest, At
<1>4. ASSUME NEW d \in Delivery, NEW q \in Delivery, JoinRequest(d, q) PROVE IngressInv'
  <2>1. Insert(d, "member_reply", "null", q)
    BY <1>4 DEF JoinRequest, DetermineInboundKind
  <2>2. Party(Sender(d), q)
    BY <1>4 DEF JoinRequest, IngressInv, CandidatesAreOwn
  <2> QED BY <1>4, <2>1, <2>2, InsertKeepsInv DEF JoinRequest, At, requests
<1>5. ASSUME NEW d \in Delivery, AskWhichRequest(d) PROVE IngressInv'
  <2>1. ASSUME NEW S \in Options(d) PROVE S \in SUBSET (cand[d] \cup {New})
    BY DEF Options
  <2>2. \E S \in SUBSET (cand[d] \cup {New}) : offered' = [offered EXCEPT ![d] = S]
    BY <1>5, <2>1 DEF AskWhichRequest
  <2> QED BY <1>5, <2>2, InsertKeepsInv DEF AskWhichRequest, Ask, At, requests
<1>6. ASSUME NEW d \in Delivery, RepeatQuestion(d) PROVE IngressInv'
  BY <1>6, InsertKeepsInv DEF RepeatQuestion, At, requests
<1>7. ASSUME NEW d \in Delivery, NEW q \in Delivery, ChooseRequest(d, q) PROVE IngressInv'
  BY <1>7, AttachKeepsInv DEF ChooseRequest, At, requests
<1>8. ASSUME NEW d \in Delivery, ChooseNew(d) PROVE IngressInv'
  BY <1>8, AttachKeepsInv DEF ChooseNew, At
<1>9. ASSUME NEW q \in Delivery, Close(q) PROVE IngressInv'
  BY <1>9, CloseKeepsInv
<1>10. ASSUME NEW q \in Delivery, NEW sent \in SUBSET Listener, CommitCopies(q, sent)
       PROVE  IngressInv'
  BY <1>10, CopiesKeepInv
<1>11. CASE UNCHANGED vars
  <2> USE <1>11 DEF vars, messages, requests, found
  <2>1. Typed' /\ NoRowYet' /\ HeldWasAsked' /\ CandidatesAreOwn' /\ OpenIsUnique'
    BY DEF IngressInv, Typed, NoRowYet, HeldWasAsked, CandidatesAreOwn, OpenIsUnique,
           Party, Open, Requester, Sender
  <2>2. AppliedHasLetter' /\ OneRowPerText' /\ AcceptedIsStored'
    BY DEF IngressInv, AppliedHasLetter, OneRowPerText, AcceptedIsStored, Letters
  <2>3. RepliesComeFromParties' /\ OriginalIsInItsRequest'
    BY DEF IngressInv, RepliesComeFromParties, OriginalIsInItsRequest, Letters,
           Requester, Sender
  <2> QED BY <2>1, <2>2, <2>3 DEF IngressInv
<1>12. CASE Next
  BY <1>2, <1>3, <1>4, <1>5, <1>6, <1>7, <1>8, <1>9, <1>10, <1>12 DEF Next, Handle, Reads
<1> QED BY <1>11, <1>12

(* The invariant from which the properties of Ingress follow. *)
THEOREM IngressInvariant == Spec => []IngressInv
BY InitInv, NextKeepsInv, PTL DEF Spec

-----------------------------------------------------------------------------
(* Held texts *)

(* A text still held is in no request, and its question has two letters.    *)
HeldHasLetters ==
  \A d \in Delivery : note[d] = "awaiting_choice" =>
    joined[d] = None /\ Cardinality(offered[d]) >= 2

(* N is not the first nor the second letter. *)
LEMMA TwoLetters ==
  ASSUME NEW n \in Nat, n >= 2
  PROVE  ChoiceLetters(n) \in SUBSET (0 .. (n - 1)) /\ {0, 1} \subseteq ChoiceLetters(n)
BY AssociationAssumption DEF ChoiceLetters

(* A set that has two members. *)
LEMMA AtLeastTwo ==
  ASSUME NEW S, IsFiniteSet(S), NEW x \in S, NEW y \in S, x # y
  PROVE  Cardinality(S) \in Nat /\ Cardinality(S) >= 2
<1>1. Cardinality(S) \in Nat
  BY FS_CardinalityType
<1>2. IsFiniteSet(S \ {x}) /\ Cardinality(S \ {x}) = Cardinality(S) - 1
  BY FS_RemoveElement
<1>3. Cardinality(S \ {x}) # 0 /\ Cardinality(S \ {x}) \in Nat
  BY <1>2, FS_EmptySet, FS_CardinalityType
<1> QED BY <1>1, <1>2, <1>3

(* Whichever candidates get a letter, there are two letters to choose from. *)
LEMMA OptionsAreTwo ==
  ASSUME Typed, NEW d \in Delivery, Cardinality(cand[d]) >= 2, NEW S \in Options(d)
  PROVE  Cardinality(S) >= 2
<1>1. cand[d] \in SUBSET Delivery /\ IsFiniteSet(cand[d]) /\ Cardinality(cand[d]) \in Nat
  BY TextsAssumption, FS_Subset, FS_CardinalityType DEF Typed
<1> DEFINE L == ChoiceLetters(Cardinality(cand[d]))
<1>2. IsFiniteSet(L) /\ 0 \in L /\ 1 \in L
  <2>1. IsFiniteSet(0 .. (Cardinality(cand[d]) - 1))
    BY <1>1, FS_Interval
  <2> QED BY <1>1, <2>1, TwoLetters, FS_Subset
<1>3. Cardinality(L) \in Nat /\ Cardinality(L) >= 2
  BY <1>2, AtLeastTwo
<1>4. PICK T \in SUBSET cand[d] :
        Cardinality(T) = Cardinality(L) /\ S = T \cup (IF Own(d) = {} THEN {New} ELSE {})
  BY DEF Options
<1>5. IsFiniteSet(S) /\ T \subseteq S
  <2>1. IsFiniteSet(T)
    BY <1>1, FS_Subset
  <2>2. S = T \/ S = T \cup {New}
    BY <1>4
  <2> QED BY <2>1, <2>2, FS_AddElement
<1>6. Cardinality(T) <= Cardinality(S) /\ Cardinality(S) \in Nat
  BY <1>5, FS_Subset, FS_CardinalityType
<1> HIDE DEF L
<1> QED BY <1>3, <1>4, <1>6

(* How a text comes to be held. *)
LEMMA HeldEffect ==
  ASSUME IngressInv, [Next]_vars, NEW e \in Delivery, note'[e] = "awaiting_choice"
  PROVE  \/ note[e] = "awaiting_choice" /\ joined'[e] = joined[e] /\ offered'[e] = offered[e]
         \/ /\ Cardinality(cand[e]) >= 2 /\ joined'[e] = None
            /\ \E S \in Options(e) : offered'[e] = S
<1>1. Typed
  BY DEF IngressInv
<1>2. ASSUME NEW d \in Delivery, Reads(d) PROVE UNCHANGED <<note, joined, offered>>
  BY <1>1, <1>2, ReadsEffect
<1>3. ASSUME NEW d \in Delivery,
             StartRequest(d) \/ RepeatQuestion(d) \/ \E q \in Delivery : JoinRequest(d, q)
      PROVE  /\ \E n \in {"null", "choice_unrecognized"} : note' = [note EXCEPT ![d] = n]
             /\ \E q : joined' = [joined EXCEPT ![d] = q]
             /\ offered' = offered
  BY <1>3 DEF StartRequest, RepeatQuestion, JoinRequest, Insert
<1>4. ASSUME NEW d \in Delivery, AskWhichRequest(d)
      PROVE  /\ note' = [note EXCEPT ![d] = "awaiting_choice"]
             /\ joined' = [joined EXCEPT ![d] = None] /\ Cardinality(cand[d]) >= 2
             /\ \E S \in Options(d) : offered' = [offered EXCEPT ![d] = S]
  BY <1>4 DEF AskWhichRequest, Ask, Insert
<1>5. ASSUME NEW d \in Delivery,
             ChooseNew(d) \/ \E q \in Delivery : ChooseRequest(d, q)
      PROVE  /\ note' = [note EXCEPT ![held[d]] = "choice_applied", ![d] = "choice_received"]
             /\ \E q : joined' = [joined EXCEPT ![held[d]] = q]
             /\ offered' = offered
  BY <1>5 DEF ChooseNew, ChooseRequest, Attach
<1>6. ASSUME NEW q \in Delivery, Close(q) \/ \E sent \in SUBSET Listener : CommitCopies(q, sent)
      PROVE  UNCHANGED <<note, joined, offered>>
  BY <1>6 DEF Close, CommitCopies, messages
<1>7. CASE UNCHANGED vars
  BY <1>7 DEF vars, messages
<1>8. CASE \E d \in Delivery : Reads(d)
  BY <1>2, <1>8
<1>9. CASE \E d \in Delivery :
             StartRequest(d) \/ RepeatQuestion(d) \/ \E q \in Delivery : JoinRequest(d, q)
  BY <1>1, <1>3, <1>9 DEF Typed
<1>10. CASE \E d \in Delivery : AskWhichRequest(d)
  <2>1. PICK d \in Delivery : AskWhichRequest(d)
    BY <1>10
  <2>2. CASE d = e
    BY <1>1, <1>4, <2>1, <2>2 DEF Typed
  <2>3. CASE d # e
    BY <1>1, <1>4, <2>1, <2>3 DEF Typed
  <2> QED BY <2>2, <2>3
<1>11. CASE \E d \in Delivery : ChooseNew(d) \/ \E q \in Delivery : ChooseRequest(d, q)
  BY <1>1, <1>5, <1>11 DEF Typed
<1>12. CASE \E q \in Delivery : Close(q) \/ \E sent \in SUBSET Listener : CommitCopies(q, sent)
  BY <1>6, <1>12
<1> QED BY <1>7, <1>8, <1>9, <1>10, <1>11, <1>12 DEF Next, Handle, Reads

(* No step leaves a held text without a choice. *)
THEOREM HeldTextsHaveAChoice == Spec => []HeldHasLetters
<1>1. Init => HeldHasLetters
  BY DEF Init, HeldHasLetters
<1>2. IngressInv /\ HeldHasLetters /\ [Next]_vars => HeldHasLetters'
  <2> SUFFICES ASSUME IngressInv, HeldHasLetters, [Next]_vars,
                      NEW e \in Delivery, note'[e] = "awaiting_choice"
               PROVE  joined'[e] = None /\ Cardinality(offered'[e]) >= 2
    BY DEF HeldHasLetters
  <2>1. CASE note[e] = "awaiting_choice" /\ joined'[e] = joined[e] /\ offered'[e] = offered[e]
    BY <2>1 DEF HeldHasLetters
  <2>2. CASE /\ Cardinality(cand[e]) >= 2 /\ joined'[e] = None
             /\ \E S \in Options(e) : offered'[e] = S
    BY <2>2, OptionsAreTwo DEF IngressInv
  <2> QED BY <2>1, <2>2, HeldEffect
<1> QED BY <1>1, <1>2, IngressInvariant, PTL DEF Spec

-----------------------------------------------------------------------------
(* Types, and what a sender could have answered *)

(* The rest of the types. *)
RestTyped ==
  /\ started \in SUBSET (Delivery \X Delivery) /\ fails \in Nat
  /\ visible \in [Delivery -> SUBSET Delivery]

(* What each step does to the rest of the variables. *)
LEMMA RestEffect ==
  ASSUME Typed, [Next]_vars
  PROVE  /\ started' = started \cap (Begun' \X Begun') \/ UNCHANGED started
            \/ \E d \in Delivery : started' = started \cup (Begun \X {d})
         /\ fails' \in {fails, fails + 1}
         /\ \/ UNCHANGED visible
            \/ \E d \in Delivery : visible' = [visible EXCEPT ![d] = {}] \/ Arrive(d)
<1>1. ASSUME NEW d \in Delivery, NEW r, Answer(d, r)
      PROVE  /\ started' = started \cap (Begun' \X Begun')
             /\ visible' = [visible EXCEPT ![d] = {}]
  BY <1>1 DEF Answer
<1>2. ASSUME NEW d \in Delivery, ArriveAgain(d) \/ StartRequest(d) \/ RequestConflict(d)
               \/ AskWhichRequest(d) \/ InsertRace(d) \/ AskRace(d) \/ RepeatQuestion(d)
               \/ ChooseNew(d) \/ LetterConflict(d) \/ Fail(d)
               \/ \E q \in Delivery : JoinRequest(d, q) \/ ChooseRequest(d, q)
      PROVE  (\E r : Answer(d, r)) /\ fails' \in {fails, fails + 1}
  BY <1>2 DEF ArriveAgain, StartRequest, RequestConflict, AskWhichRequest, InsertRace,
       AskRace, RepeatQuestion, ChooseNew, LetterConflict, Fail, JoinRequest, ChooseRequest
<1>3. ASSUME NEW d \in Delivery, Arrive(d)
      PROVE  started' = started \cup (Begun \X {d}) /\ fails' = fails
  BY <1>3 DEF Arrive
<1>4. ASSUME NEW d \in Delivery, FindPending(d) \/ FindOwn(d) \/ FindOthers(d)
      PROVE  UNCHANGED <<started, fails, visible>>
  BY <1>4 DEF FindPending, FindOwn, FindOthers
<1>5. ASSUME NEW q \in Delivery, Close(q) \/ \E sent \in SUBSET Listener : CommitCopies(q, sent)
      PROVE  UNCHANGED <<started, fails, visible>>
  BY <1>5 DEF Close, CommitCopies
<1>6. CASE UNCHANGED vars
  BY <1>6 DEF vars
<1> QED BY <1>1, <1>2, <1>3, <1>4, <1>5, <1>6 DEF Next, Handle

(* The rest of the types, whatever the bounds. *)
THEOREM RestIsTyped == Spec => []RestTyped
<1>1. Init => RestTyped
  BY DEF Init, RestTyped
<1>2. IngressInv /\ RestTyped /\ [Next]_vars => RestTyped'
  <2> SUFFICES ASSUME IngressInv, RestTyped, [Next]_vars PROVE RestTyped'
    OBVIOUS
  <2>1. Typed
    BY DEF IngressInv
  <2>2. Begun \subseteq Delivery /\ Begun' \subseteq Delivery
    BY DEF Begun
  <2>3. started' \in SUBSET (Delivery \X Delivery)
    BY <2>1, <2>2, RestEffect DEF RestTyped
  <2>4. fails' \in Nat
    BY <2>1, RestEffect DEF RestTyped
  <2>5. ASSUME NEW d \in Delivery, Arrive(d) PROVE visible' \in [Delivery -> SUBSET Delivery]
    BY <2>5 DEF Arrive, RestTyped, OwnRequests, SharedRequests
  <2>6. visible' \in [Delivery -> SUBSET Delivery]
    BY <2>1, <2>5, RestEffect DEF RestTyped
  <2> QED BY <2>3, <2>4, <2>6 DEF RestTyped
<1> QED BY <1>1, <1>2, IngressInvariant, PTL DEF Spec

(* Types: whatever overlaps, what is held has no kind and no request, and   *)
(* its sender a choice.                                                     *)
THEOREM TypeCorrect == Spec => []TypeOK
<1>1. IngressInv /\ HeldHasLetters /\ RestTyped => TypeOK
  BY DEF IngressInv, Typed, HeldHasLetters, RestTyped, AppliedHasLetter, TypeOK
<1> QED BY <1>1, IngressInvariant, HeldTextsHaveAChoice, RestIsTyped, PTL

(* What a sender could have answered when the text arrived, and what of it  *)
(* is still open, its handler finds: in its own requests or in those that   *)
(* have reached it, before it decides.                                      *)
VisibleIsFound ==
  \A d, q \in Delivery : q \in visible[d] =>
    /\ status[q] # "absent" /\ Party(Sender(d), q)
    /\ pc[d] = "others" /\ Open(q) => q \in cand[d] \/ Sender(d) \in copies[q]
    /\ pc[d] = "write" /\ Open(q) => q \in cand[d]

(* A request opens once, and who was sent a copy was.                       *)
LEMMA RequestEffect ==
  ASSUME IngressInv, [Next]_vars, NEW q \in Delivery
  PROVE  /\ status[q] # "absent" => status'[q] # "absent" /\ (Open(q)' => Open(q))
         /\ copies[q] \subseteq copies'[q]
<1>1. Typed
  BY DEF IngressInv
<1>2. ASSUME NEW d \in Delivery, Reads(d) PROVE UNCHANGED <<status, copies>>
  BY <1>1, <1>2, ReadsEffect
<1>3. ASSUME NEW d \in Delivery, StartRequest(d) \/ ChooseNew(d)
      PROVE  status' = [status EXCEPT ![d] = "open"] /\ copies' = copies /\ status[d] = "absent"
  BY <1>3 DEF StartRequest, ChooseNew, At, IngressInv, NoRowYet
<1>4. ASSUME NEW d \in Delivery, AskWhichRequest(d) \/ RepeatQuestion(d)
               \/ \E r \in Delivery : JoinRequest(d, r) \/ ChooseRequest(d, r)
      PROVE  UNCHANGED <<status, copies>>
  BY <1>4 DEF AskWhichRequest, RepeatQuestion, JoinRequest, ChooseRequest, requests
<1>5. ASSUME NEW r \in Delivery, Close(r)
      PROVE  status' = [status EXCEPT ![r] = "closed"] /\ copies' = copies
  BY <1>5 DEF Close
<1>6. ASSUME NEW r \in Delivery, NEW sent \in SUBSET Listener, CommitCopies(r, sent)
      PROVE  status' = status /\ copies' = [copies EXCEPT ![r] = @ \cup sent]
  BY <1>6 DEF CommitCopies, requests
<1>7. CASE UNCHANGED vars
  BY <1>7 DEF vars, requests, Open
<1>8. CASE \E d \in Delivery : Reads(d)
  BY <1>2, <1>8 DEF Open
<1>9. CASE \E d \in Delivery : StartRequest(d) \/ ChooseNew(d)
  BY <1>1, <1>3, <1>9 DEF Open, Typed
<1>10. CASE \E d \in Delivery : AskWhichRequest(d) \/ RepeatQuestion(d)
               \/ \E r \in Delivery : JoinRequest(d, r) \/ ChooseRequest(d, r)
  BY <1>4, <1>10 DEF Open
<1>11. CASE \E r \in Delivery : Close(r)
  BY <1>1, <1>5, <1>11 DEF Open, Typed
<1>12. CASE \E r \in Delivery : \E sent \in SUBSET Listener : CommitCopies(r, sent)
  BY <1>1, <1>6, <1>12 DEF Open, Typed
<1> QED BY <1>7, <1>8, <1>9, <1>10, <1>11, <1>12 DEF Next, Handle, Reads

(* How far a handler gets in one step, and with what. *)
LEMMA SearchEffect ==
  ASSUME Typed, RestTyped, [Next]_vars, NEW d \in Delivery
  PROVE  \/ visible'[d] = {}
         \/ /\ pc'[d] \notin {"others", "write"}
            /\ visible'[d] = OwnRequests(Sender(d)) \cup SharedRequests(Sender(d))
         \/ visible'[d] = visible[d] /\ pc'[d] \notin {"others", "write"}
         \/ /\ visible'[d] = visible[d] /\ pc'[d] = pc[d] /\ cand'[d] = cand[d]
         \/ /\ visible'[d] = visible[d] /\ pc'[d] = "others"
            /\ cand'[d] = OwnRequests(Sender(d))
         \/ /\ visible'[d] = visible[d] /\ pc[d] = "others" /\ pc'[d] = "write"
            /\ cand'[d] = cand[d] \cup SharedRequests(Sender(d))
<1>1. ASSUME NEW e \in Delivery, NEW r, Answer(e, r)
      PROVE  /\ pc' = [pc EXCEPT ![e] = "done"] /\ cand' = [cand EXCEPT ![e] = {}]
             /\ visible' = [visible EXCEPT ![e] = {}]
  BY <1>1 DEF Answer, Goto
<1>2. ASSUME NEW e \in Delivery, ArriveAgain(e) \/ StartRequest(e) \/ RequestConflict(e)
               \/ AskWhichRequest(e) \/ InsertRace(e) \/ AskRace(e) \/ RepeatQuestion(e)
               \/ ChooseNew(e) \/ LetterConflict(e) \/ Fail(e)
               \/ \E q \in Delivery : JoinRequest(e, q) \/ ChooseRequest(e, q)
      PROVE  \E r : Answer(e, r)
  BY <1>2 DEF ArriveAgain, StartRequest, RequestConflict, AskWhichRequest, InsertRace,
       AskRace, RepeatQuestion, ChooseNew, LetterConflict, Fail, JoinRequest, ChooseRequest
<1>3. ASSUME NEW e \in Delivery, \E r : Answer(e, r)
      PROVE  \/ visible'[d] = {}
             \/ visible'[d] = visible[d] /\ pc'[d] = pc[d] /\ cand'[d] = cand[d]
  BY <1>1, <1>3 DEF Typed, RestTyped
<1>4. CASE \E e \in Delivery : Arrive(e)
  BY <1>4 DEF Arrive, Goto, found, Typed, RestTyped
<1>5. CASE \E e \in Delivery : FindPending(e)
  <2>1. PICK e \in Delivery : FindPending(e)
    BY <1>5
  <2>2. /\ pc' = [pc EXCEPT ![e] = "own"] \/ pc' = [pc EXCEPT ![e] = "letter"]
        /\ cand' = cand /\ visible' = visible
    BY <2>1 DEF FindPending, Goto
  <2> QED BY <2>2 DEF Typed, RestTyped
<1>6. CASE \E e \in Delivery : FindOwn(e)
  BY <1>6 DEF FindOwn, Goto, Typed, RestTyped
<1>7. CASE \E e \in Delivery : FindOthers(e)
  BY <1>7 DEF FindOthers, At, Goto, Typed, RestTyped
<1>8. CASE \E q \in Delivery : Close(q) \/ \E sent \in SUBSET Listener : CommitCopies(q, sent)
  BY <1>8 DEF Close, CommitCopies, found
<1>9. CASE UNCHANGED vars
  BY <1>9 DEF vars, found
<1> QED BY <1>2, <1>3, <1>4, <1>5, <1>6, <1>7, <1>8, <1>9 DEF Next, Handle

(* No step lets a request escape that is still open. *)
THEOREM OpenRequestsAreFound == Spec => []VisibleIsFound
<1>1. Init => VisibleIsFound
  BY DEF Init, VisibleIsFound
<1>2. IngressInv /\ RestTyped /\ VisibleIsFound /\ [Next]_vars => VisibleIsFound'
  <2> SUFFICES ASSUME IngressInv, RestTyped, VisibleIsFound, [Next]_vars,
                      NEW d \in Delivery, NEW q \in Delivery, q \in visible'[d]
               PROVE  /\ status'[q] # "absent" /\ Party(Sender(d), q)'
                      /\ pc'[d] = "others" /\ Open(q)' => q \in cand'[d] \/ Sender(d) \in copies'[q]
                      /\ pc'[d] = "write" /\ Open(q)' => q \in cand'[d]
    BY DEF VisibleIsFound, Sender
  <2>1. Typed
    BY DEF IngressInv
  <2>2. /\ status[q] # "absent" => status'[q] # "absent" /\ (Open(q)' => Open(q))
        /\ copies[q] \subseteq copies'[q]
    BY RequestEffect
  <2>3. Party(Sender(d), q) => Party(Sender(d), q)'
    BY <2>2 DEF Party, Requester, Sender
  <2>4. CASE /\ pc'[d] \notin {"others", "write"}
             /\ visible'[d] = OwnRequests(Sender(d)) \cup SharedRequests(Sender(d))
    BY <2>2, <2>3, <2>4 DEF OwnRequests, SharedRequests, Open, Party
  <2>5. CASE visible'[d] = visible[d] /\ pc'[d] \notin {"others", "write"}
    BY <2>2, <2>3, <2>5 DEF VisibleIsFound
  <2>6. CASE visible'[d] = visible[d] /\ pc'[d] = pc[d] /\ cand'[d] = cand[d]
    BY <2>2, <2>3, <2>6 DEF VisibleIsFound
  <2>7. CASE /\ visible'[d] = visible[d] /\ pc'[d] = "others"
             /\ cand'[d] = OwnRequests(Sender(d))
    BY <2>2, <2>3, <2>7 DEF VisibleIsFound, OwnRequests, Party
  <2>8. CASE /\ visible'[d] = visible[d] /\ pc[d] = "others" /\ pc'[d] = "write"
             /\ cand'[d] = cand[d] \cup SharedRequests(Sender(d))
    BY <2>2, <2>3, <2>8 DEF VisibleIsFound, SharedRequests
  <2> QED BY <2>1, <2>4, <2>5, <2>6, <2>7, <2>8, SearchEffect
<1> QED BY <1>1, <1>2, IngressInvariant, RestIsTyped, PTL DEF Spec

(* A row of kind original_request appears at once only with a new request   *)
(* of a handler that has found no candidate.                                *)
LEMMA OriginalEffect ==
  ASSUME IngressInv, Next, NEW d \in Delivery, kind[d] = "absent", kind'[d] = "original_request"
  PROVE  pc[d] = "write" /\ cand[d] = {}
<1>1. Typed
  BY DEF IngressInv
<1>2. ASSUME NEW e \in Delivery, Reads(e) PROVE FALSE
  BY <1>1, <1>2, ReadsEffect
<1>3. ASSUME NEW e \in Delivery, StartRequest(e) PROVE pc[d] = "write" /\ cand[d] = {}
  BY <1>1, <1>3 DEF StartRequest, Insert, At, Typed
<1>4. ASSUME NEW e \in Delivery, AskWhichRequest(e) \/ RepeatQuestion(e) PROVE FALSE
  BY <1>1, <1>4 DEF AskWhichRequest, RepeatQuestion, Insert, Typed
<1>5. ASSUME NEW e \in Delivery, NEW q \in Delivery, JoinRequest(e, q) PROVE FALSE
  BY <1>1, <1>5 DEF JoinRequest, Insert, DetermineInboundKind, Typed
<1>6. ASSUME NEW e \in Delivery, ChooseNew(e) \/ \E q \in Delivery : ChooseRequest(e, q)
      PROVE  FALSE
  <2>1. held[e] # None /\ held[e] \in Delivery /\ kind[held[e]] # "absent"
    BY <1>1, <1>6 DEF ChooseNew, ChooseRequest, At, IngressInv, NoRowYet, HeldWasAsked, Typed
  <2>2. \E k \in {"member_reply", "original_request"} :
          kind' = [kind EXCEPT ![held[e]] = k, ![e] = "null"]
    BY <1>6 DEF ChooseNew, ChooseRequest, Attach
  <2> QED BY <1>1, <2>1, <2>2 DEF Typed
<1>7. ASSUME NEW q \in Delivery, Close(q) \/ \E sent \in SUBSET Listener : CommitCopies(q, sent)
      PROVE  FALSE
  BY <1>7 DEF Close, CommitCopies, messages
<1> QED BY <1>2, <1>3, <1>4, <1>5, <1>6, <1>7 DEF Next, Handle, Reads

(* A text that begins a request on its own leaves none of its sender's      *)
(* requests unasked, however long the handler has been at it.               *)
THEOREM NewRequestsLeaveNoneUnasked == Spec => NewOnlyWithoutCandidates
<1>1. ASSUME IngressInv, RestTyped, VisibleIsFound, [Next]_vars
      PROVE  [\A d \in Delivery : kind[d] = "absent" /\ kind'[d] = "original_request" =>
                \A q \in visible[d] : ~Open(q)]_vars
  <2> SUFFICES ASSUME Next, NEW d \in Delivery, kind[d] = "absent",
                      kind'[d] = "original_request", NEW q \in visible[d]
               PROVE  ~Open(q)
    BY <1>1
  <2> QED BY <1>1, OriginalEffect DEF VisibleIsFound, RestTyped
<1> QED BY <1>1, IngressInvariant, OpenRequestsAreFound, RestIsTyped, PTL
        DEF Spec, NewOnlyWithoutCandidates

-----------------------------------------------------------------------------
(* However many deliveries of a text overlap, it has one row. *)
THEOREM TextsHaveOneRow == Spec => []OneRowPerText
<1>1. IngressInv => OneRowPerText
  BY DEF IngressInv
<1> QED BY <1>1, IngressInvariant, PTL

(* What the provider was told is stored or a duplicate is stored. *)
THEOREM AcceptedTextsAreStored == Spec => []AcceptedIsStored
<1>1. IngressInv => AcceptedIsStored
  BY DEF IngressInv
<1> QED BY <1>1, IngressInvariant, PTL

(* No two open requests of one member, whatever races. *)
THEOREM MembersHaveOneOpenRequest == Spec => []OneOpenRequest
<1>1. ASSUME IngressInv PROVE OneOpenRequest
  <2>1. SUFFICES ASSUME NEW m \in Member PROVE Cardinality(OwnRequests(m)) <= 1
    BY DEF OneOpenRequest
  <2>2. \A x, y \in OwnRequests(m) : x = y
    BY <1>1 DEF IngressInv, OpenIsUnique, OwnRequests
  <2>3. CASE OwnRequests(m) = {}
    BY <2>3, FS_EmptySet
  <2>4. CASE OwnRequests(m) # {}
    <3>1. PICK x : OwnRequests(m) = {x}
      BY <2>2, <2>4
    <3> QED BY <3>1, FS_Singleton
  <2> QED BY <2>3, <2>4
<1> QED BY <1>1, IngressInvariant, PTL

(* A reply is in a request that its sender began or was sent a copy of. *)
THEOREM RepliesAreOfParties == Spec => []RepliesComeFromParties
<1>1. IngressInv => RepliesComeFromParties
  BY DEF IngressInv
<1> QED BY <1>1, IngressInvariant, PTL

(* A request and its original name each other, unless two letters of one    *)
(* question were applied.                                                   *)
THEOREM OriginalsAreInTheirRequests == Spec => []OriginalIsInItsRequest
<1>1. IngressInv => OriginalIsInItsRequest
  BY DEF IngressInv
<1> QED BY <1>1, IngressInvariant, PTL

-----------------------------------------------------------------------------
(* The choice among requests (Association) *)

(* The i-th request clearly wins: it is near enough, and every other one    *)
(* is at least the margin behind.                                           *)
ClearlyLeads(ordered, i) ==
  /\ ordered[i].score >= ASSOCIATION_FLOOR
  /\ \A j \in DOMAIN ordered \ {i} :
       ordered[i].score - ordered[j].score >= ASSOCIATION_MARGIN

(* What the elements of a sequence are, and so of a list of scores. *)
LEMMA ElementTyped ==
  ASSUME NEW S, NEW s \in Seq(S), NEW i \in DOMAIN s
  PROVE  s[i] \in S
OBVIOUS

(* Scores can be compared. *)
LEMMA ScoresTyped ==
  ASSUME NEW Id, NEW ordered \in Seq([id : Id, score : Int])
  PROVE  /\ Len(ordered) \in Nat /\ DOMAIN ordered = 1 .. Len(ordered)
         /\ \A j \in DOMAIN ordered : ordered[j].score \in Int
<1>1. Len(ordered) \in Nat /\ DOMAIN ordered = 1 .. Len(ordered)
  OBVIOUS
<1>2. \A j \in DOMAIN ordered : ordered[j] \in [id : Id, score : Int]
  BY ElementTyped
<1> QED BY <1>1, <1>2

(* "The request id that clearly wins": looking at the two best scores only, *)
(* leading_request answers with a request that leads all others by the      *)
(* margin, ties and scores exactly at a bound included.                     *)
THEOREM LeaderIsClear ==
  ASSUME NEW Id, NEW ordered \in Seq([id : Id, score : Int]),
         Descending(ordered), ~LowWeigh(ordered)
  PROVE  LeadingRequest(ordered) = ordered[1].id /\ ClearlyLeads(ordered, 1)
<1>0. /\ Len(ordered) \in Nat /\ DOMAIN ordered = 1 .. Len(ordered)
      /\ \A j \in DOMAIN ordered : ordered[j].score \in Int
  BY ScoresTyped
<1>1. ordered # <<>> /\ (\A j \in 1 .. Len(ordered) : ordered[j].score \in Int)
  BY <1>0 DEF LowWeigh
<1>2. Len(ordered) >= 1
  BY <1>0, <1>1
<1>3. ASSUME NEW j \in DOMAIN ordered \ {1}
      PROVE  ordered[1].score - ordered[j].score >= ASSOCIATION_MARGIN
  <2>1. ordered[1].score - ordered[2].score >= ASSOCIATION_MARGIN
    BY <1>0, <1>1, <1>2, <1>3, AssociationAssumption DEF LowWeigh
  <2>2. ordered[2].score >= ordered[j].score
    <3>1. CASE j = 2
      BY <3>1, <1>0
    <3>2. CASE j > 2
      BY <3>2, <1>0 DEF Descending
    <3> QED BY <3>1, <3>2, <1>0, <1>2, <1>3
  <2> QED BY <2>1, <2>2, <1>0, <1>2, <1>3, AssociationAssumption
<1>4. ordered[1].score >= ASSOCIATION_FLOOR
  BY <1>0, <1>2, AssociationAssumption DEF LowWeigh
<1> QED BY <1>3, <1>4 DEF ClearlyLeads, LeadingRequest

(* It misses none, and which of two equal scores the sort puts first makes  *)
(* no difference: a request that leads all others is first, and chosen.     *)
THEOREM ClearLeaderIsChosen ==
  ASSUME NEW Id, NEW ordered \in Seq([id : Id, score : Int]),
         Descending(ordered), NEW i \in DOMAIN ordered, ClearlyLeads(ordered, i)
  PROVE  LeadingRequest(ordered) = ordered[i].id
<1>1. /\ Len(ordered) \in Nat /\ DOMAIN ordered = 1 .. Len(ordered)
      /\ \A j \in DOMAIN ordered : ordered[j].score \in Int
  BY ScoresTyped
<1>2. i = 1
  <2>1. ASSUME i # 1 PROVE FALSE
    <3>1. 1 \in DOMAIN ordered \ {i} /\ 1 < i
      BY <2>1, <1>1
    <3>2. ordered[1].score >= ordered[i].score
      BY <3>1 DEF Descending
    <3>3. ordered[i].score - ordered[1].score >= ASSOCIATION_MARGIN
      BY <3>1 DEF ClearlyLeads
    <3>4. ordered[1].score \in Int /\ ordered[i].score \in Int
      BY <1>1, <3>1
    <3>5. ASSOCIATION_MARGIN \in Nat /\ ASSOCIATION_MARGIN > 0
      BY AssociationAssumption
    <3> QED BY <3>2, <3>3, <3>4, <3>5
  <2> QED BY <2>1
<1>3. ~LowWeigh(ordered)
  <2>1. ordered # <<>> /\ ordered[1].score \in Int
    BY <1>1, <1>2
  <2>2. ~(ordered[1].score < ASSOCIATION_FLOOR)
    BY <1>2, <2>1, AssociationAssumption DEF ClearlyLeads
  <2>3. ASSUME Len(ordered) > 1
        PROVE  ~(ordered[1].score - ordered[2].score < ASSOCIATION_MARGIN)
    <3>1. 2 \in DOMAIN ordered \ {1}
      BY <1>1, <2>3
    <3> QED BY <3>1, <1>1, <1>2, <2>1, AssociationAssumption DEF ClearlyLeads
  <2> QED BY <2>1, <2>2, <2>3 DEF LowWeigh
<1> QED BY <1>2, <1>3 DEF LeadingRequest

(* "N is reserved": however many candidates there are, no request gets the  *)
(* letter of a new request, and all that fit before it get one.             *)
THEOREM LettersStopBeforeN ==
  ASSUME NEW count \in Nat
  PROVE  ChoiceLetters(count) =
           0 .. ((IF count < NEW_REQUEST_LETTER THEN count ELSE NEW_REQUEST_LETTER) - 1)
BY AssociationAssumption DEF ChoiceLetters

-----------------------------------------------------------------------------
(* The roles of messages (MessageRole) *)

(* "an illegal combination fails in the domain rather than surfacing as an  *)
(* IntegrityError": what build_message_role returns, the table accepts, and *)
(* without falling back on an unknown.                                      *)
THEOREM BuiltRowsAreLegal ==
  ASSUME NEW some \in MessageKind, NEW member, NEW author,
         ~InvalidMessageShape(some, member, author)
  PROVE  RoleShape(BuildMessageRole(some, member, author)) = "true"
<1>1. ASSUME some \in MemberAuthored
      PROVE  MemberShape(BuildMessageRole(some, member, author)) = "true"
  BY <1>1 DEF MemberShape, BuildMessageRole, InvalidMessageShape, SenderRoleFor,
              MemberAuthored, Null, Truth, Equals, IsNotNull, AllOf
<1>2. ASSUME some = "moderator_clarification"
      PROVE  ModeratorShape(BuildMessageRole(some, member, author)) = "true"
  BY <1>2 DEF ModeratorShape, BuildMessageRole, InvalidMessageShape, SenderRoleFor,
              MemberAuthored, Null, Truth, Equals, IsNotNull, AllOf
<1>3. ASSUME some = "fanout_copy"
      PROVE  CopyShape(BuildMessageRole(some, member, author)) = "true"
  BY <1>3 DEF CopyShape, BuildMessageRole, InvalidMessageShape, SenderRoleFor,
              MemberAuthored, Null, Truth, Equals, IsNull, AllOf
<1> QED BY <1>1, <1>2, <1>3 DEF MessageKind, RoleShape, AnyOf

(* "The two layers agree": every row the table accepts as true and that has *)
(* a kind is one that build_message_role returns for its own columns.       *)
THEOREM LegalRowsAreBuilt ==
  ASSUME NEW some \in MessageKind, NEW role, NEW member, NEW author,
         RoleShape([kind |-> some, sender_role |-> role,
                    member_id |-> member, author_member_id |-> author]) = "true"
  PROVE  /\ ~InvalidMessageShape(some, member, author)
         /\ BuildMessageRole(some, member, author) =
              [kind |-> some, sender_role |-> role,
               member_id |-> member, author_member_id |-> author]
BY DEF BuildMessageRole, InvalidMessageShape, SenderRoleFor, MessageKind,
       MemberAuthored, Null, Truth, Equals, IsNull, IsNotNull, AllOf, AnyOf, RoleShape,
       MemberShape, ModeratorShape, CopyShape

(* They do not agree on rows with a NULL that the constraint compares: a    *)
(* reply that names its author and no member is accepted by the table.      *)
THEOREM UnknownIsAccepted ==
  ASSUME NEW author, author # Null
  PROVE  /\ InvalidMessageShape("member_reply", Null, author)
         /\ Accepted([kind |-> "member_reply", sender_role |-> "member",
                      member_id |-> Null, author_member_id |-> author])
BY DEF InvalidMessageShape, MemberAuthored, Null, Truth, Equals, IsNull,
       IsNotNull, AllOf, AnyOf, RoleShape, Accepted,
       MemberShape, ModeratorShape, CopyShape
=============================================================================
