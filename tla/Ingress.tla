------------------------------ MODULE Ingress ------------------------------
(***************************************************************************)
(* What an arriving text becomes: handle_incoming_message up to its first  *)
(* commit.  A text is a duplicate, the letter that answers a question, a   *)
(* reply to an open request of which its sender is a party, a text held    *)
(* until a letter says which request it answers, or a new request.         *)
(*                                                                         *)
(* The provider may deliver a text several times, also at once, and a      *)
(* member may text again before the first text is handled.  A handler      *)
(* reads in several statements and writes in one transaction at the end,   *)
(* in which nothing is read any more: only the two unique indexes decide   *)
(* there, and an insert waits for a transaction that has the same key.     *)
(* The write is therefore one step.                                        *)
(***************************************************************************)
EXTENDS Integers, FiniteSets, MessageRole, Association

CONSTANTS
  Delivery,  (* calls of the webhook                                       *)
  Text,
  TextOf,    (* TextOf[d]: the text that d delivers                        *)
  Member,    (* members of the one group, all of them active               *)
  From,      (* From[t]: who wrote t                                       *)
  Numbered,  (* texts that carry a provider_message_id                     *)
  Past,      (* deliveries long handled: each began a request, still open  *)
  Reached,   (* whom the fan-outs of those had reached by then              *)
  Listener,  (* the members whose copies of a fan-out are followed         *)
  Score,     (* the scores of a weighing, in hundredths                    *)
  None,
  New,       (* the option N, "this is a new request"                      *)
  MaxBusy,   (* how many handlers may run at once                          *)
  MaxFail,   (* how many handlers may fail                                 *)
  MaxClose   (* how many requests may be closed                            *)

Sender(d) == From[TextOf[d]]

ASSUME TextsAssumption ==
  /\ IsFiniteSet(Delivery) /\ TextOf \in [Delivery -> Text] /\ From \in [Text -> Member]
  /\ Numbered \subseteq Text /\ Listener \subseteq Member /\ Score \subseteq Int
  /\ MaxBusy \in Nat /\ MaxFail \in Nat /\ MaxClose \in Nat
ASSUME NamesAssumption ==
  None \notin Delivery /\ New \notin Delivery /\ NoRequest \notin Delivery
ASSUME PastAssumption ==
  /\ Past \subseteq Delivery /\ Reached \in [Past -> SUBSET Member]
  /\ \A d, e \in Past : d # e => Sender(d) # Sender(e) /\ TextOf[d] # TextOf[e]

(* A request is named by the delivery that created it, a message row by the *)
(* delivery that inserted it.                                               *)
VARIABLES
  kind,     (* messages.kind ("absent" before the row is there)            *)
  note,     (* messages.processing_notes, as far as ingress reads it       *)
  joined,   (* messages.request_id                                         *)
  offered,  (* the letters of a held text: messages.constraints            *)
  status,   (* requests.status                                             *)
  original, (* requests.original_message_id                                *)
  copies,   (* who has a committed fanout_copy row of the request          *)
  started,  (* <<e, d>>: of the running handlers and the held texts, the    *)
            (* transaction of e began before that of d                     *)
  pc, held, cand, (* each handler, the question and the requests it found  *)
  answer,   (* how each ends: committed (ok), 409 (duplicate) or 500       *)
  fails,
  visible   (* history, until it answers: the open requests of its sender  *)
            (* on arrival                                                  *)

messages == <<kind, note, joined, offered>>
requests == <<status, original>>
found    == <<held, cand>>
vars == <<messages, requests, copies, started, pc, found, answer, fails, visible>>

-----------------------------------------------------------------------------
Requester(q) == Sender(q)
Open(q) == status[q] = "open"
At(d, l) == pc[d] = l
Running(d) == pc[d] \notin {"none", "done"}
Goto(d, l) == pc' = [pc EXCEPT ![d] = l]

(* What has a transaction whose beginning may matter yet. *)
Begun == {d \in Delivery : Running(d) \/ note[d] = "awaiting_choice"}

(* The handler of d has the result r and is done with its variables.  (The   *)
(* last conjunct of an action: it looks at note' through Begun'.)            *)
Answer(d, r) ==
  /\ Goto(d, "done")
  /\ answer' = [answer EXCEPT ![d] = r]
  /\ cand' = [cand EXCEPT ![d] = {}]
  /\ visible' = [visible EXCEPT ![d] = {}]
  /\ started' = started \cap (Begun' \X Begun')
  /\ UNCHANGED held

(* find_by_provider_message_id: only texts with an id can be found. *)
Stored(d) == \E e \in Delivery :
  kind[e] # "absent" /\ TextOf[e] = TextOf[d] /\ TextOf[d] \in Numbered

TakenFaulty(d) == FALSE

(* messages.provider_message_id is UNIQUE. *)
Taken(d) == Stored(d)

HasOpenFaulty(d) == \E q \in cand[d] : Open(q) /\ Requester(q) = Sender(d)

(* idx_requests_one_open_per_requester *)
HasOpen(d) == \E q \in Delivery : Open(q) /\ Requester(q) = Sender(d)

(* Of several questions to one member the newest, by created_at: the start  *)
(* of the transaction that holds the text.                                  *)
Questions(m) ==
  {e \in Delivery : Sender(e) = m /\ kind[e] = "null" /\ note[e] = "awaiting_choice"}
Later(d, e) == <<e, d>> \in started
PendingClarification(m, p) ==
  p \in Questions(m) /\ \A e \in Questions(m) \ {p} : Later(p, e)

(* find_open_for_requester, find_open_for_participant *)
OwnRequests(m) == {q \in Delivery : Open(q) /\ Requester(q) = m}
SharedRequestsFaulty(m) == {q \in Delivery : Open(q)}
SharedRequests(m) == {q \in Delivery : Open(q) /\ m \in copies[q]}

(* The requests that the candidates S may lead to, whatever the scores.     *)
(* Without the embeddings there is no leader.                               *)
Weigh(S) ==
  {LeadingRequest(Ordered(score)) : score \in [S -> Score]} \cup {NoRequest}

-----------------------------------------------------------------------------
Init ==
  /\ kind = [d \in Delivery |-> IF d \in Past THEN "original_request" ELSE "absent"]
  /\ note = [d \in Delivery |-> "null"]
  /\ joined = [d \in Delivery |-> IF d \in Past THEN d ELSE None]
  /\ offered = [d \in Delivery |-> {}]
  /\ status = [d \in Delivery |-> IF d \in Past THEN "open" ELSE "absent"]
  /\ original = [d \in Delivery |-> IF d \in Past THEN d ELSE None]
  /\ copies = [d \in Delivery |-> IF d \in Past THEN Reached[d] ELSE {}]
  /\ started = {}
  /\ pc = [d \in Delivery |-> IF d \in Past THEN "done" ELSE "none"]
  /\ held = [d \in Delivery |-> None]
  /\ cand = [d \in Delivery |-> {}]
  /\ answer = [d \in Delivery |-> IF d \in Past THEN "ok" ELSE "none"]
  /\ fails = 0
  /\ visible = [d \in Delivery |-> {}]

-----------------------------------------------------------------------------
(* The reads *)

(* The provider calls.  A text already stored is a duplicate. *)
ArriveAgain(d) ==
  /\ At(d, "none") /\ Stored(d)
  /\ UNCHANGED <<messages, requests, copies, fails>>
  /\ Answer(d, "duplicate")

Arrive(d) ==
  /\ At(d, "none") /\ ~Stored(d)
  /\ Cardinality({e \in Delivery : Running(e)}) < MaxBusy
  /\ started' = started \cup (Begun \X {d})
  /\ visible' = [visible EXCEPT ![d] = OwnRequests(Sender(d)) \cup SharedRequests(Sender(d))]
  /\ Goto(d, "pending")
  /\ UNCHANGED <<messages, requests, copies, found, answer, fails>>

(* A sender with an unanswered question sends a letter. *)
FindPending(d) ==
  /\ At(d, "pending")
  /\ \/ Questions(Sender(d)) = {} /\ Goto(d, "own") /\ UNCHANGED held
     \/ \E p \in Delivery :
          /\ PendingClarification(Sender(d), p)
          /\ held' = [held EXCEPT ![d] = p]
          /\ Goto(d, "letter")
  /\ UNCHANGED <<messages, requests, copies, started, cand, answer, fails, visible>>

(* _candidate_requests: the sender's own request ... *)
FindOwn(d) ==
  /\ At(d, "own")
  /\ cand' = [cand EXCEPT ![d] = OwnRequests(Sender(d))]
  /\ Goto(d, "others")
  /\ UNCHANGED <<messages, requests, copies, started, held, answer, fails, visible>>

FindOthersFaulty(d) ==
  /\ At(d, "others")
  /\ cand' = [cand EXCEPT ![d] = IF @ = {} THEN @ ELSE @ \cup SharedRequests(Sender(d))]
  /\ Goto(d, "write")
  /\ UNCHANGED <<messages, requests, copies, started, held, answer, fails, visible>>

(* ... and those whose fan-out names the sender. *)
FindOthers(d) ==
  /\ At(d, "others")
  /\ cand' = [cand EXCEPT ![d] = @ \cup SharedRequests(Sender(d))]
  /\ Goto(d, "write")
  /\ UNCHANGED <<messages, requests, copies, started, held, answer, fails, visible>>

-----------------------------------------------------------------------------
(* The writes of a text *)

(* The row of d is inserted. *)
Insert(d, k, n, q) ==
  /\ kind' = [kind EXCEPT ![d] = k]
  /\ note' = [note EXCEPT ![d] = n]
  /\ joined' = [joined EXCEPT ![d] = q]

(* No candidate: a new request, of which the text is the original. *)
StartRequest(d) ==
  /\ At(d, "write") /\ cand[d] = {}
  /\ ~HasOpen(d) /\ ~Taken(d)
  /\ status' = [status EXCEPT ![d] = "open"]
  /\ original' = [original EXCEPT ![d] = d]
  /\ Insert(d, DetermineInboundKind(FALSE), "null", d)
  /\ UNCHANGED <<offered, copies, fails>>
  /\ Answer(d, "ok")

RequestConflictFaulty(d) ==
  /\ At(d, "write") /\ cand[d] = {} /\ HasOpen(d)
  /\ UNCHANGED <<messages, requests, copies, fails>>
  /\ Answer(d, "duplicate")

(* The insert of the request violates its unique index, outside the try     *)
(* that looks for duplicates: an internal error.                            *)
RequestConflict(d) ==
  /\ At(d, "write") /\ cand[d] = {} /\ HasOpen(d)
  /\ UNCHANGED <<messages, requests, copies, fails>>
  /\ Answer(d, "error")

(* One candidate, or one that clearly leads: a reply. *)
JoinRequest(d, q) ==
  /\ At(d, "write") /\ q \in cand[d] /\ ~Taken(d)
  /\ cand[d] = {q} \/ q \in Weigh(cand[d])
  /\ Insert(d, DetermineInboundKind(TRUE), "null", q)
  /\ UNCHANGED <<offered, requests, copies, fails>>
  /\ Answer(d, "ok")

(* None of several leads, or the embeddings fail. *)
AskFaulty(d) == At(d, "write") /\ cand[d] # {}
Ask(d) ==
  At(d, "write") /\ Cardinality(cand[d]) >= 2 /\ NoRequest \in Weigh(cand[d])

(* The letters go to the sender's own request first, and then to the newest *)
(* copies, as far as they last.  N is for whoever has no request.           *)
Own(d) == {q \in cand[d] : Requester(q) = Sender(d)}
Options(d) ==
  {S \cup (IF Own(d) = {} THEN {New} ELSE {}) :
     S \in {T \in SUBSET cand[d] :
             Cardinality(T) = Cardinality(ChoiceLetters(Cardinality(cand[d])))
             /\ Own(d) \subseteq T}}

(* The text is held, its kind not stamped, and the sender is asked. *)
AskWhichRequest(d) ==
  /\ Ask(d) /\ ~Taken(d)
  /\ \E letters \in Options(d) : offered' = [offered EXCEPT ![d] = letters]
  /\ Insert(d, "null", "awaiting_choice", None)
  /\ UNCHANGED <<requests, copies, fails>>
  /\ Answer(d, "ok")

(* The insert of the message violates UNIQUE: another delivery of the text  *)
(* was first.                                                               *)
InsertRace(d) ==
  /\ At(d, "write") /\ Taken(d)
  /\ cand[d] # {} \/ ~HasOpen(d)
  /\ UNCHANGED <<messages, requests, copies, fails>>
  /\ Answer(d, "duplicate")

(* A held text is inserted outside that try. *)
AskRace(d) ==
  /\ Ask(d) /\ Taken(d)
  /\ UNCHANGED <<messages, requests, copies, fails>>
  /\ Answer(d, "error")

-----------------------------------------------------------------------------
(* The writes of a letter: _handle_choice *)

(* attach_held_message stamps the held row p, whatever it is by now, and    *)
(* the letter gets a row of its own.                                        *)
Attach(d, p, k, q) ==
  /\ kind' = [kind EXCEPT ![p] = k, ![d] = "null"]
  /\ note' = [note EXCEPT ![p] = "choice_applied", ![d] = "choice_received"]
  /\ joined' = [joined EXCEPT ![p] = q]

(* No letter of the question: it is asked again. *)
RepeatQuestion(d) ==
  /\ At(d, "letter") /\ ~Taken(d)
  /\ Insert(d, "null", "choice_unrecognized", None)
  /\ UNCHANGED <<offered, requests, copies, fails>>
  /\ Answer(d, "ok")

ChooseRequest(d, q) ==
  /\ At(d, "letter") /\ q \in offered[held[d]] \ {New} /\ ~Taken(d)
  /\ Attach(d, held[d], "member_reply", q)
  /\ UNCHANGED <<offered, requests, copies, fails>>
  /\ Answer(d, "ok")

ChooseNewFaulty(d) ==
  /\ At(d, "letter") /\ New \in offered[held[d]] /\ ~Taken(d) /\ ~HasOpen(d)
  /\ status' = [status EXCEPT ![d] = "open"]
  /\ original' = [original EXCEPT ![d] = d]
  /\ Attach(d, held[d], "original_request", d)
  /\ UNCHANGED <<offered, copies, fails>>
  /\ Answer(d, "ok")

(* N: the held text becomes the original of a new request. *)
ChooseNew(d) ==
  /\ At(d, "letter") /\ New \in offered[held[d]] /\ ~Taken(d) /\ ~HasOpen(d)
  /\ status' = [status EXCEPT ![d] = "open"]
  /\ original' = [original EXCEPT ![d] = held[d]]
  /\ Attach(d, held[d], "original_request", d)
  /\ UNCHANGED <<offered, copies, fails>>
  /\ Answer(d, "ok")

(* Either unique index: the whole letter is rolled back. *)
LetterConflict(d) ==
  /\ At(d, "letter")
  /\ Taken(d) \/ (New \in offered[held[d]] /\ HasOpen(d))
  /\ UNCHANGED <<messages, requests, copies, fails>>
  /\ Answer(d, "error")

-----------------------------------------------------------------------------
(* The surroundings *)

(* The handler dies or raises before its commit. *)
Fail(d) ==
  /\ Running(d)
  /\ fails < MaxFail /\ fails' = fails + 1
  /\ UNCHANGED <<messages, requests, copies>>
  /\ Answer(d, "error")

(* fan_out sends the texts one by one; the rows of all that went out become *)
(* visible with its commit.                                                 *)
CommitCopies(q, sent) ==
  /\ status[q] # "absent" /\ Requester(q) \notin sent /\ ~(sent \subseteq copies[q])
  /\ copies' = [copies EXCEPT ![q] = @ \cup sent]
  /\ UNCHANGED <<messages, requests, started, pc, found, answer, fails, visible>>

(* A moderator or the sweep closes the request. *)
Close(q) ==
  /\ Open(q) /\ Cardinality({r \in Delivery : status[r] = "closed"}) < MaxClose
  /\ status' = [status EXCEPT ![q] = "closed"]
  /\ UNCHANGED <<messages, original, copies, started, pc, found, answer, fails, visible>>

Handle(d) ==
  \/ ArriveAgain(d) \/ Arrive(d) \/ FindPending(d) \/ FindOwn(d) \/ FindOthers(d)
  \/ StartRequest(d) \/ RequestConflict(d) \/ AskWhichRequest(d)
  \/ InsertRace(d) \/ AskRace(d)
  \/ RepeatQuestion(d) \/ ChooseNew(d) \/ LetterConflict(d)
  \/ \E q \in Delivery : JoinRequest(d, q) \/ ChooseRequest(d, q)

Next ==
  \/ \E d \in Delivery : Handle(d) \/ Fail(d)
  \/ \E q \in Delivery : Close(q) \/ \E sent \in SUBSET Listener : CommitCopies(q, sent)

Spec == Init /\ [][Next]_vars

-----------------------------------------------------------------------------
(* Properties *)

(* Types; what is held has no kind and no request, and a choice of letters. *)
TypeOK ==
  /\ kind \in [Delivery -> {"absent", "null", "original_request", "member_reply"}]
  /\ note \in [Delivery -> {"null", "awaiting_choice", "choice_applied",
                            "choice_received", "choice_unrecognized"}]
  /\ joined \in [Delivery -> Delivery \cup {None}]
  /\ offered \in [Delivery -> SUBSET (Delivery \cup {New})]
  /\ status \in [Delivery -> {"absent", "open", "closed"}]
  /\ original \in [Delivery -> Delivery \cup {None}]
  /\ copies \in [Delivery -> SUBSET Member]
  /\ started \in SUBSET (Delivery \X Delivery)
  /\ pc \in [Delivery -> {"none", "pending", "own", "others", "write", "letter", "done"}]
  /\ held \in [Delivery -> Delivery \cup {None}]
  /\ cand \in [Delivery -> SUBSET Delivery]
  /\ answer \in [Delivery -> {"none", "ok", "duplicate", "error"}]
  /\ fails \in Nat
  /\ visible \in [Delivery -> SUBSET Delivery]
  /\ \A d \in Delivery : note[d] = "awaiting_choice" =>
       kind[d] = "null" /\ joined[d] = None /\ Cardinality(offered[d]) >= 2

(* "provider retries must not create duplicate rows": however the           *)
(* deliveries of a text overlap, whichever way each of them goes, it has    *)
(* one row - be it a message, a held text or a letter.                      *)
OneRowPerText ==
  \A d, e \in Delivery :
    (/\ kind[d] # "absent" /\ kind[e] # "absent"
     /\ TextOf[d] = TextOf[e] /\ TextOf[d] \in Numbered) => d = e

(* A text the provider need not deliver again is there: "ok" and "duplicate" *)
(* mean a row.  Another violation (of the index of requests) must not be     *)
(* taken for a duplicate.                                                    *)
AcceptedIsStored ==
  \A d \in Delivery : answer[d] \in {"ok", "duplicate"} =>
    \E e \in Delivery : TextOf[e] = TextOf[d] /\ kind[e] # "absent"

(* A member has at most one open request (idx_requests_one_open_per_       *)
(* requester), also when two first texts race, and when a letter N meets a  *)
(* text that has begun a request since the question.                        *)
OneOpenRequest == \A m \in Member : Cardinality(OwnRequests(m)) <= 1

(* A text joins only a request its sender has begun or was sent ("decided   *)
(* from explicit message records"), also through the letters of a question. *)
RepliesComeFromParties ==
  \A d \in Delivery : kind[d] = "member_reply" =>
    Sender(d) = Requester(joined[d]) \/ Sender(d) \in copies[joined[d]]

(* A text that begins a request on its own, without a letter N, leaves none *)
(* of the sender's requests unasked: each one open on arrival has closed.   *)
NewOnlyWithoutCandidates ==
  [][\A d \in Delivery : kind[d] = "absent" /\ kind'[d] = "original_request" =>
       \A q \in visible[d] : ~Open(q)]_vars

(* The letters that have been applied to the held text p. *)
Letters(p) == {d \in Delivery : held[d] = p /\ note[d] = "choice_received"}
(* Request and original message name each other and the same member, in     *)
(* spite of the detour over a question.  Only when two letters were read    *)
(* before either was applied can the second move the text elsewhere.        *)
OriginalIsInItsRequest ==
  \A q \in Delivery : status[q] # "absent" =>
    /\ original[q] # None /\ Sender(original[q]) = Requester(q)
    /\ \/ Cardinality(Letters(original[q])) > 1
       \/ kind[original[q]] = "original_request" /\ joined[original[q]] = q

=============================================================================
