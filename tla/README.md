# TextRoute in TLA+

TextRoute lets a group talk by SMS through one phone number. A member texts the
group; the text becomes a *request*, is moderated or not according to the
policy of the group, goes out to other members, collects their replies, and is
closed in the end. This directory models the API that does it
(`src/textroute-api`) and the two clients that poll and click through it, checks
the models with TLC and proves their safety properties with TLAPS.

The program is a set of short HTTP handlers and cron scripts that share one
PostgreSQL database. Nothing in memory survives a handler, so the hard part is
what handlers do to each other's rows: every operation reads a row, decides,
and writes it by id in a later statement, often with a commit, an SMS or a
call to a language model in between.

## 1. Inventory

Paths are relative to `src/textroute-api/src`. "Status" is the state of this
development.

| Component | State | Operations | Status |
|---|---|---|---|
| Routing and moderation (`services/inbound_message_service.py` from the first commit of an original request, `moderation_service.py`, `routing_service.py`, `messaging_service.py`, `domain/message_status.py`, `routing_policy.py`) | `messages.workflow_status`, `routing_policy`, `routed_recipient_ids`; `fanout_copy` rows; `authorized`, `delivered`, `delivery_failed` events; what the provider has accepted | process, leave to moderator, authorize by policy, approve, reject, fan out | `MessageRouting` |
| Intent discovery (`services/intent_service.py`, `domain/intent_status.py`) | `requests.intent_status` and analysis columns, `messages.processing_notes` of replies | discover, fail, claim, defer, record | `IntentStage` |
| Request lifecycle (`services/request_service.py`, `core/managers/request_manager.py`, `scripts/sweep_requests.py`) | `requests.status`, `expires_at`, `last_activity_at`, `completed_at`, `cancelled_at`; closing events | complete, cancel, sweep, moderator message, touch | `RequestLifecycle` |
| Ingress and association (`inbound_message_service.py` up to the first commit, `domain/association.py`) | `messages.provider_message_id`, held texts and their letter map, the one open request of a member | duplicate check, candidates, weigh, ask, apply a letter, create | `Ingress`, `Association`, and in the two modules above |
| Message roles (`domain/message_role.py`) | none: functions, and the constraint `messages_role_shape_check` | `build_message_role`, `is_routable`, `determine_inbound_kind` | `MessageRole` |
| Members (`services/member_service.py`, `core/managers/membership_manager.py`) | memberships, profiles, consents | add, update, the last-moderator rule | `Directory` (names and changed phone numbers left out), `SwitchMembership` |
| Group setup (`services/group_service.py`, `phone_number_manager.py`) | groups, the pool of numbers | create, set policy, assign a number | `Directory`, `SetRoutingPolicy` |
| Moderator sign-in (`services/auth_service.py`) | challenges, attempts, sessions | challenge, verify, authenticate, log out | `SignIn`, `OneTimeCode` |
| Conversation feed, SMS simulator (`services/simulator_service.py`, `message_manager.list_conversation`, `src/tools/sms-simulator`) | the bubbles and the cursor of a polling client | load, poll, send | `Conversation` |
| Moderator web application (`src/moderator-web`) | page state, session context | React pages over the API | `RequestsPage` (the page of requests; not the others) |
| AI, prompts, keyword processor (`ai/`, `prompts/`, `core/processors`, `core/providers/request_analyzer.py`) | none | calls to a model | inputs of the models: they answer or raise |
| Routes, schemas, configuration (`api/`, `schemas/`, `config/`) | none | each route calls one service operation | not modelled: adapters |
| Tables and sessions (`models/`, `db/`) | the rows | | the variables of the modules |
| Infrastructure, documents (`src/infra`, `src/docs`) | none | | not modelled; the cron line of `src/DEPLOY.md` is the fairness of the sweep |

How they interact:

* The SMS provider calls the inbound webhook. It creates the message and its
  request, or adds a reply to a request, and commits. An original request is
  then processed and, in an `auto_group` group, authorized and sent by the same
  handler; otherwise a moderator approves or rejects it over the API.
* When the webhook has answered, a background task (`discover_intent`) analyses
  the new request. Replies that come before it has finished are deferred and
  recorded by it.
* Every message that enters a request moves `last_activity_at`, which the sweep
  reads. The sweep and the retry of intent discovery are one cron script.
* Everything meets in four tables (`messages`, `requests`, `request_events`,
  `groups` with its memberships). There is no other channel.

What makes each component correct, and what makes it hard:

* *Routing.* Nobody is texted without an authorization that names them, nobody
  twice on the same one, and the record says what happened. Hard: two
  moderators, a moderator and the policy, edits between read and use, a crash
  in the middle of a loop of sends, a lost answer of the provider.
* *Intent.* One actor records each reply, after the description it is read with
  is committed; ready is final; every request gets there. Hard: the reply and
  the worker look at each other's rows without a lock.
* *Lifecycle.* The row agrees with the trail of events; closed is for good;
  every request closes, and for the reason it gives. Hard: closers that have
  all read "open", overlapping sweeps, a clock that stands still within a
  transaction.
* *Ingress.* One message per text, at most one open request per member, a reply
  in the request it answers. Hard: duplicate and concurrent deliveries, copies
  that become visible late, two answers to one question.
* *Members and setup.* A group keeps a moderator, an enrolment demotes nobody, a
  number goes to one group, every call ends. Hard: check-then-write in two
  statements, writes from a row read earlier, locks taken in different orders.
* *Sign-in.* A code is guessed a bounded number of times and redeemed once; who
  is demoted sees no page. Hard: concurrent attempts, a text sent from inside
  a transaction, a session that outlives a role.
* *The two clients.* What is on the screen is of the conversation, or the
  request, the user is on, complete and without doubles. Hard: calls that
  overlap and are answered in any order, by a server that goes on.

The hazards, each at its line and with the properties that cover it, are in
`PROJECT.json`; one that no run covers names the theorem that does, or says
why there is none.

## 2. Plan

The order in which the modules were written, the most important first:

1. `MessageRouting`, with the abstract `AuthorizedSends` it implements.
2. `IntentStage`.
3. `RequestLifecycle`.
4. `Ingress`: deliveries and duplicates, the unique open request, the weighing
   and the letter question, on top of the functions in `Association`
   (`leading_request`, `choice_letters`) and `MessageRole`
   (`build_message_role` against the constraint of the table).
5. `SignIn`, with the abstract `OneTimeCode` it implements.
6. `Directory`: enrolment, the last-moderator rule, create_group and the pool of
   numbers.
7. `Conversation` and `RequestsPage`, the clients.
8. Proofs of the safety properties of 1 to 7.

All of it is done. Worth adding: one composition of ingress, routing and
lifecycle over one set of requests (each module has the steps of its neighbours
that it needs, as its environment: `Receive` in `MessageRouting`, `CommitCopies`
and `Close` in `Ingress`, `Join` and `SendCopy` in `RequestLifecycle`); an
abstract specification of ingress.

## 3. Conventions

*Transactions.* The database runs at READ COMMITTED. A handler is a sequence of
atomic steps cut at its commits and at the reads whose result it keeps: one
step per read that is used later, one per commit. What is flushed and not yet
committed is in variables of the handler (`ok` in `MessageRouting`, `batch` in
`IntentStage`, `todo` and `lock` in `RequestLifecycle`, `seen` in `Directory`) and is lost with it. SQLAlchemy
expires a row at each commit, so a field read after a commit is read again;
that decides which value a later step uses.

*Locks.* A row that a transaction has updated is locked until it ends. Where
another transaction could notice, the lock is a variable (`lock`, in `Directory` also
`profile`, and `taken` for numbers). In `MessageRouting` it is left out: a fan-out holds the row of the
request while it sends, which would only delay other handlers, so the model has
all the interleavings of the code and some more. An update by the ORM writes the
columns that differ from the values loaded, no others (`Enrolled`, `Edited` in
`Directory`).

*Data.* Bodies, names, numbers, labels and payloads that no property reads are
left out. A list that the code makes free of duplicates (`dict.fromkeys`) and
whose order no property sees is a set.

*Faulty variants.* A definition whose name ends in `Faulty` is the one after it with a
plausible bug. No specification uses it; put in the place of the original it
must make the named run fail, which shows that the property notices the code.

## 4. Modules

### MessageRouting, AuthorizedSends

One action per step of the handlers of `inbound_message_service` (the webhook
of a message is identified with the message: `Receive`, `ReadPolicy`,
`Process`, `ProcessFails`, `LeaveToModerator`, `DecideAutomatic`, `Authorize`),
of `moderation_service` (`ApproveLoad`, `Approve`, `RejectLoad`, `Reject`) and
of `fan_out`, which webhooks and moderators run alike (`FanOutCheck` to
`FanOutFinish`, one step per send: accepted, refused, or accepted with the
answer lost). The environment edits the policy, switches memberships, takes and
gives the group's number, and lets handlers die. `sms` is what the provider has
accepted: the truth the stored record (`copies`, `failed`) is compared with.
`inForce` is a history variable: the policies the group has had from the keyword
pass of a message (`ReadPolicy`) to the decision about it (`DecideAutomatic`).

`AuthorizedSends` is what the group is promised: an authorization names people
other than the author, is given once and never widened, and is good for at most
one text to each. It promises neither that a text is sent nor that only one
authorizer acts, because the code does not (see the findings).

### IntentStage

One request, the webhooks of its replies (`Arrive`, `Look`, `Defer`, `Record`)
and the runs of `IntentService.discover` (`Start`, `Apply`, `ClaimWon`,
`CommitReady`, `RecordClaimed`, ...). `notes` is `messages.processing_notes`, where `null` is
any note that the intent stage does not read; `recorders` is a history variable. `lock` is the row
of the request, which inserting a message updates too.

### RequestLifecycle

Any number of requests, the texts that join them (directly, or held and then
attached by a letter), copies and moderator messages that go out, calls that
complete or cancel, and sweeps. `began` is the start of a transaction, the time
`func.now()` gives. `closings` are the closing events of a request in the order of
their commits; each has `at`, its `created_at`, by which the code orders the trail
when it reads it, and `committed`, a history field. A sweep reads all stale
requests at once (`ListStale`), updates them one by one (`Expire`, which waits
for locks) and commits once. Two sweeps can deadlock; the database aborts one and
grants the row to the other. The check of the status and the write are two
steps for every closer. All requests are created at time 0. A letter is a transaction of its
own, which begins at some time between the question and the write
(`HandleChoice`).

### Ingress, Association, MessageRole

What an arriving text becomes, for the members of one group. A delivery is one
call of the webhook; several deliveries may carry one text. The reads are a
step each (`Arrive`, `FindPending`, `FindOwn`, `FindOthers`); then comes one
transaction that writes and in which nothing is read, so it is one step:
`StartRequest`, `JoinRequest`, `AskWhichRequest` for a text, `ChooseRequest`,
`ChooseNew`, `RepeatQuestion` for a letter, and `RequestConflict`,
`InsertRace`, `AskRace`, `LetterConflict` for what the two unique indexes
reject. A request is named by the delivery that created it. The score of each
candidate and the letter a text is are free choices; what is made of the scores
is `Weigh`, by `LeadingRequest` of `Association`, and which letters are offered
is `Options`, by `ChoiceLetters`. `Past` are texts handled before the run.
Fan-outs, closings and deaths are the environment. `started` says which of two
transactions began first, which is the order of `created_at`, as far as a later
step can ask (`Begun`); `visible` is a history variable.

`Association` and `MessageRole` are functions without state. The constraint
`messages_role_shape_check` is written in the three-valued logic of SQL, where a
row is refused only if the check is false.

### SignIn, OneTimeCode

One action per step of `request_challenge` (`Ask`, `SendCode`,
`CommitChallenge`), `verify_challenge` (`Read` takes the row for update and
decides what the rest uses; `Refuse`, `CountWrong`, `Consume`, `GiveToken`), and of
the check before each page (`OpenPage` finds the session, `BuildContext` looks
at the membership in a later statement). The environment demotes and promotes,
lets time pass and kills handlers. `guesses` and `barred` are history variables. Digests,
tokens and cookies are names: an attempt is right or wrong by choice.

`OneTimeCode` is what the row lock is for: a code takes a bounded number of wrong
guesses and is redeemed once, as if the attempts came one by one.

### Directory

The memberships of one group, the rows of people, which all groups share, and
the pool of numbers. `add_members` looks up and locks one person after the
other (`LookUp`, `Enrol`) and commits all (`CommitBatch`); `update_member` loads
a membership (`Load`), looks for another moderator if one stops
(`CheckOthers`), and writes (`CommitEdit`); `create_group` finds or inserts its
founder, goes through the numbers available when its statement began, waiting
for each that is locked and looking at it again (`TryNumber`, `TakeNumber`,
`PassOver`), and commits. A failure rolls a transaction back as a whole.

Three kinds of rows are locked: a person's membership, with the row of
`members` it needs (`lock`), the profile (`profile`), and the numbers (`taken`). The
handlers in `Renames` bring another name and so write a profile (`SaveProfile`): a
batch after the membership of the same person, an edit before it, because the
membership is sent only with the commit. Batches, and a batch and an edit, can
therefore wait for each other; the database aborts one of any circle
(`AbortDeadlocked`). A creation waits for one person while it holds nothing, and
then for one number. `overtaken` and `raced` are history variables. Consents are written
under the lock of the membership, which a batch always changes, and left out; so is
the first profile of somebody who has a membership and none.

### Conversation

The handset of the SMS simulator and the endpoint it polls. Rows have keys
(start of their transaction, id); the server answers with the newest page, or
with what comes after a cursor. `Sorted` is the ORDER BY: it puts a row behind as
many others as have a smaller key; `Limit` cuts a page off. Transactions begin and commit in any order.
The handset keeps what it shows, the cursor and a token that tells its current
load; loads, polls, sends and changes of the pair overlap (`posting` counts the posts under
way for each pair: the button waits for one to end, the Enter key does not), and
answers are late or lost. Four history variables (`late`, `older`, `undone`, `astray`) name the
cases in which the code loses rows or shows others; section 5 lists them.

### RequestsPage

The page of requests of the moderator web application: the request selected, the
detail and the approval block that were loaded, the flag `busy`, and the calls under
way, in slots. `LoadDetail` is `loadDetail` with its token, whose two awaits are two
calls (`LandThread` begins the second); an action (`Act`) that succeeds begins a load
of its request and one of the list (`ActionDone`), and clears `busy` when both are
over (`with` keeps which of them is). `Serve` is the API, where other moderators
decide too.

## 5. What the runs show

Passing runs:

| Run | Instance | Question |
|---|---|---|
| `routing_races` | 1 message, 2 moderators, 3 members, 1 crash | Is each authorization good for one SMS per member, the record all or nothing, the status in agreement with it and with who authorized, and nothing stranded? |
| `routing_edits` | 1 message, 1 moderator, 3 members of whom any are active at the start, 1 edit of the policy, 1 member added or removed, 1 number lost, no crash, fairness | Do the handlers implement `AuthorizedSends`, whatever is edited meanwhile? Is what the policy routes routed under an `auto_group` that was in force while the text was processed? Does every text settle for good? |
| `intent_races` | 3 replies (1 by letter), 2 workers, 2 failures, 1 crash, fairness | One recorder per reply; ready is final, and reached. |
| `lifecycle_closers` | 1 request, 2 moderators, 1 sweep, 1 text, 1 text out, 1 abort | Is the status that of the closing committed last, are all closings of one request by handlers that overlap the first, and is closed for good? |
| `lifecycle_sweeps` | 2 requests, 2 sweeps, 1 text, 1 text out, 1 abort, fairness | Is every expiry justified, also with deadlocks, and does every request close? |
| `ingress_races` | 2 requests of others, one of which has reached the sender and one on its way, 3 texts of one member, one of them delivered twice, 2 scores, 2 letters before N, 2 handlers at once, 1 death, 2 closings | One row per text, one open request per member, replies only from parties, nothing accepted that is not stored, requests and originals that agree. |
| `signin_races` | 3 attempts at 1 code, 2 guesses allowed, 1 page, deaths, fairness | Do the attempts implement `OneTimeCode`, does each of them end, and is nobody served who was demoted? |
| `directory_races` | 2 batches of 2 people in two orders, 2 edits, 2 groups and 1 number, one batch and one edit with new names, 2 handlers at once, 1 death, fairness | Are moderators lost only to overlapping edits, never to an enrolment; does a number go to one group, and is it refused only when used up; does every handler end? |
| `conversation_polls` | 5 rows of 2 transactions and 2 pairs, pages of 2, 2 requests under way, 2 reloads, 1 lost, fairness | No bubble twice, none missing, in order, of the pair the user is on, and does everything arrive? |
| `page_clicks` | 2 requests, 4 calls under way, 4 clicks, 1 lost | Does the approval block belong to the thread on screen, the pane come to the request selected, and the flag end clear? |

Two runs end in a violation. Each checks one sentence of the repository and
finds what the code does instead; `PROJECT.json` quotes the sentence.

| Run | What happens |
|---|---|
| `routing_second_click` | Two moderators load the message before either commits: both approve, both fan out. |
| `intent_deferred` | Lost wake-up: the reply reads `pending`, the worker claims, the reply is deferred for ever. |

The models have other behaviours that a comment or a document denies, and no run
of their own. The properties are stated so that they name these cases as
exceptions, or do not depend on them. In the API:

* `moderation_service.py:129-131` says that a rejection stops anything from
  happening. A message that the policy routes is in the queue before it is
  authorized (`inbound_message_service.py:766`); a rejection in that window is
  overwritten, and the text is broadcast (`Reject`, `Authorize`).
* `moderation_service.py:188-190` expects that a send that failed is tried
  again. After a `RoutingError` (`FanOutRefused`) the message stays `approved`,
  and `_require_awaiting` accepts it no more.
* `scripts/sweep_requests.py:10-11` and `DEPLOY.md:173` say that sweeps may
  overlap. Two that list a request both write an `expired` event for it
  (`Expire`, `CommitSweep`).
* The trail is read by `created_at` (`request_event_manager.py:44`), the start of a
  transaction. A sweep that lists a request, and commits after a moderator who
  began later, leaves the status `expired` and a trail that ends in `completed`
  (`Expired`, `CommitSweep`). `ClosingsOverlap` speaks of the order of the commits,
  and says that only handlers that overlap do this.
* `textroute-api/README.md:192-194` says that a closed request collects no
  more. A text joins a request that closed after it was found open, or after
  its letter was offered (`Join`, `HandleChoice`).
* The letter path records a reply without asking for the intent of its request
  (`inbound_message_service.py:547`); other replies wait for it.
* `member_service.py:152-153` says that a group is never left without a
  moderator. Two edits that each demote one of two moderators both count the
  other one (`CheckOthers`, `CommitEdit`): `ModeratorsLostOnlyByOverlap` says
  that this is the only way.
* `message_role.py` says that the domain and the table agree by construction. A
  comparison with NULL is unknown, and the table accepts what is unknown: a
  reply with an author and no member (`UnknownIsAccepted`). No caller writes
  one (`BuiltRowsAreLegal`).
* `message_status.py:36-37` says that policy-routed messages are never in the
  queue. `Process` commits `awaiting_moderator` for every message first.
* `message_manager.py:409-410` says that the snapshot of the policy explains
  how a message was handled. The snapshot is of the policy before a commit
  (`ReadPolicy`), the decision of the one after it (`DecideAutomatic`).
* `routing_service.py:139` says that after `delivery_failed` "the send never
  happened". `SendTimesOut` is a send that did.
* `message_manager.py:336` says that a claimed reply is recorded. A worker that
  dies after `CommitReady` leaves replies in `claimed` that nobody takes.
* `_require_open` is checked in an earlier statement than the write, so a
  request can be completed and cancelled (`RequireOpen`, `Resolve`).
* `message_manager.py:315-317` says that `last_activity_at` is the newest
  `created_at`. The transaction that began first may commit last (`Join`), and
  a held text is older than the time it is attached at (`HandleChoice`).
* A text that commits between the list of a sweep and the commit of the sweep
  does not keep its request open (`ListStale`, `Join`, `CommitSweep`).
* `message_role.py:3-4` says that a kind is stamped once. Two letters that both
  find the question unanswered both stamp the held text; the second may move
  it out of the request it began (`FindPending`, `Attach`).
* `request_manager.py:66-71` says that every live request that reached a member
  is found, so that an answer joins it. The copies are committed after the last
  send (`CommitCopies`): who answers before that begins a request.
* `list_conversation` calls its paging exact (`message_manager.py:100-105`). A
  row that commits behind a cursor already handed out is never polled (`late`).

In the clients:

* The first polls of an empty conversation carry no cursor and replace what is
  shown (`app.jsx:431-433`). When two overlap and the older is answered last,
  rows disappear and the cursor is ahead of them, until a reload (`undone`).
* `app.jsx:317-318` says that a response for the previous pair must not land.
  The load after a send (`app.jsx:518`) is for the pair that was sent to and
  takes a new token: if the user has left that pair, its rows are shown under
  the numbers of another one (`astray`).
* `Requests.tsx:165-167` says why the approval block is dropped: it "would offer
  Approve for a message that is not in the thread on screen". The reload after
  an action is for the request the action was on. If it was left meanwhile, the
  reload supersedes the load of the selected request, puts up a block for the
  request that was left, and a later reload of the selected one shows its
  thread beside that block while its message is fetched; the end of a load of
  the list has enabled the buttons by then. The same reload can leave the pane empty
  (`strayed`).
* `busy` is cleared by whichever overlapping call ends first. A load of the list
  that ends while an action is under way enables Approve a second time; what
  the API makes of two approvals is `routing_second_click`.

Bounds, and why they are enough. A race here needs two handlers that have both
read what one of them changes; each run has two of a kind wherever two can
race, and one more actor of another kind. The loop of a fan-out shows all its
outcomes (all, some, none sent) with two recipients. Faults are counted by
`Bound`, `MaxFail`, `MaxCrash`, `MaxAbort` and `MaxLost`, closings by `MaxClose`, reloads (with
the posts that are to reload) and clicks by `MaxLoad` and `MaxClick`, and `MaxBusy` says how many handlers run at once in
`ingress_races` and `directory_races`: one crash at any point shows
what one process leaves behind, and crashes are independent. `MaxTime` lets the
clock pass both periods, which are one and two or three ticks, so that the orders of the
two deadlines occur. Replies, texts and moderators are used once; sweeps,
workers, polls and pages come again. Four clicks are the shortest way to the
behaviour of `Requests.tsx` described above; no shorter instance has it. Three attempts at
a code of which two may be wrong put one at the limit; two people are the
least that two batches can take in different orders, and one number is the
least two groups can compete for. Pages of two rows end inside a transaction
of four.

Deadlock is not checked: a system in which all texts have been handled stops.
Symmetry is used only in runs without liveness; in `ingress_races` it swaps
the two deliveries of one text, and the two single texts; in `page_clicks` requests and slots. `routing_edits` has one message; that the refinement holds for many is the theorem `RoutingRefines`.

Fairness. In `routing_edits` and the `intent` runs a handler that has started goes
on (it is a thread of a server; a crash is an action of its own), and the sweep
starts workers for ever (`src/DEPLOY.md` schedules it every 15 minutes). An intent worker
waits for the row of the request, where PostgreSQL serves waiters in order:
that is strong fairness of `Apply`. In `lifecycle_sweeps` time passes, sweeps start and run on,
and a handler that holds a row commits; members and moderators need do nothing.
In `signin_races` and `directory_races` a handler that has started runs on, and
one that waits for a row gets it (weak fairness is enough: who holds a row is
bound to give it back, and no other handler is started for ever). In
`conversation_polls` the timer of the handset keeps firing and a request is
answered or lost; a transaction need not commit, and only rows that can be
found from some point on have to arrive. Nothing is assumed of people: approving, rejecting, replying and sending a
letter never have fairness, except that a moderator's request once sent is handled.

## 6. What is proved

The proofs are for all values of the constants, under the named assumptions of
the modules: the kinds of actors are disjoint, `Nobody` and `None` are none of
them and none of the records they stand beside, senders are members, bounds and
periods are natural numbers, the rows of a conversation and the deliveries of
ingress are finite sets. Three say something of the code: ids of rows differ and
are ordered (`RowsAssumption`), a membership that is active at the start has a
time of joining, as `join_group` and `update_member` both see to
(`InputsAssumption`), and `NEW_REQUEST_LETTER` is at least the third letter
(`AssociationAssumption`). Where a
type invariant or an inductive invariant is proved and a run does not list it, TLC was used to find it.

Every safety property of section 5 is the statement of a theorem.

`MessageRoutingProofs`. The inductive invariant is `TypeOK /\ RoutingInv`. The
property wanted (one SMS per member and authorization) is not inductive: it
needs to know that a handler about to authorize has not done so (`Grants`),
that a loop sends to the members authorized and has not texted those left
(`Loop`), and where the handlers can be (`Control`). These are local to a
handler: `Own(a)` speaks only of what `a` alone writes, so the step of one
handler leaves the `Own` of all others (`OwnLocal`), and the proof has one step
per action of one handler. `Stages` and `StatusNamesItsAuthority` relate the
handlers through the row of a message: nobody has authorized what still waits.
Theorems: `TypeCorrect`, `RoutingInvariant`, `OneSms`, `ExactDeliveryRecord`,
`StatusHasAuthority`, `OutcomesAgree`, `OnlyAutoGroupIsAutomatic`,
`NothingIsStranded`, and `RoutingRefines`: every step of the handlers is a
step of `AuthorizedSends` or leaves `audit` and `sms` alone.

`IntentProofs`. `IntentInv` says where a webhook and a worker can be and what
their rows look like there. What carries it is that only the worker that has
the lock is between its flush and its commit (`WorkersInv`), so that a claimed
reply is in the batch of the one worker that claimed it (`ClaimedInBatch`).
Theorems: `IntentInvariant`, `TypesAreKept`, `RepliesRecordedOnce`,
`RecordsFollowTheFlip`, `ClaimsHaveOneWorker`, `ReadyStaysReady`.

`RequestLifecycleProofs`. `LifecycleInv` adds to the properties that a sweep
holds nothing unless it runs, and that what it holds or has still to update was
stale when listed (`SweepsExpireStale`): without it nothing links the event
written at the commit with the list made before. `ClosersBeganBefore` says that
whoever goes on to close a request that is closed began before its first closing
was committed. `ClosingEffect` reduces all
actions to three effects on one request (resolved, expired, not closed), and
each property is preserved by each effect. Theorems: `LifecycleInvariant`,
`TypesAreKept`, `OnlyOverlapClosesAgain`, `TimestampsExact`, `ExpiryJustified`,
`ClosedStaysClosed`.

`IngressProofs`. A handler reads in several steps and writes in one. `IngressInv`
says what is still true of what it has read when it writes: candidates are
requests its sender is a party of (`CandidatesAreOwn`; parties are never taken
away), a question found was asked of its sender (`HeldWasAsked`), and a row does
not exist before its handler writes it (`NoRowYet`). The two unique indexes do the
rest (`OpenIsUnique`). Theorems: `IngressInvariant`, `TextsHaveOneRow`,
`AcceptedTextsAreStored`, `MembersHaveOneOpenRequest`, `RepliesAreOfParties`,
`OriginalsAreInTheirRequests`. Three more invariants rest on it.
`HeldTextsHaveAChoice`: a question is asked only with two candidates or more, and of
two candidates two get a letter, because the letters before N are at least two.
`TypeCorrect` needs that one. `OpenRequestsAreFound`: what the sender could have answered
when its text arrived is, if still open, either in the first read of the
candidates or has the copy that the second read looks for; a request that closes
or is fanned out between the two reads is not lost. It follows that a text begins
a request only if all that its sender could have answered have closed
(`NewRequestsLeaveNoneUnasked`).

Also there, about the functions: `LeaderIsClear` and `ClearLeaderIsChosen`: looking at the two best
scores only, `leading_request` answers with a request exactly if that one leads all others
by the margin, ties and bounds included. `LettersStopBeforeN`: no letter offered
is N, and there are no gaps. `BuiltRowsAreLegal`,
`LegalRowsAreBuilt` and `UnknownIsAccepted` relate the domain and the constraint.

`SignInProofs`. While an attempt is between its read and its commit it has the
row of its challenge (`RowHeld`), so what it has read is what is there
(`SeenIsCurrent`): the count it writes is the next one, and the challenge it
consumes is unconsumed. That is also the refinement: each commit is a step of
`OneTimeCode`. Theorems: `SignInTypeOK`, `AttemptsAreBounded`, `ConsumedOnce`,
`SentBeforeStored`, `RoleIsChecked`, `SignInRefines`.

`DirectoryProofs` has invariants that build on each other little. `NumbersInv`: a
number taken is available and only its taker commits it (`GroupsHaveOneNumber`).
`BatchInv`: what a batch has read of a row it holds is still so as far as it
relies on it, because others wait for the lock of the membership (`BatchInvariant`,
`EnrolmentsKeepModerators`). `ModeratorsInv`: as long as no edit is
committed over another, an edit that has looked for another moderator
foresees a group that has one (`ModeratorsStay`). `SearchInv`: numbers are given away
and none comes back, so a creation that still searches has before it all that are available
(`SearchInvariant`); it waits for a number another one holds and looks at it
again, so it is refused only when there is none (`RefusedOnlyWithoutNumbers`).
`TypeCorrect` needs that who is active has a time of joining (`MembersInv`).

`ConversationProofs`. What makes paging exact is that the cursor is the key of a row
on the screen and that whatever is missing is behind all that is shown. With
overlapping polls this has to hold of every place a poll under way looks on
from, not of the cursor alone, which goes back when an older answer comes last:
such a key is an `Anchor`. `AnchorInv` says that each is the key of a row shown, and
that a row of the pair which is not shown is behind all rows of the pair that are.
A page that a poll brings then begins behind all that is shown of the pair, but for rows
that are already there (`NoGap`), and leaves none out up to its last row
(`NextPageFacts`), so the two can be joined. For the answer to be as good when it lands as
when it was given, a row that was not visible then has to be behind it now; rows that
commit in time are (`Answer`, kept by `Arrives`), the others are `late`. After a send to a
pair the user has left (`astray`) rows of two pairs are on the screen, and the argument
starts from the last row of the other pair (`LastForeign`). `TokenInv` is the
discipline of the token: one load is the newest, and polls that count were made
after it landed. `undone` is the case that breaks the argument: a first page that
comes late takes rows away while later polls look on from them.
The lemmas before that are about the definitions of the module: `Ranks` and `Listing` (in a
finite ordered set the ranks are 0 to n - 1, each once), so `Sorted` lists all
rows in order (`SortedFacts`), pages are pieces of that list, and `AppendNew` adds
what is new, in order (`AppendFacts`).
Theorems: `ConversationInvariant`, `TypeCorrect`, `NoRowTwice`,
`NothingIsSkipped`, `RowsAreInOrder`, `AnswersAreOfThePair`.

`RequestsPageProofs`. `PageInv`: one load is current (`OneCurrent`), it and the approval
block are of the selected request (`FollowsSelection`), it completes the pane
unless the pane is complete (`LoadCompletesPane`), and who sets `busy` leaves a call
under way that nothing supersedes without taking its place (`BusyHasACall`).
Theorems: `PageInvariant`, `ApprovalStaysWithTheThread`, `PaneIsComplete`, `IdlePageIsNotBusy`.

Only model-checked: the liveness properties (`EveryTextSettles`,
`IntentBecomesReady`, `EveryRequestCloses`, `EveryCallEnds`, `EveryHandlerEnds`,
`EverythingArrives`), which are out of the prover's reach: their fairness is about
`ENABLED`. `parse_choice` is an input of the models, and the sort of the scores a
library function whose recursion is not visible to the provers; the theorems about
`leading_request` hold of any order of equal scores that it could give.

## 7. What is left out

Besides the components above: two corners of the database layer. An ORM write
that changes no column sends no UPDATE and so takes no lock, where the models
take one; and PostgreSQL's re-evaluation of a blocked UPDATE is modelled as the
step happening after the lock is released, which is the same for the
updates by id and for the conditional ones.

Bodies, prompts, embeddings, HTTP status codes and the wording of texts have no
place in the modules. The language model (`ai/`, `prompts/`,
`core/providers/request_analyzer.py`) and the keyword processor are inputs: they
answer, or raise. Routes and schemas translate one call each; the transaction
they call is modelled. The read-only lists and summaries of `request_service`,
the names and changed phone numbers of members, `removed_at`, the pages of the
web application other than the requests, drafts and the choice of recipients,
and the bubble a handset shows before its send is over are left out: each is one
actor's own state, or is read and not acted upon.
