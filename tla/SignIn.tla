------------------------------- MODULE SignIn -------------------------------
(***************************************************************************)
(* Moderators sign in with a code texted to their phone (auth_service,     *)
(* auth_manager, the auth routes).  A challenge is inserted, its code is   *)
(* sent, and only then is the insert committed; attempts at a challenge    *)
(* take its row for update; the one that is right consumes it and opens a  *)
(* session in one commit, and every page asked for with the session's      *)
(* cookie checks again that its owner is a moderator.  Meanwhile other     *)
(* moderators promote and demote, time passes and handlers die.            *)
(*                                                                         *)
(* One group, whose number stays assigned: nothing in the code takes one   *)
(* away.  A session has the name of the attempt that opened it.            *)
(***************************************************************************)
EXTENDS Naturals

CONSTANTS
  Person,
  Challenge,    (* requests for a code                                     *)
  Who,          (* whom each is for                                        *)
  Call,         (* attempts at a code                                      *)
  For,          (* the challenge each one names                            *)
  Page,         (* requests that carry a session's cookie                  *)
  None,
  MaxAttempts, ChallengeTtl, SessionTtl,
  MaxTime       (* bound on the clock                                      *)

ASSUME PeopleAssumption == Who \in [Challenge -> Person]
ASSUME CallsAssumption == For \in [Call -> Challenge] /\ None \notin Call
ASSUME SettingsAssumption ==
  /\ MaxAttempts \in Nat \ {0}
  /\ ChallengeTtl \in Nat /\ SessionTtl \in Nat /\ MaxTime \in Nat

VARIABLES
  now,
  moderators,   (* who is an active moderator of the group                 *)
  ask,          (* the handler of each challenge                           *)
  phone,        (* the challenges whose code has reached a phone           *)
  expires, attempts, consumed,  (* the columns of each challenge           *)
  guesses,      (* how often a wrong code was told so (history)            *)
  lock,         (* the attempt that has the challenge's row for update     *)
  call,         (* the handler of each attempt                             *)
  seen,         (* the challenge as each attempt read it, and when         *)
  session, ends,(* the session each attempt opened, and its expires_at     *)
  cookies,      (* the sessions whose token a browser has                  *)
  page, cookie, (* the handler of each page, and its session               *)
  barred        (* who asked for it has been no moderator since (history)  *)

challenges == <<ask, phone, expires, attempts, consumed>>
attempting == <<lock, call, seen, guesses>>
sessions == <<session, ends, cookies>>
paging == <<page, cookie, barred>>
vars == <<now, moderators, challenges, attempting, sessions, paging>>

-----------------------------------------------------------------------------
Unread == [usable |-> FALSE, count |-> 0, at |-> 0]

(* What verify_challenge asks of the row it has read. *)
Usable(c) == /\ ask[c] = "stored" /\ ~consumed[c]
             /\ expires[c] > now /\ attempts[c] < MaxAttempts

SessionValid(v) == session[v] = "live" /\ ends[v] > now

Init ==
  /\ now = 0
  /\ moderators = Person
  /\ ask = [c \in Challenge |-> "none"]
  /\ phone = {}
  /\ expires = [c \in Challenge |-> 0]
  /\ attempts = [c \in Challenge |-> 0]
  /\ consumed = [c \in Challenge |-> FALSE]
  /\ guesses = [c \in Challenge |-> 0]
  /\ lock = [c \in Challenge |-> None]
  /\ call = [v \in Call |-> "none"]
  /\ seen = [v \in Call |-> Unread]
  /\ session = [v \in Call |-> "none"]
  /\ ends = [v \in Call |-> 0]
  /\ cookies = {}
  /\ page = [p \in Page |-> "none"]
  /\ cookie = [p \in Page |-> None]
  /\ barred = [p \in Page |-> FALSE]

-----------------------------------------------------------------------------
(* request_challenge *)

(* An active moderator has the challenge inserted, not yet committed ... *)
Ask(c) ==
  /\ ask[c] = "none" /\ Who[c] \in moderators
  /\ ask' = [ask EXCEPT ![c] = "flushed"]
  /\ expires' = [expires EXCEPT ![c] = now + ChallengeTtl]
  /\ UNCHANGED <<now, moderators, phone, attempts, consumed, attempting,
                 sessions, paging>>

(* ... anybody else gets the one answer that tells nothing ... *)
AskRefused(c) ==
  /\ ask[c] = "none" /\ Who[c] \notin moderators
  /\ ask' = [ask EXCEPT ![c] = "failed"]
  /\ UNCHANGED <<now, moderators, phone, expires, attempts, consumed,
                 attempting, sessions, paging>>

(* ... and the code is sent from inside the transaction. *)
SendCode(c) ==
  /\ ask[c] = "flushed"
  /\ ask' = [ask EXCEPT ![c] = "sent"]
  /\ phone' = phone \cup {c}
  /\ UNCHANGED <<now, moderators, expires, attempts, consumed, attempting,
                 sessions, paging>>

(* The provider refuses, or takes the text and its answer is lost: the      *)
(* insert is rolled back in either case.                                    *)
SendFails(c) ==
  /\ ask[c] = "flushed"
  /\ ask' = [ask EXCEPT ![c] = "failed"]
  /\ phone' \in {phone, phone \cup {c}}
  /\ UNCHANGED <<now, moderators, expires, attempts, consumed, attempting,
                 sessions, paging>>

CommitChallenge(c) ==
  /\ ask[c] = "sent"
  /\ ask' = [ask EXCEPT ![c] = "stored"]
  /\ UNCHANGED <<now, moderators, phone, expires, attempts, consumed,
                 attempting, sessions, paging>>

-----------------------------------------------------------------------------
(* verify_challenge *)

Verify(v) ==
  /\ call[v] = "none" /\ ask[For[v]] = "stored"
  /\ call' = [call EXCEPT ![v] = "waiting"]
  /\ UNCHANGED <<now, moderators, challenges, lock, seen, guesses, sessions,
                 paging>>

Look(v) ==
  /\ call[v] = "waiting"
  /\ call' = [call EXCEPT ![v] = "read"]
  /\ seen' = [seen EXCEPT ![v] = [usable |-> Usable(For[v]),
                                  count |-> attempts[For[v]], at |-> now]]
  /\ UNCHANGED <<now, moderators, challenges, guesses, sessions, paging>>

ReadFaulty(v) == Look(v) /\ UNCHANGED lock

(* get_challenge_for_update, and the clock after it. *)
Read(v) ==
  /\ lock[For[v]] = None
  /\ lock' = [lock EXCEPT ![For[v]] = v]
  /\ Look(v)

(* What follows decides by what was read, and its end gives the row back. *)
Release(v) == lock' = [lock EXCEPT ![For[v]] = None]

EndCall(v, l) ==
  /\ call' = [call EXCEPT ![v] = l]
  /\ seen' = [seen EXCEPT ![v] = Unread]

RefuseFaulty(v) ==
  /\ call[v] = "read" /\ ~seen[v].usable
  /\ UNCHANGED lock /\ EndCall(v, "done")
  /\ UNCHANGED <<now, moderators, challenges, guesses, sessions, paging>>

(* The route rolls back. *)
Refuse(v) ==
  /\ call[v] = "read" /\ ~seen[v].usable
  /\ Release(v) /\ EndCall(v, "done")
  /\ UNCHANGED <<now, moderators, challenges, guesses, sessions, paging>>

(* A wrong code: only the count is committed, from the value read. *)
CountWrong(v) ==
  /\ call[v] = "read" /\ seen[v].usable
  /\ attempts' = [attempts EXCEPT ![For[v]] = seen[v].count + 1]
  /\ guesses' = [guesses EXCEPT ![For[v]] = @ + 1]
  /\ Release(v) /\ EndCall(v, "done")
  /\ UNCHANGED <<now, moderators, ask, phone, expires, consumed, sessions,
                 paging>>

OpenSession(v) ==
  /\ call[v] = "read" /\ seen[v].usable
  /\ session' = [session EXCEPT ![v] = "live"]
  /\ ends' = [ends EXCEPT ![v] = seen[v].at + SessionTtl]
  /\ Release(v) /\ EndCall(v, "context")
  /\ UNCHANGED <<now, moderators, ask, phone, expires, attempts, guesses,
                 cookies, paging>>

(* The right code: challenge consumed and session opened in one commit. *)
Consume(v) ==
  /\ consumed' = [consumed EXCEPT ![For[v]] = TRUE]
  /\ OpenSession(v)

(* _build_context after that commit: the token goes to the browser only if  *)
(* its owner is a moderator still.                                          *)
GiveToken(v) ==
  /\ call[v] = "context"
  /\ call' = [call EXCEPT ![v] = "done"]
  /\ cookies' = IF Who[For[v]] \in moderators THEN cookies \cup {v} ELSE cookies
  /\ UNCHANGED <<now, moderators, challenges, lock, seen, guesses, session,
                 ends, paging>>

-----------------------------------------------------------------------------
(* get_moderator_context, before every page *)

(* authenticate_session finds the session valid (or there is no page) ... *)
OpenPage(p, v) ==
  /\ page[p] = "none" /\ v \in cookies /\ SessionValid(v)
  /\ page' = [page EXCEPT ![p] = "found"]
  /\ cookie' = [cookie EXCEPT ![p] = v]
  /\ barred' = [barred EXCEPT ![p] = Who[For[v]] \notin moderators]
  /\ UNCHANGED <<now, moderators, challenges, attempting, sessions>>

BuildContextFaulty(p) ==
  /\ page[p] = "found"
  /\ page' = [page EXCEPT ![p] = "served"]
  /\ UNCHANGED <<now, moderators, challenges, attempting, sessions, cookie,
                 barred>>

(* ... and _build_context looks at the membership in a later statement. *)
BuildContext(p) ==
  /\ page[p] = "found"
  /\ page' = [page EXCEPT ![p] =
       IF Who[For[cookie[p]]] \in moderators THEN "served" ELSE "refused"]
  /\ UNCHANGED <<now, moderators, challenges, attempting, sessions, cookie,
                 barred>>

ClosePage(p) ==
  /\ page[p] \in {"served", "refused"}
  /\ page' = [page EXCEPT ![p] = "none"]
  /\ cookie' = [cookie EXCEPT ![p] = None]
  /\ barred' = [barred EXCEPT ![p] = FALSE]
  /\ UNCHANGED <<now, moderators, challenges, attempting, sessions>>

(* logout revokes the session; the browser drops the cookie if it gets the  *)
(* answer.                                                                  *)
Logout(v) ==
  /\ v \in cookies /\ session[v] = "live"
  /\ session' = [session EXCEPT ![v] = "revoked"]
  /\ cookies' \in {cookies, cookies \ {v}}
  /\ UNCHANGED <<now, moderators, challenges, attempting, ends, paging>>

-----------------------------------------------------------------------------
(* A moderator demotes or promotes somebody (member_service). *)
SwitchModerator(m) ==
  /\ moderators' = IF m \in moderators THEN moderators \ {m}
                                       ELSE moderators \cup {m}
  /\ barred' = [p \in Page |->
       barred[p] /\ (m \in moderators \/ Who[For[cookie[p]]] # m)]
  /\ UNCHANGED <<now, challenges, attempting, sessions, page, cookie>>

Tick ==
  /\ now < MaxTime /\ now' = now + 1
  /\ UNCHANGED <<moderators, challenges, attempting, sessions, paging>>

(* A handler dies: its transaction is rolled back and its lock released. *)
AskDies(c) ==
  /\ ask[c] \in {"flushed", "sent"}
  /\ ask' = [ask EXCEPT ![c] = "failed"]
  /\ UNCHANGED <<now, moderators, phone, expires, attempts, consumed,
                 attempting, sessions, paging>>

VerifyDies(v) ==
  /\ call[v] \in {"waiting", "read", "context"}
  /\ IF call[v] = "read" THEN Release(v) ELSE UNCHANGED lock
  /\ EndCall(v, "done")
  /\ UNCHANGED <<now, moderators, challenges, guesses, sessions, paging>>

RequestChallenge(c) ==
  Ask(c) \/ AskRefused(c) \/ SendCode(c) \/ SendFails(c) \/ CommitChallenge(c)
VerifyChallenge(v) ==
  Read(v) \/ Refuse(v) \/ CountWrong(v) \/ Consume(v) \/ GiveToken(v)
GetModeratorContext(p) ==
  (\E v \in Call : OpenPage(p, v)) \/ BuildContext(p) \/ ClosePage(p)

Next ==
  \/ \E c \in Challenge : RequestChallenge(c) \/ AskDies(c)
  \/ \E v \in Call : Verify(v) \/ VerifyChallenge(v) \/ VerifyDies(v)
  \/ \E p \in Page : GetModeratorContext(p)
  \/ \E v \in Call : Logout(v)
  \/ \E m \in Person : SwitchModerator(m)
  \/ Tick

Spec == Init /\ [][Next]_vars

(* A request that has come in is worked on. *)
Fairness == \A v \in Call : WF_vars(VerifyChallenge(v))
FairSpec == Spec /\ Fairness

-----------------------------------------------------------------------------
(* Properties *)

(* Types, the places of the handlers, and the range of attempt_count. *)
TypeOK ==
  /\ now \in 0..MaxTime
  /\ moderators \in SUBSET Person
  /\ ask \in [Challenge -> {"none", "flushed", "sent", "stored", "failed"}]
  /\ phone \in SUBSET Challenge
  /\ expires \in [Challenge -> Nat]
  /\ attempts \in [Challenge -> 0..MaxAttempts]
  /\ consumed \in [Challenge -> BOOLEAN]
  /\ guesses \in [Challenge -> Nat]
  /\ lock \in [Challenge -> Call \cup {None}]
  /\ call \in [Call -> {"none", "waiting", "read", "context", "done"}]
  /\ seen \in [Call -> [usable : BOOLEAN, count : 0..MaxAttempts, at : Nat]]
  /\ session \in [Call -> {"none", "live", "revoked"}]
  /\ ends \in [Call -> Nat]
  /\ cookies \in SUBSET Call
  /\ page \in [Page -> {"none", "found", "served", "refused"}]
  /\ cookie \in [Page -> Call \cup {None}]
  /\ barred \in [Page -> BOOLEAN]

(* However many attempts at a challenge run at once, no more than           *)
(* max_attempts wrong codes are ever compared with it: the count each one   *)
(* writes is the count it read.                                             *)
AttemptsBounded == \A c \in Challenge : guesses[c] <= MaxAttempts

Opened(c) == {v \in Call : For[v] = c /\ session[v] # "none"}

(* "Row lock so concurrent verifies cannot double-consume", and "avoids a   *)
(* consumed challenge with no usable session": a challenge is consumed      *)
(* exactly when one attempt, and only one, has opened a session with it.    *)
OneSessionPerChallenge ==
  \A c \in Challenge :
    /\ consumed[c] <=> Opened(c) # {}
    /\ \A v, w \in Opened(c) : v = w

(* A challenge that can be tried is one whose code went out: the insert is  *)
(* committed after the send.                                                *)
StoredWasSent == \A c \in Challenge : ask[c] = "stored" => c \in phone

(* A page asked for after its owner was demoted is not served, whatever     *)
(* the session says, until somebody promotes the owner again.               *)
AccessFollowsRole ==
  \A p \in Page : page[p] = "served" => ~barred[p]

(* Nobody waits for a row for ever. *)
EveryCallEnds == \A v \in Call : (call[v] = "waiting") ~> (call[v] = "done")

Code == INSTANCE OneTimeCode WITH
  issued <- {c \in Challenge : ask[c] = "stored"},
  wrong <- guesses,
  redeemed <- [c \in Challenge |-> Opened(c)]

(* Concurrent attempts on the challenge's row implement OneTimeCode. *)
ImplementsOneTimeCode == Code!Spec
=============================================================================
