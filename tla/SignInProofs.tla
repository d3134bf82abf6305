---------------------------- MODULE SignInProofs ----------------------------
(***************************************************************************)
(* Proofs about SignIn, for any people, challenges, attempts and pages.    *)
(* The argument: while an attempt is between its read and its commit it    *)
(* has the row of its challenge, so what it has read is still there.       *)
(***************************************************************************)
EXTENDS SignIn, TLAPS

(* An attempt that has read its challenge has the challenge's row. *)
RowHeld == \A v \in Call : call[v] = "read" => lock[For[v]] = v

(* What it has read is what is there. *)
SeenIsCurrent ==
  \A v \in Call : call[v] = "read" =>
    /\ seen[v].count = attempts[For[v]]
    /\ seen[v].usable => /\ ask[For[v]] = "stored"
                         /\ ~consumed[For[v]]
                         /\ attempts[For[v]] < MaxAttempts

(* Every wrong guess has been counted. *)
AllCounted == \A c \in Challenge : guesses[c] = attempts[c]

(* Only an attempt that has committed has a session. *)
NoSessionBefore ==
  \A v \in Call : call[v] \in {"none", "waiting", "read"} => session[v] = "none"

SentFirst ==
  \A c \in Challenge : ask[c] \in {"sent", "stored"} => c \in phone

(* Who is barred is no moderator at this moment. *)
BarredIsNoModerator ==
  \A p \in Page : barred[p] => Who[For[cookie[p]]] \notin moderators

RowInv == RowHeld /\ SeenIsCurrent /\ AllCounted
SessionInv == NoSessionBefore /\ OneSessionPerChallenge
PageInv == SentFirst /\ BarredIsNoModerator /\ AccessFollowsRole
IInv == TypeOK /\ RowInv /\ SessionInv /\ PageInv

USE DEF challenges, attempting, sessions, paging

-----------------------------------------------------------------------------
LEMMA InitInv == Init => IInv
  BY PeopleAssumption, CallsAssumption, SettingsAssumption, SMT
  DEF Init, IInv, TypeOK, RowInv, SessionInv, PageInv, RowHeld, SeenIsCurrent,
      AllCounted, NoSessionBefore, OneSessionPerChallenge, Opened, SentFirst,
      BarredIsNoModerator, AccessFollowsRole, Unread

(* The steps of request_challenge leave the attempts and the pages alone.  *)
LEMMA AskStep ==
  ASSUME IInv, NEW c \in Challenge, RequestChallenge(c) \/ AskDies(c)
  PROVE  IInv'
<1> USE PeopleAssumption, CallsAssumption, SettingsAssumption
<1>1. TypeOK'
  <2> USE DEF IInv, TypeOK
  <2>1. CASE Ask(c) BY <2>1, SMT DEF Ask
  <2>2. CASE AskRefused(c) BY <2>2, SMT DEF AskRefused
  <2>3. CASE SendCode(c) BY <2>3, SMT DEF SendCode
  <2>4. CASE SendFails(c) BY <2>4, SMT DEF SendFails
  <2>5. CASE CommitChallenge(c) BY <2>5, SMT DEF CommitChallenge
  <2>6. CASE AskDies(c) BY <2>6, SMT DEF AskDies
  <2> QED BY <2>1, <2>2, <2>3, <2>4, <2>5, <2>6 DEF RequestChallenge
<1>2. RowInv'
  BY SMT DEF IInv, TypeOK, RowInv, RowHeld, SeenIsCurrent, AllCounted,
             RequestChallenge, Ask, AskRefused, SendCode, SendFails,
             CommitChallenge, AskDies
<1>3. SessionInv'
  BY SMT DEF IInv, SessionInv, NoSessionBefore, OneSessionPerChallenge, Opened,
             RequestChallenge, Ask, AskRefused, SendCode, SendFails,
             CommitChallenge, AskDies
<1>4. PageInv'
  BY SMT DEF IInv, TypeOK, PageInv, SentFirst, BarredIsNoModerator,
             AccessFollowsRole, RequestChallenge, Ask, AskRefused, SendCode,
             SendFails, CommitChallenge, AskDies
<1> QED BY <1>1, <1>2, <1>3, <1>4 DEF IInv

(* Giving the row back and ending an attempt keep the types. *)
LEMMA EndTypes ==
  ASSUME TypeOK, NEW v \in Call, Release(v), NEW l \in {"context", "done"},
         EndCall(v, l)
  PROVE  /\ lock' \in [Challenge -> Call \cup {None}]
         /\ call' \in [Call -> {"none", "waiting", "read", "context", "done"}]
         /\ seen' \in [Call -> [usable : BOOLEAN, count : 0..MaxAttempts, at : Nat]]
<1>1. lock' \in [Challenge -> Call \cup {None}]
  BY CallsAssumption, SMT DEF TypeOK, Release
<1>2. call' \in [Call -> {"none", "waiting", "read", "context", "done"}]
  BY SMT DEF TypeOK, EndCall
<1>3. Unread \in [usable : BOOLEAN, count : 0..MaxAttempts, at : Nat]
  BY SettingsAssumption, SMT DEF Unread
<1>4. seen' \in [Call -> [usable : BOOLEAN, count : 0..MaxAttempts, at : Nat]]
  BY <1>3, SMT DEF TypeOK, EndCall
<1> QED BY <1>1, <1>2, <1>4

(* The steps of an attempt that change neither its challenge nor a session. *)
LEMMA QuietCallStep ==
  ASSUME IInv, NEW v \in Call,
         Verify(v) \/ Read(v) \/ Refuse(v) \/ GiveToken(v) \/ VerifyDies(v)
  PROVE  IInv'
<1> USE PeopleAssumption, CallsAssumption, SettingsAssumption
<1> USE DEF Verify, Read, Look, Refuse, GiveToken, VerifyDies, Release, EndCall,
            Unread
<1>1. TypeOK'
  <2> USE DEF IInv, TypeOK
  <2>1. CASE Verify(v) BY <2>1, SMT
  <2>2. CASE Read(v) BY <2>2, SMT DEF Usable
  <2>3. CASE Refuse(v) BY <2>3, SMT
  <2>4. CASE GiveToken(v) BY <2>4, SMT
  <2>5. CASE VerifyDies(v) BY <2>5, SMT
  <2> QED BY <2>1, <2>2, <2>3, <2>4, <2>5
<1>2. RowInv'
  <2> USE DEF IInv, TypeOK, RowInv, RowHeld, SeenIsCurrent, AllCounted, Usable
  <2>1. CASE Verify(v) BY <2>1, SMT
  <2>2. CASE Read(v) BY <2>2, SMT
  <2>3. CASE Refuse(v) BY <2>3, SMT
  <2>4. CASE GiveToken(v) BY <2>4, SMT
  <2>5. CASE VerifyDies(v) BY <2>5, SMT
  <2> QED BY <2>1, <2>2, <2>3, <2>4, <2>5
<1>3. SessionInv'
  BY SMT DEF IInv, TypeOK, SessionInv, NoSessionBefore, OneSessionPerChallenge,
             Opened
<1>4. PageInv'
  BY SMT DEF IInv, PageInv, SentFirst, BarredIsNoModerator, AccessFollowsRole
<1> QED BY <1>1, <1>2, <1>3, <1>4 DEF IInv

(* A wrong code: no other attempt has read this challenge, so the count     *)
(* that is written is the next one, and within the bound.                   *)
LEMMA CountWrongStep ==
  ASSUME IInv, NEW v \in Call, CountWrong(v)
  PROVE  IInv'
<1> USE PeopleAssumption, CallsAssumption, SettingsAssumption
<1> USE DEF CountWrong
<1>1. TypeOK'
  <2>1. seen[v].count + 1 \in 0..MaxAttempts
    BY SMT DEF IInv, TypeOK, RowInv, SeenIsCurrent
  <2>2. /\ attempts \in [Challenge -> 0..MaxAttempts]
        /\ guesses \in [Challenge -> Nat]
        /\ attempts' = [attempts EXCEPT ![For[v]] = seen[v].count + 1]
        /\ guesses' = [guesses EXCEPT ![For[v]] = @ + 1]
    BY DEF IInv, TypeOK
  <2>3. attempts' \in [Challenge -> 0..MaxAttempts] /\ guesses' \in [Challenge -> Nat]
    BY <2>1, <2>2, SMT
  <2>4. /\ lock' \in [Challenge -> Call \cup {None}]
        /\ call' \in [Call -> {"none", "waiting", "read", "context", "done"}]
        /\ seen' \in [Call -> [usable : BOOLEAN, count : 0..MaxAttempts, at : Nat]]
    BY EndTypes DEF IInv
  <2> QED BY <2>3, <2>4 DEF IInv, TypeOK
<1> USE DEF Release, EndCall, Unread
<1>2. RowInv'
  BY SMT DEF IInv, TypeOK, RowInv, RowHeld, SeenIsCurrent, AllCounted
<1>3. SessionInv'
  BY SMT DEF IInv, TypeOK, SessionInv, NoSessionBefore, OneSessionPerChallenge,
             Opened
<1>4. PageInv'
  BY SMT DEF IInv, PageInv, SentFirst, BarredIsNoModerator, AccessFollowsRole
<1> QED BY <1>1, <1>2, <1>3, <1>4 DEF IInv

(* The right code: nobody has a session of this challenge yet. *)
LEMMA ConsumeOpens ==
  ASSUME IInv, NEW v \in Call, Consume(v)
  PROVE  /\ Opened(For[v]) = {}
         /\ \A w \in Call : session'[w] # "none" <=> w = v \/ session[w] # "none"
<1> USE CallsAssumption DEF Consume, OpenSession
<1>1. Opened(For[v]) = {}
  BY DEF IInv, RowInv, SeenIsCurrent, SessionInv, OneSessionPerChallenge
<1>2. \A w \in Call : session'[w] # "none" <=> w = v \/ session[w] # "none"
  BY SMT DEF IInv, TypeOK
<1> QED BY <1>1, <1>2

LEMMA ConsumeStep ==
  ASSUME IInv, NEW v \in Call, Consume(v)
  PROVE  IInv'
<1> USE PeopleAssumption, CallsAssumption, SettingsAssumption
<1> USE DEF Consume, OpenSession
<1>1. TypeOK'
  <2>1. /\ ends \in [Call -> Nat] /\ seen[v].at \in Nat
        /\ consumed \in [Challenge -> BOOLEAN]
        /\ session \in [Call -> {"none", "live", "revoked"}]
    BY SMT DEF IInv, TypeOK
  <2>2. ends' \in [Call -> Nat]
    BY <2>1, SMT
  <2>3. /\ consumed' \in [Challenge -> BOOLEAN]
        /\ session' \in [Call -> {"none", "live", "revoked"}]
    BY <2>1, SMT
  <2>4. /\ lock' \in [Challenge -> Call \cup {None}]
        /\ call' \in [Call -> {"none", "waiting", "read", "context", "done"}]
        /\ seen' \in [Call -> [usable : BOOLEAN, count : 0..MaxAttempts, at : Nat]]
    BY EndTypes DEF IInv
  <2> QED BY <2>2, <2>3, <2>4 DEF IInv, TypeOK
<1> USE DEF Release, EndCall, Unread
<1>2. RowInv'
  BY SMT DEF IInv, TypeOK, RowInv, RowHeld, SeenIsCurrent, AllCounted
<1>3. NoSessionBefore'
  BY SMT DEF IInv, TypeOK, SessionInv, NoSessionBefore
<1>4. OneSessionPerChallenge'
  <2> SUFFICES ASSUME NEW c \in Challenge
               PROVE  /\ consumed'[c] <=> Opened(c)' # {}
                      /\ \A w, x \in Opened(c)' : w = x
    BY DEF OneSessionPerChallenge
  <2>1. CASE c = For[v]
    <3>1. Opened(c)' = {v} BY <2>1, ConsumeOpens DEF Opened
    <3> QED BY <2>1, <3>1 DEF IInv, TypeOK
  <2>2. CASE c # For[v]
    <3>1. Opened(c)' = Opened(c) BY <2>2, ConsumeOpens DEF Opened
    <3>2. consumed'[c] = consumed[c] BY <2>2 DEF IInv, TypeOK
    <3> QED BY <3>1, <3>2 DEF IInv, SessionInv, OneSessionPerChallenge
  <2> QED BY <2>1, <2>2
<1>5. PageInv'
  BY SMT DEF IInv, PageInv, SentFirst, BarredIsNoModerator, AccessFollowsRole
<1> QED BY <1>1, <1>2, <1>3, <1>4, <1>5 DEF IInv, SessionInv

(* The steps of a page. *)
LEMMA PageStep ==
  ASSUME IInv, NEW p \in Page, GetModeratorContext(p)
  PROVE  IInv'
<1> USE PeopleAssumption, CallsAssumption
<1>1. UNCHANGED <<now, moderators, challenges, attempting, sessions>>
  BY DEF GetModeratorContext, OpenPage, BuildContext, ClosePage
<1>2. TypeOK' /\ PageInv'
  <2> USE DEF IInv, TypeOK, PageInv, SentFirst, BarredIsNoModerator,
              AccessFollowsRole
  <2>1. ASSUME NEW v \in Call, OpenPage(p, v) PROVE TypeOK' /\ PageInv'
    <3> USE <2>1 DEF OpenPage
    <3>1. TypeOK'
      <4>1. barred' = [barred EXCEPT ![p] = Who[For[v]] \notin moderators]
        OBVIOUS
      <4>2. barred' \in [Page -> BOOLEAN] BY <4>1, Zenon
      <4>3. /\ page' \in [Page -> {"none", "found", "served", "refused"}]
            /\ cookie' \in [Page -> Call \cup {None}]
        BY SMT
      <4> QED BY <4>2, <4>3
    <3>2. ASSUME NEW q \in Page, barred'[q]
          PROVE  Who[For[cookie'[q]]] \notin moderators'
      <4>1. CASE q = p
        <5>1. barred'[p] = (Who[For[v]] \notin moderators) /\ cookie'[p] = v
          OBVIOUS
        <5> QED BY <4>1, <5>1, <3>2
      <4>2. CASE q # p
        <5>1. barred'[q] = barred[q] /\ cookie'[q] = cookie[q]
          BY <4>2
        <5> QED BY <5>1, <3>2
      <4> QED BY <4>1, <4>2
    <3> QED BY <3>1, <3>2, SMT
  <2>2. CASE BuildContext(p) BY <2>2, SMT DEF BuildContext
  <2>3. CASE ClosePage(p) BY <2>3, SMT DEF ClosePage
  <2> QED BY <2>1, <2>2, <2>3 DEF GetModeratorContext
<1>3. RowInv' /\ SessionInv'
  BY <1>1 DEF IInv, RowInv, RowHeld, SeenIsCurrent, AllCounted, SessionInv,
              NoSessionBefore, OneSessionPerChallenge, Opened
<1> QED BY <1>2, <1>3 DEF IInv

(* A logout turns a session that was live: as many are open as before. *)
LEMMA LogoutStep ==
  ASSUME IInv, NEW v \in Call, Logout(v)
  PROVE  IInv'
<1> USE DEF Logout
<1>1. TypeOK'
  BY SMT DEF IInv, TypeOK
<1>2. \A w \in Call : session'[w] = "none" <=> session[w] = "none"
  BY SMT DEF IInv, TypeOK
<1>3. RowInv' /\ PageInv'
  BY DEF IInv, RowInv, RowHeld, SeenIsCurrent, AllCounted, PageInv, SentFirst,
         BarredIsNoModerator, AccessFollowsRole
<1>4. SessionInv'
  BY <1>2 DEF IInv, SessionInv, NoSessionBefore, OneSessionPerChallenge, Opened
<1> QED BY <1>1, <1>3, <1>4 DEF IInv

(* Role changes and the clock. *)
LEMMA OtherStep ==
  ASSUME IInv, (\E m \in Person : SwitchModerator(m)) \/ Tick \/ UNCHANGED vars
  PROVE  IInv'
<1> USE PeopleAssumption, CallsAssumption, SettingsAssumption
<1>1. UNCHANGED <<challenges, attempting, sessions, page, cookie>>
  BY DEF SwitchModerator, Tick, vars
<1>2. TypeOK'
  <2>1. CASE Tick BY <2>1, SMT DEF IInv, TypeOK, Tick
  <2>2. ASSUME NEW m \in Person, SwitchModerator(m) PROVE TypeOK'
    BY <2>2, SMT DEF IInv, TypeOK, SwitchModerator
  <2>3. CASE UNCHANGED vars BY <2>3, SMT DEF IInv, TypeOK, vars
  <2> QED BY <2>1, <2>2, <2>3
<1>3. RowInv' /\ SessionInv'
  BY <1>1 DEF IInv, RowInv, RowHeld, SeenIsCurrent, AllCounted, SessionInv,
              NoSessionBefore, OneSessionPerChallenge, Opened
<1>4. PageInv'
  <2> USE DEF IInv, TypeOK, PageInv, SentFirst, BarredIsNoModerator,
              AccessFollowsRole
  <2>1. CASE Tick \/ UNCHANGED vars BY <2>1, SMT DEF Tick, vars
  <2>2. ASSUME NEW m \in Person, SwitchModerator(m) PROVE PageInv'
    <3> USE <2>2 DEF SwitchModerator
    <3>1. ASSUME NEW p \in Page
          PROVE  barred'[p] <=> barred[p] /\ (m \in moderators \/ Who[For[cookie[p]]] # m)
      OBVIOUS
    <3>2. BarredIsNoModerator' BY <3>1, SMT
    <3> QED BY <3>1, <3>2
  <2> QED BY <2>1, <2>2
<1> QED BY <1>2, <1>3, <1>4 DEF IInv

LEMMA StepInv == IInv /\ [Next]_vars => IInv'
  BY AskStep, QuietCallStep, CountWrongStep, ConsumeStep, PageStep, LogoutStep,
     OtherStep
  DEF Next, VerifyChallenge

-----------------------------------------------------------------------------
(* The inductive invariant holds in every behaviour. *)
THEOREM SignInInv == Spec => []IInv
  BY InitInv, StepInv, PTL DEF Spec

(* The variables of sign-in keep their types, attempt_count its range. *)
THEOREM SignInTypeOK == Spec => []TypeOK
<1>1. IInv => TypeOK BY DEF IInv
<1> QED BY <1>1, SignInInv, PTL

(* At most max_attempts wrong codes are compared with a challenge, however  *)
(* many attempts run at once.                                               *)
THEOREM AttemptsAreBounded == Spec => []AttemptsBounded
<1>1. IInv => AttemptsBounded
  BY SettingsAssumption, SMT DEF IInv, TypeOK, RowInv, AllCounted, AttemptsBounded
<1> QED BY <1>1, SignInInv, PTL

(* A challenge is consumed exactly when one attempt has its session. *)
THEOREM ConsumedOnce == Spec => []OneSessionPerChallenge
<1>1. IInv => OneSessionPerChallenge BY DEF IInv, SessionInv
<1> QED BY <1>1, SignInInv, PTL

(* A challenge somebody can try is one whose code went out. *)
THEOREM SentBeforeStored == Spec => []StoredWasSent
<1>1. IInv => StoredWasSent BY DEF IInv, PageInv, SentFirst, StoredWasSent
<1> QED BY <1>1, SignInInv, PTL

(* No page asked for after a demotion is served until a promotion. *)
THEOREM RoleIsChecked == Spec => []AccessFollowsRole
<1>1. IInv => AccessFollowsRole BY DEF IInv, PageInv
<1> QED BY <1>1, SignInInv, PTL

-----------------------------------------------------------------------------
(* The refinement *)

Issued == {c \in Challenge : ask[c] = "stored"}
Redeemed == [c \in Challenge |-> Opened(c)]

LEMMA CodesUnchanged ==
  ASSUME Issued' = Issued, guesses' = guesses, Redeemed' = Redeemed
  PROVE  UNCHANGED Code!codes
  BY DEF Issued, Redeemed, Code!codes

LEMMA AskMaps ==
  ASSUME IInv, NEW c \in Challenge, RequestChallenge(c) \/ AskDies(c)
  PROVE  [Code!Next]_(Code!codes)
<1>1. guesses' = guesses /\ Redeemed' = Redeemed
  BY DEF Redeemed, Opened, RequestChallenge, Ask, AskRefused, SendCode,
         SendFails, CommitChallenge, AskDies
<1>2. CASE CommitChallenge(c)
  <2>1. c \notin Issued /\ Issued' = Issued \cup {c}
    BY <1>2, SMT DEF Issued, IInv, TypeOK, CommitChallenge
  <2>2. Code!Issue(c)
    BY <1>1, <2>1 DEF Code!Issue, Issued, Redeemed
  <2> QED BY <2>2 DEF Code!Next
<1>3. CASE ~CommitChallenge(c)
  <2>1. Issued' = Issued
    BY <1>3, SMT DEF Issued, IInv, TypeOK, RequestChallenge, Ask, AskRefused,
         SendCode, SendFails, AskDies
  <2> QED BY <2>1, <1>1, CodesUnchanged
<1> QED BY <1>2, <1>3

LEMMA CountWrongMaps ==
  ASSUME IInv, NEW v \in Call, CountWrong(v)
  PROVE  Code!Next
<1>1. For[v] \in Challenge BY CallsAssumption
<1>2. Issued' = Issued /\ Redeemed' = Redeemed
  BY DEF Issued, Redeemed, Opened, CountWrong
<1>3. For[v] \in Issued /\ Opened(For[v]) = {} /\ guesses[For[v]] < MaxAttempts
  BY <1>1, SMT DEF CountWrong, IInv, RowInv, SeenIsCurrent, AllCounted,
       SessionInv, OneSessionPerChallenge, Issued
<1>4. Code!GuessWrong(For[v])
  BY <1>1, <1>2, <1>3 DEF Code!GuessWrong, Code!Usable, CountWrong, Issued,
       Redeemed
<1> QED BY <1>1, <1>4 DEF Code!Next

LEMMA ConsumeMaps ==
  ASSUME IInv, NEW v \in Call, Consume(v)
  PROVE  Code!Next
<1>1. For[v] \in Challenge BY CallsAssumption
<1>2. Issued' = Issued /\ guesses' = guesses
  BY DEF Issued, Consume, OpenSession
<1>3. For[v] \in Issued /\ Opened(For[v]) = {} /\ guesses[For[v]] < MaxAttempts
  BY <1>1, ConsumeOpens
  DEF Consume, OpenSession, IInv, RowInv, SeenIsCurrent, AllCounted, Issued
<1>4. Redeemed' = [Redeemed EXCEPT ![For[v]] = {v}]
  <2>1. ASSUME NEW c \in Challenge
        PROVE  Opened(c)' = IF c = For[v] THEN {v} ELSE Opened(c)
    <3>1. CASE c = For[v] BY <3>1, ConsumeOpens DEF Opened
    <3>2. CASE c # For[v] BY <3>2, ConsumeOpens DEF Opened
    <3> QED BY <3>1, <3>2
  <2> QED BY <1>1, <2>1 DEF Redeemed
<1>5. Code!Redeem(For[v], v)
  BY <1>1, <1>2, <1>3, <1>4 DEF Code!Redeem, Code!Usable, Issued, Redeemed
<1> QED BY <1>1, <1>5 DEF Code!Next

LEMMA OthersMap ==
  ASSUME IInv,
         \/ \E v \in Call : Verify(v) \/ Read(v) \/ Refuse(v) \/ GiveToken(v)
                            \/ VerifyDies(v) \/ Logout(v)
         \/ \E p \in Page : GetModeratorContext(p)
         \/ \E m \in Person : SwitchModerator(m)
         \/ Tick
         \/ UNCHANGED vars
  PROVE  UNCHANGED Code!codes
<1>1. ask' = ask /\ guesses' = guesses
  BY DEF Verify, Read, Look, Refuse, GiveToken, VerifyDies, Logout,
         GetModeratorContext, OpenPage, BuildContext, ClosePage,
         SwitchModerator, Tick, vars
<1>2. \A w \in Call : (session[w] # "none")' <=> session[w] # "none"
  BY SMT DEF IInv, TypeOK, Verify, Read, Look, Refuse, GiveToken, VerifyDies,
         Logout, GetModeratorContext, OpenPage, BuildContext, ClosePage,
         SwitchModerator, Tick, vars
<1> QED BY <1>1, <1>2, CodesUnchanged DEF Issued, Redeemed, Opened

(* Concurrent attempts at codes implement OneTimeCode: guesses bounded,     *)
(* one redemption, nothing after it.                                        *)
THEOREM SignInRefines == Spec => ImplementsOneTimeCode
<1>1. Init => Code!Init
  BY DEF Init, Code!Init, Opened
<1>2. IInv /\ [Next]_vars => [Code!Next]_(Code!codes)
  BY AskMaps, CountWrongMaps, ConsumeMaps, OthersMap DEF Next, VerifyChallenge
<1> QED BY <1>1, <1>2, SignInInv, PTL DEF Spec, Code!Spec, ImplementsOneTimeCode
=============================================================================
