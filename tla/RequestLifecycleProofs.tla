----------------------- MODULE RequestLifecycleProofs -----------------------
(***************************************************************************)
(* Proofs about RequestLifecycle, for any requests, handlers, sweeps and   *)
(* times.  LifecycleInv is inductive; the theorems at the end read off it. *)
(***************************************************************************)
EXTENDS RequestLifecycle, TLAPS

(* A request starts open, with an empty trail. *)
LEMMA InitInv == Init => LifecycleInv
<1> USE TimesAssumption, NobodyAssumption
<1> SUFFICES ASSUME Init PROVE LifecycleInv
  OBVIOUS
<1>1. TypeOK
  BY DEF Init, TypeOK, Time, NothingRead, Actor
<1>2. ClosingsOverlap /\ ClosersBeganBefore /\ SweepsExpireStale
  BY DEF Init, ClosingsOverlap, ClosersBeganBefore, SweepsExpireStale, Open
<1>3. TimestampsHaveEvents /\ ExpiryIsJustified
  BY DEF Init, TimestampsHaveEvents, ExpiryIsJustified, ToSet
<1> QED BY <1>1, <1>2, <1>3 DEF LifecycleInv

(* A transaction that begins leaves the types alone. *)
LEMMA BeginType ==
  ASSUME TypeOK, NEW a \in Actor, NEW r \in Request,
         NEW l \in {"join", "held", "send", "complete", "cancel"},
         Begin(a, r, l)
  PROVE  TypeOK'
BY DEF Begin, TypeOK, Goto, row, ClosedStatus

(* So does one that ends. *)
LEMMA FinishType ==
  ASSUME TypeOK, NEW a \in Actor, Finish(a)
  PROVE  /\ pc' \in [Actor -> {"idle", "join", "held", "send", "sent",
                               "complete", "cancel", "sweep", "done"}]
         /\ req' \in [Actor -> Request \cup {Nobody}]
         /\ began' \in [Actor -> Time]
         /\ judged' \in [Sweeper -> [Request -> Time]]
BY TimesAssumption DEF Finish, TypeOK, Goto, Time, NothingRead

(* A message enters with a creation time and a touch on the clock. *)
LEMMA EnterType ==
  ASSUME TypeOK, NEW a \in Actor, NEW u \in Time,
         Enter(a, u)
  PROVE  activity' \in [Request -> Time]
BY DEF Enter, TypeOK

(* The events a sweep and a moderator write are closing events. *)
LEMMA EventType ==
  ASSUME TypeOK
  PROVE  /\ \A m \in Moderator, act \in {"complete", "cancel"} :
              Resolved(m, act) \in ClosingEvent
         /\ \A s \in Sweeper, r \in Request : Expired(s, r) \in ClosingEvent
<1>1. ASSUME NEW m \in Moderator, NEW act \in {"complete", "cancel"}
      PROVE  Resolved(m, act) \in ClosingEvent
  BY TimesAssumption
     DEF Resolved, ResolvedStatus, ClosingEvent, ClosedStatus, Time, TypeOK, Actor
<1>2. ASSUME NEW s \in Sweeper, NEW r \in Request
      PROVE  Expired(s, r) \in ClosingEvent
  BY DEF TypeOK, Expired, CloseReason, ClosingEvent, ClosedStatus, Actor
<1> QED BY <1>1, <1>2

(* No step breaks a type. *)
LEMMA NextTypeOK == TypeOK /\ [Next]_vars => TypeOK'
<1> SUFFICES ASSUME TypeOK, [Next]_vars PROVE TypeOK'
  OBVIOUS
<1> USE TimesAssumption DEF local, row
<1>1. CASE Tick
  BY <1>1 DEF Tick, TypeOK, Time
<1>2. ASSUME NEW x \in Texter, Text(x) PROVE TypeOK'
  <2>1. x \in Actor /\ began[x] \in Time /\ now \in Time
    BY DEF Actor, TypeOK
  <2>2. ASSUME NEW r \in Request, FindCandidate(x, r) \/ AskWhichRequest(x, r)
        PROVE  TypeOK'
    BY <2>1, <2>2, BeginType DEF FindCandidate, AskWhichRequest
  <2>3. ASSUME Join(x) \/ HandleChoice(x) PROVE TypeOK'
    <3>1. Finish(x) /\ \E u \in Time : Enter(x, u)
      BY <2>1, <2>3 DEF Join, HandleChoice, Time
    <3>2. UNCHANGED <<now, status, completedAt, cancelledAt, closings, lock,
                      todo, aborts>>
      BY <2>3 DEF Join, HandleChoice
    <3>3. activity' \in [Request -> Time]
      BY <2>1, <3>1, EnterType
    <3> QED BY <2>1, <3>1, <3>2, <3>3, FinishType DEF TypeOK
  <2> QED BY <1>2, <2>2, <2>3 DEF Text
<1>3. ASSUME NEW p \in Speaker, Speak(p) PROVE TypeOK'
  <2>1. p \in Actor /\ began[p] \in Time
    BY DEF Actor, TypeOK
  <2>2. ASSUME NEW r \in Request, SendModeratorMessage(p, r) \/ FanOut(p, r)
        PROVE  TypeOK'
    BY <2>1, <2>2, BeginType DEF SendModeratorMessage, FanOut
  <2>3. CASE SendCopy(p)
    BY <2>1, <2>3 DEF SendCopy, TypeOK, Goto
  <2>4. CASE AllSendsFail(p)
    BY <2>1, <2>4, FinishType DEF AllSendsFail, TypeOK
  <2>5. CASE CommitCopies(p)
    <3>1. activity' \in [Request -> Time]
      BY <2>1, <2>5, EnterType DEF CommitCopies
    <3>2. lock' \in [Request -> Speaker \cup Sweeper \cup {Nobody}]
      BY <2>5 DEF CommitCopies, TypeOK
    <3> QED BY <2>1, <2>5, <3>1, <3>2, FinishType DEF CommitCopies, TypeOK
  <2> QED BY <1>3, <2>2, <2>3, <2>4, <2>5 DEF Speak
<1>4. ASSUME NEW m \in Moderator, Moderate(m) PROVE TypeOK'
  <2>1. m \in Actor
    BY DEF Actor
  <2>2. ASSUME NEW act \in {"complete", "cancel"}, NEW r \in Request,
               RequireOpen(m, r, act)
        PROVE  TypeOK'
    BY <2>1, <2>2, BeginType DEF RequireOpen
  <2>3. ASSUME NEW act \in {"complete", "cancel"}, Resolve(m, act)
        PROVE  TypeOK'
    <3>1. status' \in [Request -> {"open"} \cup ClosedStatus]
      BY <2>3 DEF Resolve, ResolvedStatus, ClosedStatus, TypeOK
    <3>2. closings' \in [Request -> Seq(ClosingEvent)]
      <4>1. \A r \in Request :
              Append(closings[r], Resolved(m, act)) \in Seq(ClosingEvent)
        BY <2>3, EventType DEF TypeOK
      <4> QED BY <2>3, <4>1 DEF Resolve, TypeOK
    <3>3. /\ completedAt' \in [Request -> BOOLEAN]
          /\ cancelledAt' \in [Request -> BOOLEAN]
      BY <2>3 DEF Resolve, TypeOK
    <3> QED BY <2>1, <2>3, <3>1, <3>2, <3>3, FinishType DEF Resolve, TypeOK
  <2> QED BY <1>4, <2>2, <2>3 DEF Moderate
<1>5. ASSUME NEW s \in Sweeper, Sweep(s) PROVE TypeOK'
  <2>1. s \in Actor
    BY DEF Actor
  <2>2. CASE ListStale(s)
    BY <2>1, <2>2 DEF ListStale, TypeOK, Goto
  <2>3. ASSUME NEW r \in Request, Expire(s, r) PROVE TypeOK'
    BY <2>3 DEF Expire, TypeOK
  <2>4. CASE CommitSweep(s)
    <3>1. status' \in [Request -> {"open"} \cup ClosedStatus]
      BY <2>4 DEF CommitSweep, ClosedStatus, TypeOK
    <3>2. closings' \in [Request -> Seq(ClosingEvent)]
      <4>1. \A r \in Request :
              Append(closings[r], Expired(s, r)) \in Seq(ClosingEvent)
        BY EventType DEF TypeOK
      <4> QED BY <2>4, <4>1 DEF CommitSweep, TypeOK
    <3>3. lock' \in [Request -> Speaker \cup Sweeper \cup {Nobody}]
      BY <2>4 DEF CommitSweep, Release, TypeOK
    <3> QED BY <2>1, <2>4, <3>1, <3>2, <3>3, FinishType DEF CommitSweep, TypeOK
  <2>5. ASSUME NEW v \in Sweeper, NEW r \in Request, AbortDeadlocked(s, v, r)
        PROVE  TypeOK'
    <3>1. lock' \in [Request -> Speaker \cup Sweeper \cup {Nobody}]
      BY <2>5 DEF AbortDeadlocked, TypeOK
    <3>2. todo' \in [Sweeper -> SUBSET Request]
      BY <2>5 DEF AbortDeadlocked, TypeOK
    <3> QED BY <2>1, <2>5, <3>1, <3>2, FinishType DEF AbortDeadlocked, TypeOK
  <2> QED BY <1>5, <2>2, <2>3, <2>4, <2>5 DEF Sweep
<1>6. ASSUME NEW a \in Actor, Abort(a) PROVE TypeOK'
  <2>1. lock' \in [Request -> Speaker \cup Sweeper \cup {Nobody}]
    BY <1>6 DEF Abort, Release, TypeOK
  <2>2. todo' \in [Sweeper -> SUBSET Request] /\ aborts' \in 0 .. MaxAbort
    BY <1>6 DEF Abort, TypeOK
  <2> QED BY <1>6, <2>1, <2>2, FinishType DEF Abort, TypeOK
<1>7. CASE UNCHANGED vars
  BY <1>7 DEF vars, TypeOK
<1> QED BY <1>1, <1>2, <1>3, <1>4, <1>5, <1>6, <1>7 DEF Next

-----------------------------------------------------------------------------
(* Only a moderator and the commit of a sweep write what a closing writes.  *)
LEMMA ClosingsOnlyByClosers ==
  ASSUME [Next]_vars
  PROVE  \/ \E m \in Moderator, act \in {"complete", "cancel"} : Resolve(m, act)
         \/ \E s \in Sweeper : CommitSweep(s)
         \/ UNCHANGED <<status, completedAt, cancelledAt, closings>>
<1> SUFFICES ASSUME ~\E m \in Moderator, act \in {"complete", "cancel"} :
                       Resolve(m, act),
                    ~\E s \in Sweeper : CommitSweep(s)
             PROVE  UNCHANGED <<status, completedAt, cancelledAt, closings>>
  OBVIOUS
<1> USE DEF row, Begin
<1>1. CASE Tick \/ UNCHANGED vars
  BY <1>1 DEF Tick, vars
<1>2. ASSUME NEW x \in Texter, Text(x)
      PROVE  UNCHANGED <<status, completedAt, cancelledAt, closings>>
  BY <1>2 DEF Text, FindCandidate, AskWhichRequest, Join, HandleChoice
<1>3. ASSUME NEW p \in Speaker, Speak(p)
      PROVE  UNCHANGED <<status, completedAt, cancelledAt, closings>>
  BY <1>3
     DEF Speak, SendModeratorMessage, FanOut, SendCopy, AllSendsFail, CommitCopies
<1>4. ASSUME NEW m \in Moderator, Moderate(m)
      PROVE  UNCHANGED <<status, completedAt, cancelledAt, closings>>
  BY <1>4 DEF Moderate, RequireOpen
<1>5. ASSUME NEW s \in Sweeper, Sweep(s)
      PROVE  UNCHANGED <<status, completedAt, cancelledAt, closings>>
  BY <1>5 DEF Sweep, ListStale, Expire, AbortDeadlocked
<1>6. ASSUME NEW a \in Actor, Abort(a)
      PROVE  UNCHANGED <<status, completedAt, cancelledAt, closings>>
  BY <1>6 DEF Abort
<1> QED BY <1>1, <1>2, <1>3, <1>4, <1>5, <1>6 DEF Next

(* A moderator appends one event of his own to a request ... *)
ResolvedBy(r, m, act) ==
  /\ pc[m] = act /\ req[m] = r
  /\ closings'[r] = Append(closings[r], Resolved(m, act))
  /\ status'[r] = ResolvedStatus(act)
  /\ completedAt'[r] = (completedAt[r] \/ act = "complete")
  /\ cancelledAt'[r] = (cancelledAt[r] \/ act = "cancel")

(* ... a sweep one for each row it holds ... *)
ExpiredBy(r, s) ==
  /\ lock[r] = s
  /\ closings'[r] = Append(closings[r], Expired(s, r))
  /\ status'[r] = "expired"
  /\ completedAt'[r] = completedAt[r]
  /\ cancelledAt'[r] = cancelledAt[r]

(* ... and every other step leaves what closing writes as it is. *)
NotClosed(r) ==
  /\ closings'[r] = closings[r]
  /\ status'[r] = status[r]
  /\ completedAt'[r] = completedAt[r]
  /\ cancelledAt'[r] = cancelledAt[r]

(* What a step may do to the closing columns and the trail of one request. *)
LEMMA ClosingEffect ==
  ASSUME TypeOK, [Next]_vars, NEW r \in Request
  PROVE  \/ \E m \in Moderator, act \in {"complete", "cancel"} : ResolvedBy(r, m, act)
         \/ \E s \in Sweeper : ExpiredBy(r, s)
         \/ NotClosed(r)
<1>1. ASSUME NEW m \in Moderator, NEW act \in {"complete", "cancel"},
             Resolve(m, act)
      PROVE  ResolvedBy(r, m, act) \/ NotClosed(r)
  <2>1. CASE req[m] = r
    BY <1>1, <2>1 DEF Resolve, ResolvedBy, TypeOK, At
  <2>2. CASE req[m] # r
    BY <1>1, <2>2 DEF Resolve, NotClosed, TypeOK
  <2> QED BY <2>1, <2>2
<1>2. ASSUME NEW s \in Sweeper, CommitSweep(s)
      PROVE  ExpiredBy(r, s) \/ NotClosed(r)
  BY <1>2 DEF CommitSweep, ExpiredBy, NotClosed, TypeOK
<1>3. CASE UNCHANGED <<status, completedAt, cancelledAt, closings>>
  BY <1>3 DEF NotClosed
<1> QED BY <1>1, <1>2, <1>3, ClosingsOnlyByClosers

(* Appending an event makes it the last one and adds it to the trail; the   *)
(* first one stays.                                                         *)
LEMMA Appended ==
  ASSUME NEW c \in Seq(ClosingEvent), NEW e \in ClosingEvent
  PROVE  /\ Append(c, e) # <<>>
         /\ Last(Append(c, e)) = e
         /\ ToSet(Append(c, e)) = ToSet(c) \cup {e}
         /\ Append(c, e)[1] = IF c = <<>> THEN e ELSE c[1]
         /\ c = <<>> => ToSet(c) = {}
<1> DEFINE d == Append(c, e)
<1>1. /\ DOMAIN c = 1 .. Len(c) /\ Len(c) \in Nat /\ (c = <<>> <=> Len(c) = 0)
      /\ DOMAIN d = 1 .. (Len(c) + 1) /\ Len(d) = Len(c) + 1
      /\ d[Len(c) + 1] = e /\ \A i \in 1 .. Len(c) : d[i] = c[i]
  OBVIOUS
<1>2. d # <<>> /\ Last(d) = e
  BY <1>1 DEF Last
<1>3. \A x : x \in ToSet(d) <=> x \in ToSet(c) \cup {e}
  <2> SUFFICES \A x : (\E i \in DOMAIN d : x = d[i]) <=>
                        (\E i \in DOMAIN c : x = c[i]) \/ x = e
    BY DEF ToSet
  <2> HIDE DEF d
  <2> QED BY <1>1
<1>4. d[1] = IF c = <<>> THEN e ELSE c[1]
  <2> HIDE DEF d
  <2> QED BY <1>1
<1>5. c = <<>> => ToSet(c) = {}
  BY <1>1 DEF ToSet
<1> QED BY <1>2, <1>3, <1>4, <1>5

(* What a transaction that goes on or begins makes of its clock.            *)
OwnClock(a) ==
  /\ began'[a] \in {0, began[a], now}
  /\ \A r \in Request : Closing(a, r)' =>
       \/ Closing(a, r) /\ began'[a] = began[a]
       \/ Open(r)

(* A handler comes to close a request only from finding it open, at the     *)
(* time it then carries: a sweep that begins holds no row.                  *)
LEMMA ClosersFindOpen ==
  ASSUME TypeOK, SweepsExpireStale, [Next]_vars, NEW a \in Actor
  PROVE  OwnClock(a)
<1> USE NobodyAssumption, KindsAreDistinct DEF OwnClock, Closing, row, local
<1> DEFINE Idle == /\ began'[a] = began[a] /\ req'[a] = req[a] /\ pc'[a] = pc[a]
                   /\ a \in Sweeper => /\ todo'[a] \subseteq todo[a]
                                       /\ \A r \in Request : lock'[r] = a => lock[r] = a
           Over == /\ began'[a] = 0 /\ pc'[a] \in {"idle", "done"}
                   /\ a \in Sweeper => todo'[a] = {} /\ \A r \in Request : lock'[r] # a
<1>0. (Idle => OwnClock(a)) /\ (Over => OwnClock(a))
  OBVIOUS
<1>1. CASE Tick \/ UNCHANGED vars
  BY <1>0, <1>1 DEF Tick, vars
<1>2. ASSUME NEW b \in Actor \ Sweeper, NEW r \in Request,
             NEW l \in {"join", "held", "send", "complete", "cancel"},
             Begin(b, r, l), l \in {"complete", "cancel"} => Open(r)
      PROVE  OwnClock(a)
  <2>1. CASE b # a
    BY <1>0, <1>2, <2>1 DEF Begin, Goto, TypeOK
  <2>2. CASE b = a
    BY <1>2, <2>2 DEF Begin, Goto, TypeOK
  <2> QED BY <2>1, <2>2
<1>3. ASSUME NEW b \in Actor \ Sweeper, Finish(b), todo' = todo,
             \A r \in Request : lock'[r] \in {lock[r], Nobody}
      PROVE  OwnClock(a)
  <2>1. CASE b # a
    <3>1. Idle
      BY <1>3, <2>1 DEF Finish, Goto, TypeOK, Actor
    <3> QED BY <1>0, <3>1
  <2>2. CASE b = a
    <3>1. Over
      BY <1>3, <2>2 DEF Finish, Goto, TypeOK
    <3> QED BY <1>0, <3>1
  <2> QED BY <2>1, <2>2
<1>4. ASSUME NEW x \in Texter, Text(x) PROVE OwnClock(a)
  <2>1. x \in Actor \ Sweeper
    BY DEF Actor
  <2>2. CASE \E r \in Request : FindCandidate(x, r) \/ AskWhichRequest(x, r)
    BY <1>2, <2>1, <2>2 DEF FindCandidate, AskWhichRequest
  <2>3. CASE Join(x) \/ HandleChoice(x)
    BY <1>3, <2>1, <2>3 DEF Join, HandleChoice
  <2> QED BY <1>4, <2>2, <2>3 DEF Text
<1>5. ASSUME NEW p \in Speaker, Speak(p) PROVE OwnClock(a)
  <2>1. p \in Actor \ Sweeper
    BY DEF Actor
  <2>2. CASE \E r \in Request : SendModeratorMessage(p, r) \/ FanOut(p, r)
    BY <1>2, <2>1, <2>2 DEF SendModeratorMessage, FanOut
  <2>3. CASE SendCopy(p)
    BY <2>1, <2>3 DEF SendCopy, Goto, TypeOK
  <2>4. CASE AllSendsFail(p)
    BY <1>3, <2>1, <2>4 DEF AllSendsFail
  <2>5. CASE CommitCopies(p)
    <3>1. \A r \in Request : lock'[r] \in {lock[r], Nobody}
      BY <2>5 DEF CommitCopies, TypeOK
    <3> QED BY <1>3, <2>1, <2>5, <3>1 DEF CommitCopies
  <2> QED BY <1>5, <2>2, <2>3, <2>4, <2>5 DEF Speak
<1>6. ASSUME NEW m \in Moderator, Moderate(m) PROVE OwnClock(a)
  <2>1. m \in Actor \ Sweeper
    BY DEF Actor
  <2>2. CASE \E act \in {"complete", "cancel"}, r \in Request : RequireOpen(m, r, act)
    BY <1>2, <2>1, <2>2 DEF RequireOpen
  <2>3. CASE \E act \in {"complete", "cancel"} : Resolve(m, act)
    BY <1>3, <2>1, <2>3 DEF Resolve
  <2> QED BY <1>6, <2>2, <2>3 DEF Moderate
<1>7. ASSUME NEW t \in Sweeper, Sweep(t) PROVE OwnClock(a)
  <2>0. t \in Actor
    BY DEF Actor
  <2>1. CASE ListStale(t)
    <3>1. CASE t = a
      <4>1. \A r \in Request : lock'[r] # a
        BY <2>1, <3>1 DEF ListStale, At, SweepsExpireStale
      <4>2. began'[a] = now /\ pc'[a] = "sweep" /\ \A r \in todo'[a] : Open(r)
        BY <2>0, <2>1, <3>1 DEF ListStale, NeedsClose, Goto, TypeOK
      <4> QED BY <4>1, <4>2
    <3>2. CASE t # a
      BY <1>0, <2>0, <2>1, <3>2 DEF ListStale, Goto, TypeOK
    <3> QED BY <3>1, <3>2
  <2>2. ASSUME NEW r \in Request, Expire(t, r) PROVE OwnClock(a)
    BY <2>0, <2>2 DEF Expire, TypeOK
  <2>3. CASE CommitSweep(t)
    <3>1. CASE t = a
      BY <1>0, <2>3, <3>1 DEF CommitSweep, Release, Finish, Goto, TypeOK
    <3>2. CASE t # a
      BY <1>0, <2>0, <2>3, <3>2 DEF CommitSweep, Release, Finish, Goto, TypeOK, Actor
    <3> QED BY <3>1, <3>2
  <2>4. ASSUME NEW v \in Sweeper, NEW q \in Request, AbortDeadlocked(t, v, q)
        PROVE  OwnClock(a)
    <3>1. CASE t = a
      BY <1>0, <2>4, <3>1 DEF AbortDeadlocked, Finish, Goto, TypeOK
    <3>2. CASE t # a
      <4>1. began'[a] = began[a] /\ req'[a] = req[a] /\ pc'[a] = pc[a]
        BY <2>0, <2>4, <3>2 DEF AbortDeadlocked, Finish, Goto, TypeOK
      <4>2. \A r \in Request : a \in Sweeper /\ (r \in todo'[a] \/ lock'[r] = a) =>
              r \in todo[a] \/ lock[r] = a
        BY <2>4, <3>2 DEF AbortDeadlocked, TypeOK, Actor
      <4> QED BY <4>1, <4>2
    <3> QED BY <3>1, <3>2
  <2> QED BY <1>7, <2>1, <2>2, <2>3, <2>4 DEF Sweep
<1>8. ASSUME NEW b \in Actor, Abort(b) PROVE OwnClock(a)
  <2>1. CASE b = a
    BY <1>0, <1>8, <2>1 DEF Abort, Release, Finish, Goto, TypeOK
  <2>2. CASE b # a
    BY <1>0, <1>8, <2>2 DEF Abort, Release, Finish, Goto, TypeOK, Actor
  <2> QED BY <2>1, <2>2
<1> QED BY <1>1, <1>4, <1>5, <1>6, <1>7, <1>8 DEF Next

(* The clock never goes back. *)
LEMMA ClockGoesOn == TypeOK /\ [Next]_vars => now \in Nat /\ now' \in Nat /\ now <= now'
<1> SUFFICES ASSUME TypeOK, [Next]_vars PROVE now \in Nat /\ now' \in Nat /\ now <= now'
  OBVIOUS
<1>1. now \in Nat
  BY TimesAssumption DEF TypeOK, Time
<1>2. now' = now \/ now' = now + 1
  BY DEF Next, vars, Tick, Text, FindCandidate, AskWhichRequest, Join, HandleChoice,
         Speak, SendModeratorMessage, FanOut, SendCopy, AllSendsFail, CommitCopies,
         Moderate, RequireOpen, Resolve, Sweep, ListStale, Expire, CommitSweep,
         AbortDeadlocked, Abort, Begin
<1> QED BY <1>1, <1>2

(* The row and the last event change together, and whoever closes a closed  *)
(* request began before it was.                                             *)
LEMMA NextClosings ==
  TypeOK /\ ClosingsOverlap /\ ClosersBeganBefore /\ SweepsExpireStale /\ [Next]_vars
    => ClosingsOverlap' /\ ClosersBeganBefore'
<1> SUFFICES ASSUME TypeOK, ClosingsOverlap, ClosersBeganBefore, SweepsExpireStale,
                    [Next]_vars
             PROVE  ClosingsOverlap' /\ ClosersBeganBefore'
  OBVIOUS
<1> DEFINE Agree(c, st) ==
      IF c = <<>> THEN st = "open"
      ELSE st = Last(c).type /\ \A e \in ToSet(c) : e.at <= c[1].committed
<1>1. now \in Nat /\ now' \in Nat /\ now <= now'
  BY ClockGoesOn
<1>2. ASSUME NEW a \in Actor
      PROVE  /\ began[a] \in Nat /\ began[a] <= now
             /\ began'[a] \in Nat /\ began'[a] <= now /\ began'[a] <= now'
             /\ OwnClock(a)
  <2>1. began[a] \in Nat /\ began[a] <= now
    BY TimesAssumption DEF TypeOK, Time, ClosersBeganBefore
  <2>2. OwnClock(a)
    BY ClosersFindOpen
  <2> QED BY <1>1, <2>1, <2>2 DEF OwnClock
<1>3. ASSUME NEW r \in Request
      PROVE  /\ closings[r] \in Seq(ClosingEvent) /\ Agree(closings[r], status[r])
             /\ closings[r] # <<>> =>
                  /\ ~Open(r) /\ closings[r][1].committed \in Nat
                  /\ \A a \in Actor : Closing(a, r) =>
                       began[a] <= closings[r][1].committed
  <2>1. closings[r] \in Seq(ClosingEvent) /\ Agree(closings[r], status[r])
    BY DEF TypeOK, ClosingsOverlap, LastCommitted, FirstCommitted, Open
  <2>2. ASSUME closings[r] # <<>>
        PROVE  closings[r][1] \in ClosingEvent /\ Last(closings[r]) \in ClosingEvent
    BY <2>1, <2>2 DEF Last
  <2>3. closings[r] # <<>> => ~Open(r) /\ closings[r][1].committed \in Nat
    BY TimesAssumption, <2>1, <2>2 DEF ClosingEvent, ClosedStatus, Time, Open
  <2> QED BY <2>1, <2>3 DEF ClosersBeganBefore, FirstCommitted
<1>4. ASSUME NEW r \in Request, NEW c \in Actor, Closing(c, r), NEW e \in ClosingEvent,
             e.at = began[c], e.committed = now,
             closings'[r] = Append(closings[r], e), status'[r] = e.type
      PROVE  /\ Agree(closings'[r], status'[r])
             /\ \A a \in Actor : Closing(a, r)' =>
                  began'[a] <= closings'[r][1].committed
  <2>1. /\ closings'[r] # <<>> /\ Last(closings'[r]) = e
        /\ ToSet(closings'[r]) = ToSet(closings[r]) \cup {e}
        /\ closings'[r][1] = IF closings[r] = <<>> THEN e ELSE closings[r][1]
        /\ closings[r] = <<>> => ToSet(closings[r]) = {}
    BY <1>3, <1>4, Appended
  <2>2. CASE closings[r] = <<>>
    BY <1>2, <1>4, <2>1, <2>2
  <2>3. CASE closings[r] # <<>>
    <3>1. closings'[r][1] = closings[r][1] /\ e.at <= closings[r][1].committed
      BY <1>3, <1>4, <2>1, <2>3
    <3>2. ASSUME NEW a \in Actor, Closing(a, r)'
          PROVE  began'[a] <= closings[r][1].committed
      BY <1>2, <1>3, <2>3, <3>2 DEF OwnClock
    <3> QED BY <1>3, <1>4, <2>1, <2>3, <3>1, <3>2
  <2> QED BY <2>2, <2>3
<1>5. ASSUME NEW r \in Request
      PROVE  /\ Agree(closings'[r], status'[r])
             /\ closings'[r] # <<>> => \A a \in Actor : Closing(a, r)' =>
                  began'[a] <= closings'[r][1].committed
  <2>1. CASE NotClosed(r)
    <3>1. closings'[r] = closings[r] /\ status'[r] = status[r]
      BY <2>1 DEF NotClosed
    <3>2. ASSUME NEW a \in Actor, Closing(a, r)', closings[r] # <<>>
          PROVE  began'[a] <= closings[r][1].committed
      BY <1>2, <1>3, <3>2 DEF OwnClock
    <3> QED BY <1>3, <3>1, <3>2
  <2>2. ASSUME NEW m \in Moderator, NEW act \in {"complete", "cancel"},
               ResolvedBy(r, m, act)
        PROVE  /\ Agree(closings'[r], status'[r])
               /\ \A a \in Actor : Closing(a, r)' =>
                    began'[a] <= closings'[r][1].committed
    <3>1. m \in Actor /\ Closing(m, r) /\ Resolved(m, act) \in ClosingEvent
      BY <2>2, EventType DEF Actor, Closing, ResolvedBy
    <3>2. /\ Resolved(m, act).at = began[m] /\ Resolved(m, act).committed = now
          /\ Resolved(m, act).type = ResolvedStatus(act)
      BY DEF Resolved
    <3>3. /\ closings'[r] = Append(closings[r], Resolved(m, act))
          /\ status'[r] = Resolved(m, act).type
      BY <2>2, <3>2 DEF ResolvedBy
    <3> HIDE DEF Agree
    <3> QED BY <1>4, <3>1, <3>2, <3>3
  <2>3. ASSUME NEW s \in Sweeper, ExpiredBy(r, s)
        PROVE  /\ Agree(closings'[r], status'[r])
               /\ \A a \in Actor : Closing(a, r)' =>
                    began'[a] <= closings'[r][1].committed
    <3>1. s \in Actor /\ Closing(s, r) /\ Expired(s, r) \in ClosingEvent
      BY <2>3, EventType DEF Actor, Closing, ExpiredBy
    <3>2. /\ Expired(s, r).at = began[s] /\ Expired(s, r).committed = now
          /\ Expired(s, r).type = "expired"
      BY DEF Expired
    <3> QED BY <1>4, <2>3, <3>1, <3>2 DEF ExpiredBy
  <2> QED BY <2>1, <2>2, <2>3, ClosingEffect
<1>6. ClosingsOverlap'
  BY <1>5 DEF ClosingsOverlap, LastCommitted, FirstCommitted, Open
<1>7. ClosersBeganBefore'
  BY <1>2, <1>5 DEF ClosersBeganBefore, FirstCommitted
<1> QED BY <1>6, <1>7

(* A timestamp is set by the step that records its event, and by no other. *)
LEMMA NextTimestamps ==
  TypeOK /\ TimestampsHaveEvents /\ [Next]_vars => TimestampsHaveEvents'
<1> DEFINE Has(c, type) == \E e \in ToSet(c) : e.type = type
<1>0. TimestampsHaveEvents <=>
        \A r \in Request : /\ completedAt[r] <=> Has(closings[r], "completed")
                           /\ cancelledAt[r] <=> Has(closings[r], "cancelled")
  BY DEF TimestampsHaveEvents
<1>1. TimestampsHaveEvents' <=>
        \A r \in Request :
          /\ completedAt'[r] <=> Has(closings'[r], "completed")
          /\ cancelledAt'[r] <=> Has(closings'[r], "cancelled")
  BY DEF TimestampsHaveEvents
<1> SUFFICES ASSUME TypeOK, TimestampsHaveEvents, [Next]_vars, NEW r \in Request
             PROVE  /\ completedAt'[r] <=> Has(closings'[r], "completed")
                    /\ cancelledAt'[r] <=> Has(closings'[r], "cancelled")
  BY <1>1
<1>2. /\ closings[r] \in Seq(ClosingEvent)
      /\ completedAt[r] <=> Has(closings[r], "completed")
      /\ cancelledAt[r] <=> Has(closings[r], "cancelled")
  BY <1>0 DEF TypeOK
<1>3. ASSUME NEW e \in ClosingEvent, closings'[r] = Append(closings[r], e),
             NEW type
      PROVE  Has(closings'[r], type) <=> Has(closings[r], type) \/ e.type = type
  BY <1>2, <1>3, Appended
<1> HIDE DEF Has
<1>4. ASSUME NEW m \in Moderator, NEW act \in {"complete", "cancel"}, ResolvedBy(r, m, act)
      PROVE  /\ completedAt'[r] <=> Has(closings'[r], "completed")
             /\ cancelledAt'[r] <=> Has(closings'[r], "cancelled")
  <2>1. \A type : Has(closings'[r], type) <=>
                    Has(closings[r], type) \/ ResolvedStatus(act) = type
    BY <1>3, <1>4, EventType DEF ResolvedBy, Resolved
  <2> QED BY <1>2, <1>4, <2>1 DEF ResolvedBy, ResolvedStatus
<1>5. ASSUME NEW s \in Sweeper, ExpiredBy(r, s)
      PROVE  /\ completedAt'[r] <=> Has(closings'[r], "completed")
             /\ cancelledAt'[r] <=> Has(closings'[r], "cancelled")
  <2>1. \A type : Has(closings'[r], type) <=>
                    Has(closings[r], type) \/ "expired" = type
    BY <1>3, <1>5, EventType DEF ExpiredBy, Expired
  <2> QED BY <1>2, <1>5, <2>1 DEF ExpiredBy
<1>6. CASE NotClosed(r)
  BY <1>2, <1>6 DEF NotClosed
<1> QED BY <1>4, <1>5, <1>6, ClosingEffect

(* The end of a transaction touches no other sweep. *)
LEMMA FinishOther ==
  ASSUME TypeOK, NEW a \in Actor, Finish(a), NEW s \in Sweeper, s # a
  PROVE  pc'[s] = pc[s] /\ began'[s] = began[s] /\ judged'[s] = judged[s]
BY DEF Finish, Goto, TypeOK, Actor

(* What a sweep has in hand was stale when it was listed, in the next state *)
(* as well: only its own steps add to it.                                   *)
LEMMA NextSweepsExpireStale ==
  TypeOK /\ SweepsExpireStale /\ [Next]_vars => SweepsExpireStale'
<1> SUFFICES ASSUME TypeOK, SweepsExpireStale, [Next]_vars,
                    NEW s \in Sweeper, NEW r \in Request,
                    r \in todo'[s] \/ lock'[r] = s
             PROVE  /\ pc'[s] = "sweep"
                    /\ \/ ExpiresAt <= began'[s]
                       \/ judged'[s][r] + Inactivity <= began'[s]
  BY DEF SweepsExpireStale, ExpiresAt
<1> USE NobodyAssumption, KindsAreDistinct DEF row, local
<1> DEFINE Kept == /\ r \in todo[s] \/ lock[r] = s
                   /\ pc'[s] = pc[s] /\ began'[s] = began[s]
                   /\ judged'[s] = judged[s]
<1>0. s \in Actor
  BY DEF Actor
<1>1. CASE Kept
  BY <1>1 DEF SweepsExpireStale
<1>2. CASE Tick \/ UNCHANGED vars
  <2>1. Kept
    BY <1>2 DEF Tick, vars
  <2> QED BY <2>1, <1>1
<1>3. ASSUME NEW a \in Actor, a # s, NEW q \in Request,
             NEW l \in {"join", "held", "send", "complete", "cancel"},
             Begin(a, q, l)
      PROVE  Kept
  BY <1>0, <1>3 DEF Begin, Goto, TypeOK
<1>4. ASSUME NEW x \in Texter, Text(x) PROVE Kept
  <2>1. x # s /\ x \in Actor
    BY DEF Actor
  <2>2. CASE \E q \in Request : FindCandidate(x, q) \/ AskWhichRequest(x, q)
    BY <1>3, <2>1, <2>2 DEF FindCandidate, AskWhichRequest
  <2>3. CASE Join(x) \/ HandleChoice(x)
    BY <2>1, <2>3, FinishOther DEF Join, HandleChoice
  <2> QED BY <1>4, <2>2, <2>3 DEF Text
<1>5. ASSUME NEW p \in Speaker, Speak(p) PROVE Kept
  <2>1. p # s /\ p \in Actor
    BY DEF Actor
  <2>2. CASE \E q \in Request : SendModeratorMessage(p, q) \/ FanOut(p, q)
    BY <1>3, <2>1, <2>2 DEF SendModeratorMessage, FanOut
  <2>3. CASE SendCopy(p)
    BY <1>0, <2>1, <2>3 DEF SendCopy, Goto, TypeOK
  <2>4. CASE AllSendsFail(p)
    BY <2>1, <2>4, FinishOther DEF AllSendsFail
  <2>5. CASE CommitCopies(p)
    <3>1. lock'[r] = s => lock[r] = s
      BY <2>5 DEF CommitCopies, TypeOK, Actor
    <3> QED BY <2>1, <2>5, <3>1, FinishOther DEF CommitCopies
  <2> QED BY <1>5, <2>2, <2>3, <2>4, <2>5 DEF Speak
<1>6. ASSUME NEW m \in Moderator, Moderate(m) PROVE Kept
  <2>1. m # s /\ m \in Actor
    BY DEF Actor
  <2>2. CASE \E act \in {"complete", "cancel"}, q \in Request :
               RequireOpen(m, q, act)
    BY <1>3, <2>1, <2>2 DEF RequireOpen
  <2>3. CASE \E act \in {"complete", "cancel"} : Resolve(m, act)
    BY <2>1, <2>3, FinishOther DEF Resolve
  <2> QED BY <1>6, <2>2, <2>3 DEF Moderate
<1>7. ASSUME NEW t \in Sweeper, Sweep(t)
      PROVE  /\ pc'[s] = "sweep"
             /\ \/ ExpiresAt <= began'[s]
                \/ judged'[s][r] + Inactivity <= began'[s]
  <2>0. t \in Actor
    BY DEF Actor
  <2>1. CASE ListStale(t)
    <3>1. CASE t # s
      BY <1>0, <1>1, <2>1, <3>1 DEF ListStale, Goto, TypeOK
    <3>2. CASE t = s
      <4>1. r \in todo'[s] /\ NeedsClose(r)
        BY <1>0, <2>1, <3>2 DEF ListStale, At, SweepsExpireStale, TypeOK
      <4> QED BY <1>0, <2>1, <3>2, <4>1 DEF ListStale, Goto, NeedsClose, TypeOK
    <3> QED BY <3>1, <3>2
  <2>2. ASSUME NEW q \in Request, Expire(t, q) PROVE Kept
    <3>1. r \in todo[s] \/ lock[r] = s
      BY <2>2 DEF Expire, TypeOK
    <3> QED BY <2>2, <3>1 DEF Expire
  <2>3. CASE CommitSweep(t)
    <3>1. t # s /\ (r \in todo[s] \/ lock[r] = s)
      BY <2>3 DEF CommitSweep, Release, Actor
    <3> QED BY <1>1, <2>0, <2>3, <3>1, FinishOther DEF CommitSweep
  <2>4. ASSUME NEW v \in Sweeper, NEW q \in Request, AbortDeadlocked(t, v, q)
        PROVE  Kept
    <3>1. t # s /\ (r \in todo[s] \/ lock[r] = s)
      BY <2>4 DEF AbortDeadlocked, TypeOK, Actor
    <3> QED BY <2>0, <2>4, <3>1, FinishOther DEF AbortDeadlocked
  <2> QED BY <1>1, <1>7, <2>1, <2>2, <2>3, <2>4 DEF Sweep
<1>8. ASSUME NEW a \in Actor, Abort(a) PROVE Kept
  <2>1. a # s /\ (r \in todo[s] \/ lock[r] = s)
    BY <1>8 DEF Abort, Release, TypeOK, Actor
  <2> QED BY <1>8, <2>1, FinishOther DEF Abort
<1> QED BY <1>1, <1>2, <1>4, <1>5, <1>6, <1>7, <1>8 DEF Next

(* The event a sweep writes was justified when its row was listed. *)
LEMMA NextExpiryIsJustified ==
  TypeOK /\ SweepsExpireStale /\ ExpiryIsJustified /\ [Next]_vars
    => ExpiryIsJustified'
<1> DEFINE Just(e) == e.type = "expired" =>
                        IF e.reason = "maximum_lifetime"
                          THEN ExpiresAt <= e.at
                          ELSE e.at < ExpiresAt /\ e.activity + Inactivity <= e.at
<1> SUFFICES ASSUME TypeOK, SweepsExpireStale, ExpiryIsJustified, [Next]_vars,
                    NEW r \in Request, NEW e \in ToSet(closings'[r])
             PROVE  Just(e)
  BY DEF ExpiryIsJustified, ExpiresAt
<1>0. closings[r] \in Seq(ClosingEvent) /\ (e \in ToSet(closings[r]) => Just(e))
  BY DEF TypeOK, ExpiryIsJustified
<1>1. ASSUME NEW m \in Moderator, NEW act \in {"complete", "cancel"}, ResolvedBy(r, m, act)
      PROVE  Just(e)
  <2>1. e \in ToSet(closings[r]) \/ e = Resolved(m, act)
    BY <1>0, <1>1, EventType, Appended DEF ResolvedBy
  <2> QED BY <1>0, <2>1 DEF Resolved, ResolvedStatus
<1>2. ASSUME NEW s \in Sweeper, ExpiredBy(r, s) PROVE Just(e)
  <2>1. e \in ToSet(closings[r]) \/ e = Expired(s, r)
    BY <1>0, <1>2, EventType, Appended DEF ExpiredBy
  <2>2. began[s] \in Int /\ ExpiresAt \in Int
    BY TimesAssumption DEF TypeOK, Time, Actor, ExpiresAt
  <2>3. ExpiresAt <= began[s] \/ judged[s][r] + Inactivity <= began[s]
    BY <1>2 DEF ExpiredBy, SweepsExpireStale
  <2>4. Just(Expired(s, r))
    BY <2>2, <2>3 DEF Expired, CloseReason
  <2> QED BY <1>0, <2>1, <2>4
<1>3. CASE NotClosed(r)
  BY <1>0, <1>3 DEF NotClosed
<1> QED BY <1>1, <1>2, <1>3, ClosingEffect

-----------------------------------------------------------------------------
(* The inductive invariant of the lifecycle. *)
THEOREM LifecycleInvariant == Spec => []LifecycleInv
<1>1. LifecycleInv /\ [Next]_vars => LifecycleInv'
  BY NextTypeOK, NextClosings, NextTimestamps, NextSweepsExpireStale,
     NextExpiryIsJustified
     DEF LifecycleInv
<1> QED BY InitInv, <1>1, PTL DEF Spec

(* The variables keep their types, whatever the handlers overwrite. *)
THEOREM TypesAreKept == Spec => []TypeOK
<1>1. LifecycleInv => TypeOK
  BY DEF LifecycleInv
<1> QED BY <1>1, LifecycleInvariant, PTL

(* The status of a closed request is that of the closing event committed    *)
(* last, an open one has none; and what closes a request again had begun    *)
(* before it was closed.                                                    *)
THEOREM OnlyOverlapClosesAgain == Spec => []ClosingsOverlap
<1>1. LifecycleInv => ClosingsOverlap
  BY DEF LifecycleInv
<1> QED BY <1>1, LifecycleInvariant, PTL

(* completed_at and cancelled_at are set exactly for the requests whose     *)
(* trail has the event, however many handlers closed them.                  *)
THEOREM TimestampsExact == Spec => []TimestampsHaveEvents
<1>1. LifecycleInv => TimestampsHaveEvents
  BY DEF LifecycleInv
<1> QED BY <1>1, LifecycleInvariant, PTL

(* The payload of every expired event shows the bound that had passed.      *)
THEOREM ExpiryJustified == Spec => []ExpiryIsJustified
<1>1. LifecycleInv => ExpiryIsJustified
  BY DEF LifecycleInv
<1> QED BY <1>1, LifecycleInvariant, PTL

(* No text, copy, moderator or sweep opens a closed request again. *)
THEOREM ClosedStaysClosed == Spec => ClosedForGood
<1>1. LifecycleInv /\ [Next]_vars =>
        [\A r \in Request : ~Open(r) => status'[r] # "open"]_vars
  <2> SUFFICES ASSUME TypeOK, [Next]_vars, NEW r \in Request, ~Open(r)
               PROVE  status'[r] # "open"
    BY DEF LifecycleInv
  <2> QED BY ClosingEffect
         DEF ResolvedBy, ResolvedStatus, ExpiredBy, NotClosed, Open
<1> QED BY <1>1, LifecycleInvariant, PTL DEF Spec, ClosedForGood
=============================================================================
