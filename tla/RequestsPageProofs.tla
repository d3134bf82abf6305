------------------------- MODULE RequestsPageProofs -------------------------
(***************************************************************************)
(* What holds of RequestsPage for any number of requests and of calls that *)
(* overlap, whatever the bounds.                                           *)
(***************************************************************************)
EXTENDS RequestsPage, TLAPS

(* Types; a call that is not for the list is about a request. *)
Typed ==
  /\ message \in [Request -> {"none", "waiting", "decided"}]
  /\ selected \in Request \cup {None} /\ detail \in Detail \cup {None}
  /\ pending \in Request \cup {None}
  /\ busy \in BOOLEAN /\ strayed \in BOOLEAN /\ missed \in BOOLEAN
  /\ call \in [Slot -> Call \cup {None}]
  /\ \A s \in Slot : ~Free(s) => call[s].kind = "list" \/ call[s].id \in Request

(* Only the newest load is current: its answer is the one the page takes.   *)
OneCurrent ==
  \A s, t \in Loading : call[s].current /\ call[t].current => s = t

(* While no action has reloaded a request that was left, the block and the  *)
(* newest load are of the selected request.                                 *)
FollowsSelection ==
  selected # None /\ ~strayed =>
    /\ pending \in {None, selected}
    /\ \A s \in Loading : call[s].current => call[s].id = selected

(* The pane is complete, or the newest load still has to complete it: one   *)
(* that is at its second call has shown a thread whose message waits.       *)
LoadCompletesPane ==
  selected # None /\ ~strayed /\ ~missed =>
    /\ (\A s \in Loading : ~call[s].current)
         => Shown /\ pending = IF detail.waiting THEN selected ELSE None
    /\ \A s \in Loading : call[s].current /\ call[s].kind = "message"
         => Shown /\ detail.waiting

(* Whatever has set busy, a call is under way that no later one supersedes, *)
(* and whose end clears it.                                                 *)
BusyHasACall == busy => \E s \in Slot : ~Free(s) /\ call[s].current

PageInv ==
  Typed /\ OneCurrent /\ FollowsSelection /\ LoadCompletesPane /\ BusyHasACall

-----------------------------------------------------------------------------
(* A call that begins is a call, and current. *)
LEMMA CallingFacts ==
  ASSUME NEW kind \in {"list", "thread", "message", "decide", "other"},
         NEW r \in Request \cup {None}, NEW with \in Request \cup Slot \cup {None}
  PROVE  /\ Calling(kind, r, with) \in Call /\ Calling(kind, r, with) # None
         /\ Calling(kind, r, with).kind = kind /\ Calling(kind, r, with).id = r
         /\ Calling(kind, r, with).current
<1>1. Calling(kind, r, with) \in Call
  BY DEF Calling, Call
<1>2. Calling(kind, r, with) # None
  BY <1>1, NoneAssumption
<1> QED BY <1>1, <1>2 DEF Calling

(* What a load of request r leaves in the slots. *)
LEMMA LoadDetailFacts ==
  ASSUME Typed, NEW s \in Slot, NEW r \in Request, NEW with \in Slot \cup {None}
  PROVE  /\ LoadDetail(s, r, with) \in [Slot -> Call \cup {None}]
         /\ LoadDetail(s, r, with)[s] = Calling("thread", r, with)
         /\ Calling("thread", r, with) \in Call
         /\ \A o \in Slot \ {s} :
              /\ call[o] = None => LoadDetail(s, r, with)[o] = None
              /\ call[o] # None =>
                   /\ LoadDetail(s, r, with)[o] # None
                   /\ LoadDetail(s, r, with)[o].kind = call[o].kind
                   /\ LoadDetail(s, r, with)[o].id = call[o].id
                   /\ o \in Loading => ~LoadDetail(s, r, with)[o].current
<1>1. Calling("thread", r, with) \in Call
  BY DEF Calling, Call
<1>2. ASSUME NEW o \in Loading
      PROVE  /\ [call[o] EXCEPT !.current = FALSE] \in Call
             /\ [call[o] EXCEPT !.current = FALSE].kind = call[o].kind
             /\ [call[o] EXCEPT !.current = FALSE].id = call[o].id
             /\ ~[call[o] EXCEPT !.current = FALSE].current
  <2>1. call[o] \in Call
    BY DEF Loading, Free, Typed
  <2> QED BY <2>1 DEF Call
<1>3. LoadDetail(s, r, with) \in [Slot -> Call \cup {None}]
  BY <1>1, <1>2 DEF LoadDetail, Typed
<1>4. ASSUME NEW o \in Slot \ {s}
      PROVE  /\ o \in Loading => LoadDetail(s, r, with)[o] = [call[o] EXCEPT !.current = FALSE]
             /\ o \notin Loading => LoadDetail(s, r, with)[o] = call[o]
  BY DEF LoadDetail
<1>5. LoadDetail(s, r, with)[s] = Calling("thread", r, with)
  BY DEF LoadDetail
<1>6. \A o \in Loading : call[o] # None
  BY DEF Loading, Free
<1> QED BY <1>1, <1>2, <1>3, <1>4, <1>5, <1>6, NoneAssumption

(* The page opens without a request, busy with its list. *)
LEMMA InitPage == Init => PageInv
<1> SUFFICES ASSUME Init PROVE PageInv
  OBVIOUS
<1>1. PICK s \in Slot : call = [[o \in Slot |-> None] EXCEPT ![s] = Calling("list", None, None)]
  BY DEF Init
<1>2. /\ Calling("list", None, None) \in Call /\ Calling("list", None, None) # None
      /\ Calling("list", None, None).kind = "list" /\ Calling("list", None, None).current
  BY CallingFacts
<1>3. call[s] = Calling("list", None, None) /\ \A o \in Slot \ {s} : call[o] = None
  BY <1>1
<1>4. Typed
  BY <1>1, <1>2, <1>3 DEF Init, Typed, Free
<1>5. Loading = {}
  BY <1>2, <1>3 DEF Loading, Free
<1> QED BY <1>2, <1>3, <1>4, <1>5
        DEF Init, PageInv, OneCurrent, FollowsSelection, LoadCompletesPane, BusyHasACall, Free

-----------------------------------------------------------------------------
(* The moderator *)

(* A new selection takes the block down and supersedes every load.          *)
LEMMA SelectKeeps ==
  ASSUME PageInv, NEW s \in Slot, NEW r \in Request, Select(s, r)
  PROVE  PageInv'
<1> USE DEF PageInv
<1>1. /\ selected' = r /\ pending' = None /\ call' = LoadDetail(s, r, None)
      /\ busy' = TRUE /\ ~strayed' /\ ~missed' /\ UNCHANGED <<message, detail>>
      /\ strayed' \in BOOLEAN /\ missed' \in BOOLEAN
  BY DEF Select
<1>2. /\ call'[s].kind = "thread" /\ call'[s].id = r /\ call'[s].current /\ call'[s] # None
      /\ call' \in [Slot -> Call \cup {None}]
  BY <1>1, LoadDetailFacts, CallingFacts
<1>3. ASSUME NEW o \in Slot \ {s}, call'[o] # None
      PROVE  /\ call[o] # None /\ call'[o].kind = call[o].kind /\ call'[o].id = call[o].id
             /\ call[o].kind \in {"thread", "message"} => ~call'[o].current
  BY <1>1, <1>3, LoadDetailFacts DEF Loading, Free
<1>4. Typed'
  BY <1>1, <1>2, <1>3 DEF Typed, Free
<1>5. s \in Loading' /\ \A o \in Loading' : call'[o].current => o = s
  BY <1>2, <1>3 DEF Loading, Free
<1> QED BY <1>1, <1>2, <1>4, <1>5
        DEF OneCurrent, FollowsSelection, LoadCompletesPane, BusyHasACall, Loading, Free

(* Leaving the request leaves nothing on screen. *)
LEMMA DeselectKeeps ==
  ASSUME PageInv, Deselect
  PROVE  PageInv'
BY DEF PageInv, Deselect, history, Typed, OneCurrent, FollowsSelection, LoadCompletesPane,
       BusyHasACall, Loading, Free

(* Other calls are no loads. *)
LEMMA CallKeeps ==
  ASSUME PageInv, NEW s \in Slot, Free(s), NEW kind \in {"list", "decide", "other"},
         NEW r \in Request \cup {None}, NEW with \in Request \cup {None},
         kind = "list" \/ r \in Request,
         call' = [call EXCEPT ![s] = Calling(kind, r, with)], busy' = TRUE,
         UNCHANGED <<message, pane, history>>
  PROVE  PageInv'
<1> USE DEF PageInv, pane, history
<1>1. /\ Calling(kind, r, with) \in Call /\ Calling(kind, r, with) # None
      /\ Calling(kind, r, with).kind = kind /\ Calling(kind, r, with).id = r
      /\ Calling(kind, r, with).current
  BY CallingFacts
<1>2. call'[s] = Calling(kind, r, with) /\ \A o \in Slot \ {s} : call'[o] = call[o]
  BY DEF Typed
<1>3. Typed'
  BY <1>1, <1>2 DEF Typed, Free
<1>4. Loading' = Loading /\ s \notin Loading
  BY <1>1, <1>2 DEF Loading, Free
<1> QED BY <1>1, <1>2, <1>3, <1>4
        DEF OneCurrent, FollowsSelection, LoadCompletesPane, BusyHasACall, Free, Shown, Loading

(* The buttons. *)
LEMMA ButtonsKeep ==
  ASSUME PageInv, NEW s \in Slot, Refresh(s) \/ \E act \in Action : Act(s, act)
  PROVE  PageInv'
<1>1. CASE Refresh(s)
  BY <1>1, CallKeeps DEF Refresh
<1>2. ASSUME NEW act \in Action, Act(s, act)
      PROVE  PageInv'
  <2>1. detail.id \in Request /\ (IF act = "decide" THEN pending ELSE None) \in Request \cup {None}
    BY <1>2 DEF Act, Shown, PageInv, Typed, Detail
  <2> QED BY <1>2, <2>1, CallKeeps DEF Act, Action
<1> QED BY <1>1, <1>2

-----------------------------------------------------------------------------
(* The answers *)

(* An answer on its way changes nothing on the page. *)
LEMMA AnswerKeeps ==
  ASSUME PageInv, NEW s \in Slot, ~Free(s),
         NEW a \in {"none", "waiting", "decided", "ok", "error"}, Answer(s, a),
         message' \in [Request -> {"none", "waiting", "decided"}],
         UNCHANGED <<pane, busy, history>>
  PROVE  PageInv'
<1> USE DEF PageInv, pane, history
<1>1. call[s] \in Call /\ call' = [call EXCEPT ![s] = [call[s] EXCEPT !.answer = a]]
  BY DEF Answer, Typed, Free
<1>2. /\ [call[s] EXCEPT !.answer = a] \in Call
      /\ [call[s] EXCEPT !.answer = a].kind = call[s].kind
      /\ [call[s] EXCEPT !.answer = a].id = call[s].id
      /\ [call[s] EXCEPT !.answer = a].current = call[s].current
  BY <1>1 DEF Call
<1>3. /\ call'[s].kind = call[s].kind /\ call'[s].id = call[s].id
      /\ call'[s].current = call[s].current /\ call'[s] # None
      /\ \A o \in Slot \ {s} : call'[o] = call[o]
      /\ call' \in [Slot -> Call \cup {None}]
  BY <1>1, <1>2, NoneAssumption DEF Typed
<1>4. Typed'
  BY <1>3 DEF Typed, Free
<1>5. /\ Loading' = Loading
      /\ \A o \in Slot : Free(o)' = Free(o)
      /\ \A o \in Slot : ~Free(o) =>
           call'[o].kind = call[o].kind /\ call'[o].id = call[o].id
           /\ call'[o].current = call[o].current
  BY <1>3 DEF Loading, Free
<1> QED BY <1>4, <1>5
        DEF OneCurrent, FollowsSelection, LoadCompletesPane, BusyHasACall, Shown, Loading

(* The server, and what is lost. *)
LEMMA ServerKeeps ==
  ASSUME PageInv, NEW s \in Slot, Serve(s) \/ Lose(s)
  PROVE  PageInv'
<1>1. ~Free(s) /\ call[s] \in Call
  BY DEF Serve, Lose, PageInv, Typed, Free
<1>2. CASE Lose(s)
  BY <1>1, <1>2, AnswerKeeps DEF Lose, PageInv, Typed
<1>3. CASE Serve(s)
  <2>1. CASE call[s].kind = "thread"
    <3>1. message[call[s].id] \in {"none", "waiting", "decided"}
      BY <1>1, <2>1 DEF PageInv, Typed
    <3>2. Answer(s, message[call[s].id]) /\ UNCHANGED <<message, pane, busy, history>>
      BY <1>3, <2>1 DEF Serve
    <3> QED BY <1>1, <3>1, <3>2, AnswerKeeps DEF PageInv, Typed
  <2>2. CASE call[s].kind # "thread"
    <3>1. \E a \in {"ok", "error"} : Answer(s, a)
      BY <1>3, <2>2 DEF Serve
    <3>2. /\ message' = message \/ message' = [message EXCEPT ![call[s].with] = "decided"]
          /\ UNCHANGED <<pane, busy, history>>
      BY <1>3, <2>2 DEF Serve
    <3>3. message' \in [Request -> {"none", "waiting", "decided"}]
      BY <3>2 DEF PageInv, Typed
    <3> QED BY <1>1, <3>1, <3>2, <3>3, AnswerKeeps
  <2> QED BY <2>1, <2>2
<1> QED BY <1>2, <1>3

(* The end of a call that is not superseded, when the pane is complete.     *)
LEMMA EndKeeps ==
  ASSUME PageInv, NEW s \in Slot, End(s), UNCHANGED <<message, selected, strayed>>,
         detail' \in Detail \cup {None}, pending' \in Request \cup {None},
         missed' \in BOOLEAN,
         selected # None /\ ~strayed => pending' \in {None, selected},
         LoadCompletesPane'
  PROVE  PageInv'
<1> USE DEF PageInv
<1>1. call' = [call EXCEPT ![s] = None] /\ busy' = FALSE
  BY DEF End
<1>2. call'[s] = None /\ \A o \in Slot \ {s} : call'[o] = call[o]
  BY <1>1 DEF Typed
<1>3. Typed'
  BY <1>1, <1>2 DEF Typed, Free
<1>4. /\ Loading' \subseteq Loading
      /\ \A o \in Loading' : call'[o] = call[o]
  BY <1>2 DEF Loading, Free
<1> QED BY <1>1, <1>3, <1>4 DEF OneCurrent, FollowsSelection, BusyHasACall

(* The list changes nothing of the pane, and leaves every load there is.    *)
LEMMA LandListKeeps ==
  ASSUME PageInv, NEW s \in Slot, LandList(s)
  PROVE  PageInv'
<1> USE DEF PageInv
<1>1. /\ call' = [o \in Slot |->
            IF o = s THEN None
            ELSE IF o \in Loading /\ call[o].with = s THEN [call[o] EXCEPT !.with = "over"]
            ELSE call[o]]
      /\ busy' = FALSE /\ call[s].kind = "list"
      /\ UNCHANGED <<message, selected, detail, pending, strayed, missed>>
  BY DEF LandList, Answered, pane, history
<1>2. ASSUME NEW o \in Slot \ {s}
      PROVE  /\ call[o] = None => call'[o] = None
             /\ call[o] # None =>
                  /\ call'[o] \in Call /\ call'[o] # None /\ call'[o].kind = call[o].kind
                  /\ call'[o].id = call[o].id /\ call'[o].current = call[o].current
  <2>1. CASE o \in Loading /\ call[o].with = s
    <3>1. call[o] \in Call /\ call[o] # None
      BY <2>1 DEF Typed, Loading, Free
    <3>2. call'[o] = [call[o] EXCEPT !.with = "over"]
      BY <1>1, <2>1
    <3>3. /\ call'[o] \in Call /\ call'[o].kind = call[o].kind
          /\ call'[o].id = call[o].id /\ call'[o].current = call[o].current
      BY <3>1, <3>2 DEF Call
    <3> QED BY <3>1, <3>3, NoneAssumption
  <2>2. CASE ~(o \in Loading /\ call[o].with = s)
    <3>1. call'[o] = call[o]
      BY <1>1, <2>2
    <3> QED BY <3>1 DEF Typed
  <2> QED BY <2>1, <2>2
<1>3. call'[s] = None /\ DOMAIN call' = Slot
  BY <1>1
<1>4. Typed'
  <2>1. call' \in [Slot -> Call \cup {None}]
    BY <1>1, <1>2, <1>3
  <2> QED BY <1>1, <1>2, <1>3, <2>1 DEF Typed, Free
<1>5. /\ Loading' = Loading
      /\ \A o \in Loading : call'[o].kind = call[o].kind /\ call'[o].id = call[o].id
                            /\ call'[o].current = call[o].current
  BY <1>1, <1>2, <1>3 DEF Loading, Free
<1>6. OneCurrent' /\ BusyHasACall'
  BY <1>1, <1>5 DEF OneCurrent, BusyHasACall
<1>7. FollowsSelection'
  BY <1>1, <1>5 DEF FollowsSelection
<1>8. LoadCompletesPane'
  BY <1>1, <1>5 DEF LoadCompletesPane, Shown
<1> QED BY <1>4, <1>6, <1>7, <1>8

(* The thread that lands is the newest: it is of the selected request, or   *)
(* none is selected.                                                        *)
LEMMA LandThreadKeeps ==
  ASSUME PageInv, NEW s \in Slot, LandThread(s)
  PROVE  PageInv'
<1> USE DEF PageInv
<1>1. /\ s \in Loading /\ call[s].current /\ call[s].kind = "thread"
      /\ call[s] \in Call /\ call[s] # None /\ call[s].id \in Request
      /\ detail' = [id |-> call[s].id, waiting |-> call[s].answer = "waiting"]
      /\ UNCHANGED <<message, selected, strayed, missed>>
  BY DEF LandThread, Answered, Loading, Typed, Free, history
<1>2. /\ detail' \in Detail /\ detail' # None
      /\ detail'.id = call[s].id /\ detail'.waiting = (call[s].answer = "waiting")
  <2>1. detail' \in Detail
    BY <1>1 DEF Detail
  <2> QED BY <1>1, <2>1, NoneAssumption
<1>3. selected # None /\ ~strayed => call[s].id = selected
  BY <1>1 DEF FollowsSelection
<1>4. CASE call[s].answer = "waiting"
  <2>1. /\ call' = [call EXCEPT ![s] = [call[s] EXCEPT !.kind = "message", !.answer = None]]
        /\ UNCHANGED <<pending, busy>>
    BY <1>4 DEF LandThread
  <2>2. /\ [call[s] EXCEPT !.kind = "message", !.answer = None] \in Call
        /\ [call[s] EXCEPT !.kind = "message", !.answer = None].kind = "message"
        /\ [call[s] EXCEPT !.kind = "message", !.answer = None].id = call[s].id
        /\ [call[s] EXCEPT !.kind = "message", !.answer = None].current
    BY <1>1 DEF Call
  <2>3. /\ call'[s] \in Call /\ call'[s] # None /\ call'[s].kind = "message"
        /\ call'[s].id = call[s].id /\ call'[s].current
        /\ \A o \in Slot \ {s} : call'[o] = call[o]
    BY <2>1, <2>2, NoneAssumption DEF Typed
  <2>4. Typed'
    BY <1>1, <1>2, <2>1, <2>3 DEF Typed, Free
  <2>5. /\ Loading' = Loading
        /\ \A o \in Loading : call'[o].id = call[o].id /\ (call'[o].current => call[o].current)
    BY <1>1, <2>3 DEF Loading, Free
  <2>6. LoadCompletesPane'
    <3>1. detail'.waiting = TRUE
      BY <1>1, <1>4
    <3>2. selected # None /\ ~strayed => Shown'
      BY <1>1, <1>2, <1>3 DEF Shown
    <3>3. s \in Loading' /\ call'[s].current
      BY <1>1, <2>3, <2>5
    <3> QED BY <1>1, <3>1, <3>2, <3>3 DEF LoadCompletesPane
  <2>7. OneCurrent' /\ FollowsSelection'
    BY <1>1, <2>1, <2>5 DEF OneCurrent, FollowsSelection
  <2>8. BusyHasACall'
    BY <2>1, <2>3 DEF BusyHasACall, Free
  <2> QED BY <2>4, <2>6, <2>7, <2>8
<1>5. CASE call[s].answer # "waiting"
  <2>1. pending' = None /\ End(s)
    BY <1>5 DEF LandThread
  <2>2. \A o \in Loading' : ~call'[o].current
    BY <1>1, <2>1 DEF OneCurrent, End, Loading, Free, Typed
  <2>3. LoadCompletesPane'
    BY <1>1, <1>2, <1>3, <1>5, <2>1, <2>2 DEF LoadCompletesPane, Shown
  <2> QED BY <1>1, <1>2, <2>1, <2>3, EndKeeps DEF Typed
<1> QED BY <1>4, <1>5

(* The message that lands is of the thread on screen, which waits for it.   *)
LEMMA LandMessageKeeps ==
  ASSUME PageInv, NEW s \in Slot, LandMessage(s)
  PROVE  PageInv'
<1> USE DEF PageInv
<1>1. /\ s \in Loading /\ call[s].current /\ call[s].kind = "message"
      /\ call[s].id \in Request
      /\ pending' = call[s].id /\ End(s)
      /\ UNCHANGED <<message, selected, detail, strayed, missed>>
  BY DEF LandMessage, Answered, Loading, Typed, Free, history
<1>2. selected # None /\ ~strayed => call[s].id = selected
  BY <1>1 DEF FollowsSelection
<1>3. \A o \in Loading : call[o].current => o = s
  BY <1>1 DEF OneCurrent
<1>4. selected # None /\ ~strayed /\ ~missed => Shown /\ detail.waiting
  BY <1>1 DEF LoadCompletesPane
<1>5. \A o \in Loading' : ~call'[o].current
  BY <1>1, <1>3 DEF End, Loading, Free, Typed
<1>6. LoadCompletesPane'
  BY <1>1, <1>2, <1>4, <1>5 DEF LoadCompletesPane, Shown
<1> QED BY <1>1, <1>2, <1>6, EndKeeps DEF Typed

(* A load that fails leaves the pane as it is, and known to be behind.      *)
LEMMA MissLoadKeeps ==
  ASSUME PageInv, NEW s \in Slot, MissLoad(s)
  PROVE  PageInv'
<1>1. /\ End(s) /\ missed' = TRUE
      /\ UNCHANGED <<message, selected, detail, pending, strayed>>
  BY DEF MissLoad, pane
<1>2. LoadCompletesPane'
  BY <1>1 DEF LoadCompletesPane
<1> QED BY <1>1, <1>2, EndKeeps DEF PageInv, Typed, FollowsSelection

(* A load that is dropped was superseded. *)
LEMMA DropKeeps ==
  ASSUME PageInv, NEW s \in Slot, Drop(s)
  PROVE  PageInv'
<1> USE DEF PageInv
<1>1. /\ s \in Loading /\ ~call[s].current
      /\ call' = [call EXCEPT ![s] = None] /\ busy' \in BOOLEAN /\ (busy' => busy)
      /\ UNCHANGED <<message, selected, detail, pending, strayed, missed>>
  BY DEF Drop, pane, history, Typed
<1>2. call'[s] = None /\ \A o \in Slot \ {s} : call'[o] = call[o]
  BY <1>1 DEF Typed
<1>3. Typed'
  BY <1>1, <1>2 DEF Typed, Free
<1>4. Loading' = Loading \ {s}
  BY <1>2 DEF Loading, Free
<1> QED BY <1>1, <1>2, <1>3, <1>4
        DEF OneCurrent, FollowsSelection, LoadCompletesPane, BusyHasACall, Shown, Free, Loading

(* What an action leaves behind: nothing, or a load of its request and one  *)
(* of the list.                                                             *)
LEMMA ActionKeeps ==
  ASSUME PageInv, NEW s \in Slot, ActionFails(s) \/ \E t \in Slot : ActionDone(s, t)
  PROVE  PageInv'
<1> USE DEF PageInv
<1>1. /\ ~Free(s) /\ call[s] # None /\ call[s].kind \in {"decide", "other"}
      /\ call[s].id \in Request
  BY DEF ActionFails, ActionDone, Action, Typed, Free
<1>2. CASE ActionFails(s)
  <2>1. End(s) /\ UNCHANGED <<message, selected, detail, pending, strayed, missed>>
    BY <1>2 DEF ActionFails, pane, history
  <2>2. /\ call'[s] = None /\ \A o \in Slot \ {s} : call'[o] = call[o]
    BY <2>1 DEF End, Typed
  <2>3. Loading' = Loading /\ \A o \in Loading : call'[o] = call[o]
    BY <1>1, <2>2 DEF Loading, Free
  <2>4. LoadCompletesPane'
    BY <2>1, <2>3 DEF LoadCompletesPane, Shown
  <2> QED BY <2>1, <2>4, EndKeeps DEF Typed, FollowsSelection
<1>3. ASSUME NEW t \in Slot, ActionDone(s, t)
      PROVE  PageInv'
  <2> DEFINE r == call[s].id
             loads == LoadDetail(t, r, s)
  <2>1. /\ t # s /\ call[t] = None
        /\ call' = [loads EXCEPT ![s] = Calling("list", None, None)]
        /\ busy' = TRUE /\ strayed' = (strayed \/ r # selected) /\ missed' = FALSE
        /\ UNCHANGED <<message, selected, detail, pending>>
    BY <1>1, <1>3 DEF ActionDone, Free
  <2>2. /\ loads \in [Slot -> Call \cup {None}]
        /\ loads[t] = Calling("thread", r, s)
        /\ \A o \in Slot \ {t} :
             /\ call[o] = None => loads[o] = None
             /\ call[o] # None =>
                  /\ loads[o] # None /\ loads[o].kind = call[o].kind /\ loads[o].id = call[o].id
                  /\ o \in Loading => ~loads[o].current
    BY <1>1, LoadDetailFacts
  <2>3. /\ Calling("list", None, None) \in Call /\ Calling("list", None, None) # None
        /\ Calling("list", None, None).kind = "list" /\ Calling("list", None, None).current
        /\ Calling("thread", r, s) # None /\ Calling("thread", r, s).kind = "thread"
        /\ Calling("thread", r, s).id = r /\ Calling("thread", r, s).current
    BY <1>1, CallingFacts
  <2> HIDE DEF loads
  <2>4. /\ call' \in [Slot -> Call \cup {None}]
        /\ call'[s] = Calling("list", None, None) /\ call'[t] = Calling("thread", r, s)
        /\ \A o \in Slot \ {s, t} : call'[o] = loads[o]
    BY <2>1, <2>2, <2>3
  <2>5. Typed'
    <3>1. strayed' \in BOOLEAN /\ missed' \in BOOLEAN /\ busy' \in BOOLEAN
      BY <2>1
    <3>2. ASSUME NEW o \in Slot, call'[o] # None
          PROVE  call'[o].kind = "list" \/ call'[o].id \in Request
      BY <1>1, <2>2, <2>3, <2>4, <3>2 DEF Typed, Free
    <3> QED BY <2>1, <2>4, <3>1, <3>2 DEF Typed, Free
  <2>6. /\ t \in Loading' /\ s \notin Loading'
        /\ \A o \in Loading' : o # t => ~call'[o].current
    BY <2>2, <2>3, <2>4 DEF Loading, Free
  <2>7. OneCurrent' /\ LoadCompletesPane'
    BY <2>3, <2>4, <2>6 DEF OneCurrent, LoadCompletesPane
  <2>8. FollowsSelection'
    BY <2>1, <2>3, <2>4, <2>6 DEF FollowsSelection
  <2>9. BusyHasACall'
    BY <2>3, <2>4 DEF BusyHasACall, Free
  <2> QED BY <2>5, <2>7, <2>8, <2>9
<1> QED BY <1>2, <1>3

-----------------------------------------------------------------------------
(* Every step keeps the invariant. *)
LEMMA NextKeepsPage == PageInv /\ [Next]_vars => PageInv'
<1> SUFFICES ASSUME PageInv, [Next]_vars PROVE PageInv'
  OBVIOUS
<1>1. ASSUME UNCHANGED <<pane, busy, call, history>>,
             message' \in [Request -> {"none", "waiting", "decided"}]
      PROVE  PageInv'
  BY <1>1 DEF PageInv, pane, history, Typed, OneCurrent, FollowsSelection,
              LoadCompletesPane, BusyHasACall, Loading, Free, Shown
<1>2. ASSUME NEW r \in Request, Arrive(r) \/ DecideElsewhere(r) PROVE PageInv'
  <2>1. \E m \in {"waiting", "decided"} : message' = [message EXCEPT ![r] = m]
    BY <1>2 DEF Arrive, DecideElsewhere
  <2>2. message' \in [Request -> {"none", "waiting", "decided"}]
    BY <2>1 DEF PageInv, Typed
  <2> QED BY <1>1, <1>2, <2>2 DEF Arrive, DecideElsewhere
<1>3. CASE UNCHANGED vars
  BY <1>1, <1>3 DEF vars, PageInv, Typed
<1>4. ASSUME NEW s \in Slot, Land(s) PROVE PageInv'
  BY <1>4, LandListKeeps, LandThreadKeeps, LandMessageKeeps, MissLoadKeeps, DropKeeps,
     ActionKeeps DEF Land
<1> QED BY <1>2, <1>3, <1>4, DeselectKeeps, SelectKeeps, ButtonsKeep, ServerKeeps DEF Next

(* The invariant from which the properties of the page follow. *)
THEOREM PageInvariant == Spec => []PageInv
BY InitPage, NextKeepsPage, PTL DEF Spec

(* "leaving it up while the next request loads would offer Approve for a    *)
(* message that is not in the thread on screen": it never does, however     *)
(* many loads overlap and whatever order they are answered in.              *)
THEOREM ApprovalStaysWithTheThread == Spec => []ApprovalIsOfTheThread
<1>1. PageInv => ApprovalIsOfTheThread
  BY NoneAssumption DEF PageInv, FollowsSelection, ApprovalIsOfTheThread, Shown, Typed, Detail
<1> QED BY <1>1, PageInvariant, PTL

(* Once no load is under way, the pane is that of the selected request.     *)
THEOREM PaneIsComplete == Spec => []PaneComesToSelected
<1>1. PageInv => PaneComesToSelected
  BY DEF PageInv, LoadCompletesPane, PaneComesToSelected
<1> QED BY <1>1, PageInvariant, PTL

(* The buttons never stay disabled when nothing is under way.               *)
THEOREM IdlePageIsNotBusy == Spec => []IdleIsNotBusy
<1>1. PageInv => IdleIsNotBusy
  BY DEF PageInv, BusyHasACall, IdleIsNotBusy
<1> QED BY <1>1, PageInvariant, PTL
=============================================================================
