---------------------------- MODULE Conversation ----------------------------
(***************************************************************************)
(* The handset of the SMS simulator reads a conversation, the messages     *)
(* between one member and one group (list_conversation), page by page:     *)
(* first the newest page, then with a cursor, the key of the last row of   *)
(* the last answer.  A key is the created_at of a row, which is the start  *)
(* of its transaction, and its id, which says nothing about time.          *)
(*                                                                         *)
(* Meanwhile transactions begin and commit, the user changes the pair of   *)
(* numbers or sends a text (which reloads), and answers are slow, overlap, *)
(* or never come.  The bubble a send shows at once is left out.            *)
(***************************************************************************)
EXTENDS Integers, Sequences, FiniteSets, SequencesExt

CONSTANTS
  Row,         (* rows of messages                                         *)
  Id,          (* their ids, in order                                      *)
  Txn,         (* the transactions that write them                         *)
  Writes,      (* which one writes each row                                *)
  Pair,        (* the pairs of numbers                                     *)
  Of,          (* the pair of each row                                     *)
  First,       (* the pair at the beginning                                *)
  Slot,        (* the requests of the handset that may be under way        *)
  None,
  PageSize,
  MaxLoad,     (* bound on reloads                                         *)
  MaxLost      (* bound on requests that fail                              *)

ASSUME RowsAssumption ==
  /\ IsFiniteSet(Row)
  /\ Id \in [Row -> Nat] /\ \A r, s \in Row : Id[r] = Id[s] => r = s
  /\ Writes \in [Row -> Txn] /\ Of \in [Row -> Pair] /\ First \in Pair
ASSUME BoundsAssumption ==
  PageSize \in Nat \ {0} /\ MaxLoad \in Nat \ {0} /\ MaxLost \in Nat

VARIABLES
  clock, began, (* when each transaction began, or 0                       *)
  committed,    (* the transactions that have committed                    *)
  late,         (* rows that came behind a row already there (history)     *)
  pair,         (* committed: whose conversation the handset is on         *)
  shown,        (* messages: the bubbles                                   *)
  cursor, token, settled,  (* the refs of the component                    *)
  posting,      (* how many texts of each pair are being sent              *)
  req,          (* the requests under way                                  *)
  astray,       (* the newest load is for a pair the user had left (history) *)
  older,        (* rows before the page that was loaded (history)          *)
  undone,       (* a first page came late and replaced a list (history)     *)
  lost

server == <<clock, began, committed, late>>
screen == <<shown, cursor, settled, older, undone, astray>>
vars == <<server, pair, screen, token, posting, req, lost>>

-----------------------------------------------------------------------------
(* list_conversation *)

Key(r) == <<began[Writes[r]], Id[r]>>
Less(k, l) == k[1] < l[1] \/ (k[1] = l[1] /\ k[2] < l[2])

Visible(p) == {r \in Row : Of[r] = p /\ Writes[r] \in committed}

(* ORDER BY created_at, id: the nth row has n - 1 before it. *)
Before(S, r) == {s \in S : Less(Key(s), Key(r))}
Sorted(S) ==
  [n \in 1..Cardinality(S) |-> CHOOSE r \in S : Cardinality(Before(S, r)) = n - 1]

(* LIMIT: all rows of S, if they are no more than a page. *)
Limit(S) == IF Cardinality(S) < PageSize THEN Cardinality(S) ELSE PageSize

FirstPageFaulty(p) == SubSeq(Reverse(Sorted(Visible(p))), 1, Limit(Visible(p)))

(* Without a cursor the newest rows, oldest first. *)
FirstPage(p) ==
  LET S == Visible(p) IN
  SubSeq(Sorted(S), Cardinality(S) - Limit(S) + 1, Cardinality(S))

AfterFaulty(r, k) == Key(r)[1] > k[1]

(* The condition of the cursor. *)
After(r, k) == Less(k, Key(r))

NextPageFaulty(p, k) ==
  LET S == {r \in Visible(p) : After(r, k)} IN
  SubSeq(Sorted(S), Cardinality(S) - Limit(S) + 1, Cardinality(S))

(* With one, the oldest rows after it. *)
NextPage(p, k) ==
  LET S == {r \in Visible(p) : After(r, k)} IN
  SubSeq(Sorted(S), 1, Limit(S))

Page(p, k) == IF k = None THEN FirstPage(p) ELSE NextPage(p, k)

Asking(kind, p, gen, k) ==
  [kind |-> kind, pair |-> p, token |-> gen, after |-> k, page |-> None, rows |-> {}]

(* The handset opens with a load of its pair. *)
Init ==
  /\ clock = 0
  /\ began = [t \in Txn |-> 0]
  /\ committed = {}
  /\ late = {}
  /\ pair = First
  /\ shown = <<>>
  /\ cursor = None
  /\ token = 1
  /\ settled = FALSE
  /\ posting = [p \in Pair |-> 0]
  /\ \E q \in Slot :
       req = [[o \in Slot |-> None] EXCEPT ![q] = Asking("load", First, 1, None)]
  /\ astray = FALSE
  /\ older = {}
  /\ undone = FALSE
  /\ lost = 0

-----------------------------------------------------------------------------
(* The server *)

Begin(t) ==
  /\ began[t] = 0
  /\ clock' = clock + 1
  /\ began' = [began EXCEPT ![t] = clock + 1]
  /\ UNCHANGED <<committed, late, pair, screen, token, posting, req, lost>>

Commit(t) ==
  /\ began[t] # 0 /\ t \notin committed
  /\ committed' = committed \cup {t}
  /\ late' = late \cup {r \in Row : /\ Writes[r] = t
                                   /\ \E s \in Visible(Of[r]) : Less(Key(r), Key(s))}
  /\ UNCHANGED <<clock, began, pair, screen, token, posting, req, lost>>

(* read_conversation: the answer is what is committed when it is asked.     *)
Serve(q) ==
  /\ req[q] # None /\ req[q].page = None
  /\ req' = [req EXCEPT ![q].page = Page(req[q].pair, req[q].after),
                        ![q].rows = Visible(req[q].pair)]
  /\ UNCHANGED <<server, pair, screen, token, posting, lost>>

-----------------------------------------------------------------------------
(* The handset *)

Request(q, kind, p, gen, k) ==
  /\ req[q] = None
  /\ req' = [req EXCEPT ![q] = Asking(kind, p, gen, k)]

(* loadConversation, up to its request. *)
Load(q, p) ==
  /\ token < MaxLoad
  /\ token' = token + 1
  /\ settled' = FALSE
  /\ cursor' = None
  /\ Request(q, "load", p, token + 1, None)

(* Another pair is committed; its effect loads it. *)
Switch(q, p) ==
  /\ p # pair
  /\ pair' = p
  /\ Load(q, p)
  /\ astray' = FALSE
  /\ UNCHANGED <<server, shown, older, undone, posting, lost>>

(* sendMessage posts a text, and loads its pair when the post is over, well *)
(* or not.  Enter sends the next text while one is still being posted.      *)
SendMessage ==
  /\ posting[pair] < MaxLoad - token   (* a bound: each is to load in the end *)
  /\ posting' = [posting EXCEPT ![pair] = @ + 1]
  /\ UNCHANGED <<server, pair, screen, token, req, lost>>

Posted(q, p) ==
  /\ posting[p] > 0
  /\ Load(q, p)
  /\ posting' = [posting EXCEPT ![p] = @ - 1]
  /\ astray' = (p # pair)
  /\ UNCHANGED <<server, pair, shown, older, undone, lost>>

(* The timer fires: poll remembers the token and the cursor it asks with.   *)
Poll(q) ==
  /\ settled
  /\ Request(q, "poll", pair, token, cursor)
  /\ UNCHANGED <<server, pair, screen, token, posting, lost>>

Answered(q, kind) == req[q] # None /\ req[q].kind = kind /\ req[q].page # None
Current(q) == req[q].token = token
Free(q) == req' = [req EXCEPT ![q] = None]

CursorOfFaulty(s, otherwise) == IF s = <<>> THEN <<>> ELSE Key(Last(s))

(* Both halves of the key of the last row. *)
CursorOf(s, otherwise) == IF s = <<>> THEN otherwise ELSE Key(Last(s))

Show(q) ==
  /\ shown' = req[q].page
  /\ older' = req[q].rows \ ToSet(req[q].page)

LandLoadFaulty(q) ==
  /\ Answered(q, "load") /\ Free(q)
  /\ Show(q)
  /\ cursor' = CursorOf(req[q].page, None)
  /\ settled' = TRUE
  /\ undone' = FALSE
  /\ UNCHANGED <<server, pair, token, astray, posting, lost>>

(* The answer of the newest load replaces what is shown. *)
LandLoad(q) ==
  /\ Answered(q, "load") /\ Current(q) /\ Free(q)
  /\ Show(q)
  /\ cursor' = CursorOf(req[q].page, None)
  /\ settled' = TRUE
  /\ undone' = FALSE
  /\ UNCHANGED <<server, pair, token, astray, posting, lost>>

(* A poll that asked with a cursor adds what is not there yet ... *)
AppendNewFaulty(old, new) == old \o new

AppendNew(old, new) ==
  LET fresh == {i \in DOMAIN new : new[i] \notin ToSet(old)}
      nth(n) == CHOOSE i \in fresh : Cardinality({j \in fresh : j < i}) = n - 1
  IN  old \o [n \in 1..Cardinality(fresh) |-> new[nth(n)]]

LandPoll(q) ==
  /\ Answered(q, "poll") /\ Current(q) /\ req[q].page # <<>> /\ Free(q)
  /\ IF req[q].after = None
     THEN Show(q) /\ undone' = (undone \/ shown # <<>>) /\ astray' = FALSE
     ELSE shown' = AppendNew(shown, req[q].page) /\ UNCHANGED <<older, undone, astray>>
  /\ cursor' = CursorOf(req[q].page, cursor)
  /\ UNCHANGED <<server, pair, token, settled, posting, lost>>

(* ... and any other answer is dropped: a reload has begun since, or the    *)
(* poll brings nothing.                                                     *)
Drop(q) ==
  /\ \/ (Answered(q, "load") \/ Answered(q, "poll")) /\ ~Current(q)
     \/ Answered(q, "poll") /\ req[q].page = <<>>
  /\ Free(q)
  /\ UNCHANGED <<server, pair, screen, token, posting, lost>>

(* A request fails.  A failed load leaves an empty screen. *)
Lose(q) ==
  /\ req[q] # None /\ lost < MaxLost
  /\ lost' = lost + 1
  /\ Free(q)
  /\ IF req[q].kind = "load" /\ Current(q)
     THEN /\ shown' = <<>> /\ settled' = TRUE
          /\ UNCHANGED <<cursor, older, undone, astray>>
     ELSE UNCHANGED screen
  /\ UNCHANGED <<server, pair, token, posting>>

Land(q) == LandLoad(q) \/ LandPoll(q) \/ Drop(q)

Next ==
  \/ \E t \in Txn : Begin(t) \/ Commit(t)
  \/ SendMessage
  \/ \E q \in Slot :
       \/ Serve(q) \/ Land(q) \/ Lose(q)
       \/ Poll(q)
       \/ \E p \in Pair : Switch(q, p) \/ Posted(q, p)

Spec == Init /\ [][Next]_vars

(* The timer of the handset keeps firing, and requests are answered. *)
Fairness == /\ \A q \in Slot : WF_vars(Serve(q)) /\ WF_vars(Land(q))
            /\ WF_vars(\E q \in Slot : Poll(q))
FairSpec == Spec /\ Fairness

-----------------------------------------------------------------------------
(* Properties *)

Request0 == [kind : {"load", "poll"}, pair : Pair, token : Nat,
             after : (Nat \X Nat) \cup {None},
             page : Seq(Row) \cup {None}, rows : SUBSET Row]

(* Types. *)
TypeOK ==
  /\ clock \in Nat /\ began \in [Txn -> Nat]
  /\ committed \in SUBSET Txn /\ late \in SUBSET Row
  /\ pair \in Pair /\ astray \in BOOLEAN /\ posting \in [Pair -> 0..MaxLoad]
  /\ shown \in Seq(Row) /\ older \in SUBSET Row
  /\ cursor \in (Nat \X Nat) \cup {None}
  /\ token \in 1..MaxLoad /\ settled \in BOOLEAN
  /\ \A q \in Slot : req[q] = None \/ req[q] \in Request0
  /\ undone \in BOOLEAN /\ lost \in 0..MaxLost

(* "an overlapping cursor must not double a bubble": polls overlap, answers *)
(* come out of order, the cursor goes back, and no row is shown twice.      *)
NoBubbleTwice == Cardinality(ToSet(shown)) = Len(shown)

(* "paging is exact": no row of the pair up to the cursor is missing - rows *)
(* of one transaction, that have one created_at, and those a page ended     *)
(* between included - but for rows that committed behind a row already      *)
(* there, those before the page that was loaded, and those that a late      *)
(* first page took away.  It is not claimed of a screen that shows the pair *)
(* of a text sent before the user left it (astray).                         *)
NothingSkipped ==
  settled /\ ~undone /\ ~astray /\ cursor # None =>
    \A r \in Visible(pair) \ (late \cup older) :
      Less(cursor, Key(r)) \/ r \in ToSet(shown)

(* What is shown of a pair is in the order of the keys, but for rows that    *)
(* came late and those before the page that was loaded or taken away.       *)
ShownInOrder ==
  LET InOrder(r) == ~undone /\ r \notin late \cup older IN
  \A i, j \in DOMAIN shown :
    i < j /\ Of[shown[i]] = Of[shown[j]] /\ InOrder(shown[i]) /\ InOrder(shown[j])
      => Less(Key(shown[i]), Key(shown[j]))

(* "A response for the previous pair must not land in the conversation that *)
(* replaced it": however late the answers to earlier loads and polls are,   *)
(* the screen shows the pair the user is on - unless its newest load is the *)
(* one that ends the sending of a text to a pair the user has left.         *)
ScreenIsOfItsPair ==
  settled /\ ~astray => \A r \in ToSet(shown) : Of[r] = pair

(* Polling gets there: every row the handset can find is shown in the end,  *)
(* with the same exceptions, of a screen astray among them.                 *)
EverythingArrives ==
  \A r \in Row :
    <>[](~undone /\ ~astray /\ r \in Visible(pair) \ (late \cup older)) =>
      <>[](r \in ToSet(shown))
=============================================================================
