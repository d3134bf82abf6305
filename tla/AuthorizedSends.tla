-------------------------- MODULE AuthorizedSends --------------------------
(***************************************************************************)
(* What routing promises the group, with no handler, database or fault in  *)
(* sight: nobody is texted before somebody with the right to do so has     *)
(* named them, an authorization is given once and never widened, and it is *)
(* good for at most one text to each of the people it names.  It does not  *)
(* promise that the text is sent, nor that a message is authorized once.   *)
(***************************************************************************)
EXTENDS Naturals

CONSTANTS
  Authorizer,  (* who can authorize sends: webhooks by policy, moderators  *)
  Message,
  Person,
  Author       (* Author[m]: who wrote m                                   *)

VARIABLES
  granted,  (* granted[a][m]: the people a has authorized for m            *)
  texts     (* texts[a][m][p]: how often p was texted on that authority    *)

Init ==
  /\ granted = [a \in Authorizer |-> [m \in Message |-> {}]]
  /\ texts = [a \in Authorizer |-> [m \in Message |-> [p \in Person |-> 0]]]

Authorize(a, m) ==
  /\ granted[a][m] = {}
  /\ \E S \in (SUBSET (Person \ {Author[m]})) \ {{}} :
       granted' = [granted EXCEPT ![a][m] = S]
  /\ UNCHANGED texts

Send(a, m, p) ==
  /\ p \in granted[a][m] /\ texts[a][m][p] = 0
  /\ texts' = [texts EXCEPT ![a][m][p] = 1]
  /\ UNCHANGED granted

Next == \E a \in Authorizer, m \in Message :
          Authorize(a, m) \/ \E p \in Person : Send(a, m, p)

Spec == Init /\ [][Next]_<<granted, texts>>
=============================================================================
