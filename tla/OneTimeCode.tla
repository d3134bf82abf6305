----------------------------- MODULE OneTimeCode -----------------------------
(***************************************************************************)
(* What sign-in promises of the codes it texts: a code can be guessed      *)
(* wrongly a bounded number of times, it is redeemed by one attempt at     *)
(* most, and nothing is ever counted or redeemed once it has been.         *)
(***************************************************************************)
EXTENDS Naturals

CONSTANTS
  Challenge,   (* the codes                                               *)
  Call,        (* the attempts at them                                    *)
  MaxAttempts

VARIABLES
  issued,      (* the codes somebody may try                              *)
  wrong,       (* how many wrong guesses each has taken                   *)
  redeemed     (* the attempts that have redeemed it                      *)

codes == <<issued, wrong, redeemed>>

Init ==
  /\ issued = {}
  /\ wrong = [c \in Challenge |-> 0]
  /\ redeemed = [c \in Challenge |-> {}]

Issue(c) ==
  /\ c \notin issued
  /\ issued' = issued \cup {c}
  /\ UNCHANGED <<wrong, redeemed>>

Usable(c) == c \in issued /\ redeemed[c] = {} /\ wrong[c] < MaxAttempts

GuessWrong(c) ==
  /\ Usable(c)
  /\ wrong' = [wrong EXCEPT ![c] = @ + 1]
  /\ UNCHANGED <<issued, redeemed>>

Redeem(c, v) ==
  /\ Usable(c)
  /\ redeemed' = [redeemed EXCEPT ![c] = {v}]
  /\ UNCHANGED <<issued, wrong>>

Next == \E c \in Challenge :
          Issue(c) \/ GuessWrong(c) \/ \E v \in Call : Redeem(c, v)

Spec == Init /\ [][Next]_codes
=============================================================================
