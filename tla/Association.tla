---------------------------- MODULE Association ----------------------------
(***************************************************************************)
(* Which of several open requests a text answers (domain/association.py).  *)
(* The scores are similarities of embeddings, in hundredths; where they    *)
(* come from is an input.                                                  *)
(***************************************************************************)
EXTENDS Integers, Sequences, SequencesExt

CONSTANTS
  ASSOCIATION_FLOOR,   (* 35: below it no request is answered              *)
  ASSOCIATION_MARGIN,  (* 8: by which the best must lead the next          *)
  NEW_REQUEST_LETTER,  (* 13, which is N: "this is a new request"          *)
  NoRequest            (* None                                             *)

ASSUME AssociationAssumption ==
  /\ ASSOCIATION_FLOOR \in Int
  /\ ASSOCIATION_MARGIN \in Nat \ {0}
  /\ NEW_REQUEST_LETTER \in Nat \ {0, 1}   (* a question has two letters   *)

(* What sorted(scores, reverse=True) returns: the scores, best first.       *)
Descending(ordered) ==
  \A i, j \in DOMAIN ordered : i < j => ordered[i].score >= ordered[j].score

Ordered(score) ==
  SetToSortSeq({[id |-> q, score |-> score[q]] : q \in DOMAIN score},
               LAMBDA x, y : x.score > y.score)

LowWeigh(ordered) ==
  \/ ordered = <<>>
  \/ ordered[1].score < ASSOCIATION_FLOOR
  \/ Len(ordered) > 1 /\ ordered[1].score - ordered[2].score < ASSOCIATION_MARGIN

LeadingRequest(ordered) ==
  IF LowWeigh(ordered) THEN NoRequest ELSE ordered[1].id

(* The letters of count candidates, A = 0: the loop breaks at N. *)
ChoiceLetters(count) ==
  {offset \in 0 .. (count - 1) : \A o \in 0 .. offset : o # NEW_REQUEST_LETTER}
=============================================================================
