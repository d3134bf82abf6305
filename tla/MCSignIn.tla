------------------------------ MODULE MCSignIn ------------------------------
(***************************************************************************)
(* SignIn for TLC: three attempts at the one challenge of a moderator.     *)
(***************************************************************************)
EXTENDS SignIn

CONSTANTS a, c1, v1, v2, v3

Owners == [c \in {c1} |-> a]
Names == [v \in {v1, v2, v3} |-> c1]
=============================================================================
