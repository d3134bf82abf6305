----------------------------- MODULE MCIngress -----------------------------
(***************************************************************************)
(* Ingress for TLC.  Two members have an open request when the run begins; *)
(* a third one, c, was sent that of b and is being sent that of a; she     *)
(* writes t, which the provider may deliver twice, and two single texts.   *)
(***************************************************************************)
EXTENDS Ingress

CONSTANTS pa, pb, d1, d2, d3, d4, a, b, c, ta, tb, t, u, v

Deliveries == [d \in {pa, pb, d1, d2, d3, d4} |->
  CASE d = pa -> ta [] d = pb -> tb [] d \in {d1, d2} -> t [] d = d3 -> u [] d = d4 -> v]
Texts == [d \in Delivery |-> Deliveries[d]]
Authors == [x \in {ta, tb, t, u, v} |-> CASE x = ta -> a [] x = tb -> b [] OTHER -> c]
FanOuts == [q \in {pa, pb} |-> IF q = pb THEN {c} ELSE {}]
Swap(x, y) == [z \in {x, y} |-> IF z = x THEN y ELSE x]
SwapRetries == Swap(d1, d2)
SwapTexts == Swap(d3, d4) @@ Swap(u, v)
Swaps == {SwapRetries, SwapTexts, SwapRetries @@ SwapTexts}
=============================================================================
