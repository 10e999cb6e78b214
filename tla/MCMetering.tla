------------------------------ MODULE MCMetering ------------------------------
(* A request that failed over once, and two that did not. *)
EXTENDS Metering, TLC

CONSTANTS r1, r2, r3, e1, e2, e3, e4

TwoRequests   == (r1 :> <<e1, e2>>) @@ (r2 :> <<e3>>)
ThreeRequests == (r1 :> <<e1, e2>>) @@ (r2 :> <<e3>>) @@ (r3 :> <<e4>>)
=============================================================================
