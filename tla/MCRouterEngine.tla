---------------------------- MODULE MCRouterEngine ----------------------------
(* Instances of RouterEngine for TLC. *)
EXTENDS RouterEngine

CONSTANTS d1, d2, d3, timeout, down

\* A mutual fallback pair, and an edge that answers every failure.
Cyclic ==
  << [from |-> d1, to |-> d2, reasons |-> {timeout}],
     [from |-> d2, to |-> d1, reasons |-> {timeout, down}],
     [from |-> d1, to |-> d3, reasons |-> {down}] >>

Undeclared == <<>>

\* As a fallback d3 exceeds max_cost_usd.
Priced == [d \in Deployments |-> IF d = d3 THEN 2 ELSE 1]
=============================================================================
