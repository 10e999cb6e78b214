----------------------------- MODULE MCPromotion -----------------------------
(* One or two deployments, two operators. *)
EXTENDS Promotion, TLC

CONSTANTS d1, o1, o2, rA, rB

Symmetry == Permutations(Operators)

MCRequired == [default |-> {"chat"}]

Bare == [ probe |-> NONE, evaluation |-> NONE, shadow |-> NONE, tiers |-> {},
          workloads |-> [w \in Workloads |-> {}], workload_policy |-> "default",
          force |-> FALSE ]

Measured(i) == [Bare EXCEPT !.probe = [identity |-> i, supports |-> {"chat"}],
                            !.evaluation = i, !.shadow = SHADOWED]

\* Plain moves, some with tiers (3 is not declared), and overrides with all the
\* artifacts or none.
MCArguments ==
  {Bare, [Bare EXCEPT !.tiers = {1}], [Bare EXCEPT !.tiers = {3}], [Bare EXCEPT !.force = TRUE]}
  \union {[Measured(i) EXCEPT !.force = TRUE, !.tiers = {1, 2},
                              !.workloads = [w \in Workloads |-> {2}]] : i \in Identities}
=============================================================================
