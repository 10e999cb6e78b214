---------------------------- MODULE FallbackGraph ----------------------------
(***************************************************************************)
(* The directed, reason-labelled fallback graph (router/fallback.py) and   *)
(* the graph the planner attaches to one decision (RoutePlanner._graph_for *)
(* in router/plan.py).  A chain is the planner's ranked list of            *)
(* deployments, best first, without repetition.                            *)
(***************************************************************************)
EXTENDS Naturals, Sequences, SequencesExt

CONSTANTS
  Deployments,
  Reasons,      \* the members of FallbackReason the instance distinguishes
  Declared      \* operator-declared edges, in declaration order

Edges == [from : Deployments, to : Deployments, reasons : (SUBSET Reasons) \ {{}}]

\* FallbackEdge refuses self-loops and edges without reasons.
ASSUME DeclaredAssumption ==
  /\ Declared \in Seq(Edges)
  /\ \A i \in DOMAIN Declared : Declared[i].from # Declared[i].to

\* FallbackGraph.restricted_to(chain), as positions in Declared
DeclaredWithin(chain) ==
  {i \in DOMAIN Declared : {Declared[i].from, Declared[i].to} \subseteq ToSet(chain)}

DeclaredFrom(chain, node) == {i \in DeclaredWithin(chain) : Declared[i].from = node}

\* Reasons the declared edges leave without an answer at `node`.
Unanswered(chain, node) ==
  Reasons \ UNION {Declared[i].reasons : i \in DeclaredFrom(chain, node)}

IsDeclared(chain, x, y) == \E i \in DeclaredFrom(chain, x) : Declared[i].to = y

\* A mistake in RanksNext: the scan of the lower ranks starts one too late.
RanksNext_SkipsOne(chain, i, next) ==
  \E j \in (i + 2)..Len(chain) :
    /\ next = chain[j]
    /\ ~IsDeclared(chain, chain[i], chain[j])
    /\ \A k \in (i + 2)..(j - 1) : IsDeclared(chain, chain[i], chain[k])

\* `next` is where _graph_for sends source chain[i] for its unanswered reasons:
\* the first lower-ranked deployment it has no declared edge to.
RanksNext(chain, i, next) ==
  \E j \in (i + 1)..Len(chain) :
    /\ next = chain[j]
    /\ ~IsDeclared(chain, chain[i], chain[j])
    /\ \A k \in (i + 1)..(j - 1) : IsDeclared(chain, chain[i], chain[k])

\* FallbackGraph.successors: the declared edges that answer, in their order, and
\* after them the ranked one.
Answering(chain, node, reason) ==
  {i \in DeclaredFrom(chain, node) : reason \in Declared[i].reasons}

IsRanked(chain, node, reason, next) ==
  /\ reason \in Unanswered(chain, node)
  /\ \E i \in DOMAIN chain : chain[i] = node /\ RanksNext(chain, i, next)

\* FallbackGraph.next_hop: the first successor that is untried.
IsNextHop(target, chain, node, reason, visited) ==
  LET open == {i \in Answering(chain, node, reason) : Declared[i].to \notin visited}
  IN  \/ \E i \in open : target = Declared[i].to /\ \A j \in open : i <= j
      \/ open = {} /\ target \notin visited /\ IsRanked(chain, node, reason, target)
=============================================================================
