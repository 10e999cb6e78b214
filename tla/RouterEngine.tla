----------------------------- MODULE RouterEngine -----------------------------
(***************************************************************************)
(* Router.complete and Router.stream (router/engine.py): each request      *)
(* plans once, then walks the fallback graph of its plan, taking one       *)
(* deployment at a time in flight and reporting every outcome to the       *)
(* shared circuit breakers.  Requests interleave at the awaits.            *)
(*                                                                         *)
(* The planner's filters other than the breaker, and its scoring, are      *)
(* abstracted: the plan asks the breakers of some deployments and ranks    *)
(* any of those they admit in any order.                                   *)
(***************************************************************************)
EXTENDS BreakerState, FallbackGraph, FiniteSets

CONSTANTS
  Requests,
  MaxAttempts,   \* Router(max_attempts), counts the primary
  MaxDepth,      \* FallbackBudget.max_depth, counts hops after the primary
  MaxLatency,    \* FallbackBudget.max_latency_ms in ticks; 0 stands for None
  MaxCost,       \* FallbackBudget.max_cost_usd; checked when CostIsCapped
  CostIsCapped,  \* whether max_cost_usd is set
  Cost,          \* Cost[d]: the estimate advance() makes for deployment d
  Latencies,     \* how long an attempt may take, in ticks
  ProviderDown   \* the reason of a provider that cannot be built

ASSUME EngineAssumption ==
  /\ IsFiniteSet(Requests) /\ IsFiniteSet(Deployments)
  /\ MaxAttempts \in Nat \ {0} /\ MaxDepth \in Nat
  /\ MaxLatency \in Nat /\ MaxCost \in Nat /\ CostIsCapped \in BOOLEAN
  /\ Cost \in [Deployments -> Nat] /\ Latencies \in SUBSET Nat
  /\ ProviderDown \in Reasons

VARIABLES
  breakers,   \* breakers[d]: the health record of deployment d
  walk        \* walk[r]: progress of request r

vars == <<breakers, walk>>

InFlightPCs == {"waiting", "streaming"}
DonePCs     == {"served", "failed", "exhausted", "unroutable", "abandoned"}
NoDeployment == "none"

\* pc: "ready" is about to take `at` in flight, "waiting" has not been answered
\* yet.  `attempts` is decision.attempts; the other fields are _Walk's.
Walks ==
  [ pc : {"new", "ready"} \union InFlightPCs \union DonePCs,
    stream : BOOLEAN,
    chain : Seq(Deployments),
    at : Deployments \union {NoDeployment},
    visited : SUBSET Deployments,
    attempts : Seq(Deployments),
    depth : Nat,
    elapsed : Nat ]

NewWalk ==
  [ pc |-> "new", stream |-> FALSE, chain |-> <<>>, at |-> NoDeployment,
    visited |-> {}, attempts |-> <<>>, depth |-> 0, elapsed |-> 0 ]

Init ==
  /\ breakers = [d \in Deployments |-> FreshBreaker]
  /\ walk = [r \in Requests |-> NewWalk]

-----------------------------------------------------------------------------
\* _Walk.advance, for a walk whose attempt at w.at has just failed.

Stopped(w) == [w EXCEPT !.pc = "exhausted"]

Refuses(w, target) ==
  \/ w.depth >= MaxDepth
  \/ MaxLatency # 0 /\ w.elapsed >= MaxLatency
  \/ CostIsCapped /\ Cost[target] > MaxCost   \* spent_usd is never charged

Charged(w, ms) == [w EXCEPT !.visited = @ \union {w.at}, !.elapsed = @ + ms]

Hopped(w, target) == [w EXCEPT !.pc = "ready", !.at = target, !.depth = @ + 1]

\* The walks that may follow: one, since at most one target is the next hop.
Advanced(w, reason, ms) ==
  LET charged == Charged(w, ms)
      targets == {d \in Deployments : IsNextHop(d, w.chain, w.at, reason, charged.visited)}
  IN  IF Len(w.attempts) >= MaxAttempts \/ targets = {}
      THEN {Stopped(charged)}
      ELSE {IF Refuses(charged, target)
            THEN Stopped(charged)
            ELSE Hopped(charged, target) : target \in targets}

Attempted(w) == [w EXCEPT !.attempts = Append(@, w.at)]

-----------------------------------------------------------------------------
\* The steps of a request

\* An operator X_Mistake is a plausible mistake in X, used to test the properties.
Planned_Waits(w, chain, stream) ==
  IF chain = <<>>
  THEN w
  ELSE [w EXCEPT !.pc = "ready", !.stream = stream, !.chain = chain, !.at = chain[1]]

\* _start's outcome for the chain the planner returns.
Planned(w, chain, stream) ==
  IF chain = <<>>
  THEN [w EXCEPT !.pc = "unroutable"]
  ELSE [w EXCEPT !.pc = "ready", !.stream = stream, !.chain = chain, !.at = chain[1]]

\* _start: plan, asking the breaker of every deployment that passes the other
\* filters; no candidate left is an error.
Start(r) ==
  /\ walk[r].pc = "new"
  /\ \E asked \in SUBSET Deployments, stream \in BOOLEAN :
       /\ breakers' = [d \in Deployments |->
                         IF d \in asked THEN AfterAdmits(breakers[d]) ELSE breakers[d]]
       /\ \E chain \in SetToAllKPermutations({d \in asked : Admits(breakers[d])}) :
            walk' = [walk EXCEPT ![r] = Planned(@, chain, stream)]

\* in_flight() is entered and the provider found.
Enter(r) ==
  LET w == walk[r] IN
  /\ w.pc = "ready"
  /\ breakers' = [breakers EXCEPT ![w.at] = Entered(@)]
  /\ walk' = [walk EXCEPT ![r].pc = "waiting"]

EnterUnbuilt_Leaks(r) ==
  LET w == walk[r] IN
  /\ w.pc = "ready"
  /\ breakers' = [breakers EXCEPT ![w.at] = RecordFailure(Entered(@))]
  /\ \E next \in Advanced(Attempted(w), ProviderDown, 0) :
       walk' = [walk EXCEPT ![r] = next]

\* ProviderFactory.get raises a retryable error (missing credentials) after
\* in_flight() is entered, which is left at once.
EnterUnbuilt(r) ==
  LET w == walk[r] IN
  /\ w.pc = "ready"
  /\ breakers' = [breakers EXCEPT ![w.at] = RecordFailure(Exited(Entered(@)))]
  /\ \E next \in Advanced(Attempted(w), ProviderDown, 0) :
       walk' = [walk EXCEPT ![r] = next]

\* in_flight() is left with the breaker record passed through `record`.
LeaveDeployment(w, record(_)) ==
  breakers' = [breakers EXCEPT ![w.at] = record(Exited(@))]

Unrecorded(b) == b

\* complete(): the provider answers.
Serve(r) ==
  LET w == walk[r] IN
  /\ w.pc = "waiting" /\ ~w.stream
  /\ LeaveDeployment(w, RecordSuccess)
  /\ walk' = [walk EXCEPT ![r] = [Attempted(w) EXCEPT !.pc = "served"]]

\* stream(): the first event counts as success and commits the deployment.
FirstByte(r) ==
  LET w == walk[r] IN
  /\ w.pc = "waiting" /\ w.stream
  /\ breakers' = [breakers EXCEPT ![w.at] = RecordSuccess(@)]
  /\ walk' = [walk EXCEPT ![r] = [Attempted(w) EXCEPT !.pc = "streaming"]]

EndStream(r) ==
  LET w == walk[r] IN
  /\ w.pc = "streaming"
  /\ LeaveDeployment(w, Unrecorded)
  /\ walk' = [walk EXCEPT ![r].pc = "served"]

BreakStream_FailsOver(r) ==
  LET w == walk[r] IN
  /\ w.pc = "streaming"
  /\ LeaveDeployment(w, RecordFailure)
  /\ \E reason \in Reasons, ms \in Latencies :
       \E next \in Advanced(w, reason, ms) : walk' = [walk EXCEPT ![r] = next]

\* A FabricError after the first byte is recorded and raised.
BreakStream(r) ==
  LET w == walk[r] IN
  /\ w.pc = "streaming"
  /\ LeaveDeployment(w, RecordFailure)
  /\ walk' = [walk EXCEPT ![r].pc = "failed"]

\* A RetryableError before any answer: record it and walk on.
FailRetryable(r) ==
  LET w == walk[r] IN
  /\ w.pc = "waiting"
  /\ LeaveDeployment(w, RecordFailure)
  /\ \E reason \in Reasons, ms \in Latencies :
       \E next \in Advanced(Attempted(w), reason, ms) :
         walk' = [walk EXCEPT ![r] = next]

\* Any other FabricError before any answer is recorded and raised.
FailFatal(r) ==
  LET w == walk[r] IN
  /\ w.pc = "waiting"
  /\ LeaveDeployment(w, RecordFailure)
  /\ walk' = [walk EXCEPT ![r] = [Attempted(w) EXCEPT !.pc = "failed"]]

\* The caller goes away, or an error that is no FabricError escapes the adapter:
\* the attempt unwinds and nothing is recorded.
Abandon(r) ==
  LET w == walk[r] IN
  /\ w.pc \in InFlightPCs
  /\ LeaveDeployment(w, Unrecorded)
  /\ walk' = [walk EXCEPT ![r].pc = "abandoned"]

\* Neither the way from the plan to the first attempt nor the way from a failed
\* attempt to the next one suspends the task (a stream that raised is finished,
\* so closing it returns at once): a request at "ready" runs on before any other.
Suspended == \A r \in Requests : walk[r].pc # "ready"

HasTurn(r) == \A q \in Requests \ {r} : walk[q].pc # "ready"

Step(r) ==
  /\ HasTurn(r)
  /\ \/ Start(r) \/ Enter(r) \/ EnterUnbuilt(r)
     \/ Serve(r) \/ FirstByte(r) \/ EndStream(r) \/ BreakStream(r)
     \/ FailRetryable(r) \/ FailFatal(r) \/ Abandon(r)

-----------------------------------------------------------------------------
\* The environment

Tick ==
  /\ \E d \in Deployments : /\ breakers[d].state = OPEN
                            /\ breakers[d].since_opened < OpenDuration
  /\ breakers' = [d \in Deployments |->
                    IF breakers[d].state = OPEN /\ breakers[d].since_opened < OpenDuration
                    THEN Aged(breakers[d]) ELSE breakers[d]]
  /\ UNCHANGED walk

\* RemediationApplicator may hold a deployment open; force_close, which nothing
\* but a test calls today, and reset end a hold.
Hold(d) ==
  /\ ~breakers[d].held_open
  /\ breakers' = [breakers EXCEPT ![d] = ForcedOpen(@, TRUE)]
  /\ UNCHANGED walk

Release(d) ==
  /\ breakers[d].held_open
  /\ breakers' = [breakers EXCEPT ![d] = Closed(@)]
  /\ UNCHANGED walk


Next ==
  \/ \E r \in Requests : Step(r)
  \/ Suspended /\ Tick
  \/ Suspended /\ \E d \in Deployments : Hold(d) \/ Release(d)

Spec == Init /\ [][Next]_vars

\* A request's task keeps running; every attempt is answered, fails, times out
\* or is cancelled (adapters put a timeout on each call).
FairSpec == Spec /\ \A r \in Requests : WF_vars(Step(r))

-----------------------------------------------------------------------------
\* The view of one deployment

\* Where a walk is with respect to deployment d, as CircuitBreaker describes it.
PhaseOf(w, d) ==
  IF w.at = d /\ w.pc = "waiting" THEN "running"
  ELSE IF w.at = d /\ w.pc = "streaming" THEN "streaming"
  ELSE IF w.pc \in {"ready", "waiting"} /\ d \in ToSet(w.chain) \ w.visited THEN "planned"
  ELSE "idle"

Phases(d) == [r \in Requests |-> PhaseOf(walk[r], d)]

Breaker(d) == INSTANCE CircuitBreaker
                WITH breaker <- breakers[d], phase <- Phases(d)

-----------------------------------------------------------------------------
\* Properties

TypeOK ==
  /\ breakers \in [Deployments -> Breakers]
  /\ walk \in [Requests -> Walks]
  /\ \A r \in Requests : walk[r].pc \in {"ready"} \union InFlightPCs =>
       walk[r].at \in ToSet(walk[r].chain)

\* "Loops are impossible": no request attempts a deployment twice, although the
\* declared graph may contain cycles.
NoDeploymentTriedTwice ==
  \A r \in Requests : IsInjective(walk[r].attempts)

\* Depth is bounded: attempts, hops and recorded depth agree with both ceilings.
AttemptsAreBounded ==
  \A r \in Requests :
    /\ Len(walk[r].attempts) <= MaxAttempts
    /\ walk[r].depth <= MaxDepth
    /\ Len(walk[r].attempts) <= walk[r].depth + 1

\* Only deployments of the request's own plan are attempted.
AttemptsWerePlanned == \A r \in Requests : ToSet(walk[r].attempts) \subseteq ToSet(walk[r].chain)

\* ADR 0003: once a byte of a stream is out, the deployment is committed: the
\* request ends there, whatever happens, and no further attempt is made.
FirstByteCommits ==
  [][\A r \in Requests : walk[r].pc = "streaming" =>
       /\ walk'[r].pc \in {"streaming", "served", "failed", "abandoned"}
       /\ walk'[r].at = walk[r].at
       /\ walk'[r].attempts = walk[r].attempts]_vars

\* A walk gives up for want of a fallback only when it has tried every deployment
\* of its plan (claimed for plans without declared edges and ample budgets).
NoStrandedCandidate ==
  \A r \in Requests :
    walk[r].pc = "exhausted" => walk[r].visited = ToSet(walk[r].chain)

\* Seen from one deployment the engine is the circuit breaker specification:
\* walking several deployments takes the breaker of each through no step that
\* CircuitBreaker lacks, so what holds there holds of every deployment here.
ImplementsBreakers ==
  /\ \A d \in Deployments : Breaker(d)!Init
  /\ [][\A d \in Deployments : [Breaker(d)!Next]_(Breaker(d)!vars)]_vars

\* Every request ends.
RequestsEnd == \A r \in Requests : <>(walk[r].pc \in DonePCs)
=============================================================================
