--------------------------- MODULE CircuitBreaker ---------------------------
(***************************************************************************)
(* The circuit breaker of one deployment (router/health.py) under          *)
(* concurrent requests.  Deployments share nothing but the lock, so one is *)
(* enough.  Every handler runs between two awaits of the event loop and is *)
(* one action; between them any other request may run.                     *)
(*                                                                         *)
(* A request asks for admission when its route is planned (router/plan.py) *)
(* and is taken in flight when the walk reaches the deployment: at once    *)
(* when it is the first choice, after other attempts have failed when it   *)
(* is a fallback candidate.  The engine never asks again in between.       *)
(***************************************************************************)
EXTENDS BreakerState, FiniteSets

CONSTANT Requests

ASSUME RequestsAssumption == IsFiniteSet(Requests)

VARIABLES
  breaker,    \* the deployment's _State
  phase       \* phase[r]: where request r is in the engine

vars == <<breaker, phase>>

Phases   == {"idle", "planned", "running", "streaming"}
InFlight == {r \in Requests : phase[r] \in {"running", "streaming"}}

Init ==
  /\ breaker = FreshBreaker
  /\ phase = [r \in Requests |-> "idle"]

-----------------------------------------------------------------------------
\* Requests

\* RoutePlanner._filter asks admits(); an OPEN breaker may turn half-open.  The
\* planner's later filters may still exclude a deployment that admits.
Plan(r) ==
  /\ phase[r] = "idle"
  /\ breaker' = AfterAdmits(breaker)
  /\ \/ UNCHANGED phase
     \/ Admits(breaker) /\ phase' = [phase EXCEPT ![r] = "planned"]

\* The walk ends before it reaches this deployment.
NotReached(r) ==
  /\ phase[r] = "planned"
  /\ phase' = [phase EXCEPT ![r] = "idle"]
  /\ UNCHANGED breaker

\* The walk reaches the deployment: in_flight() is entered.
Begin(r) ==
  /\ phase[r] = "planned"
  /\ phase' = [phase EXCEPT ![r] = "running"]
  /\ breaker' = Entered(breaker)

\* The walk reaches a deployment whose provider cannot be built: in_flight() is
\* entered and left without an await, and the failure recorded.
Unbuilt(r) ==
  /\ phase[r] = "planned"
  /\ phase' = [phase EXCEPT ![r] = "idle"]
  /\ breaker' = RecordFailure(Exited(Entered(breaker)))

\* A unary attempt returns: in_flight() is left, then the success recorded.
Complete(r) ==
  /\ phase[r] = "running"
  /\ phase' = [phase EXCEPT ![r] = "idle"]
  /\ breaker' = RecordSuccess(Exited(breaker))

\* A FabricError ends the attempt, before or after the first streamed byte.
Fail(r) ==
  /\ phase[r] \in {"running", "streaming"}
  /\ phase' = [phase EXCEPT ![r] = "idle"]
  /\ breaker' = RecordFailure(Exited(breaker))

\* The first event of a stream records the success; the stream stays in flight.
FirstEvent(r) ==
  /\ phase[r] = "running"
  /\ phase' = [phase EXCEPT ![r] = "streaming"]
  /\ breaker' = RecordSuccess(breaker)

\* The stream ends, or the caller goes away: in_flight() is left, nothing recorded.
Leave(r) ==
  /\ phase[r] \in {"running", "streaming"}
  /\ phase' = [phase EXCEPT ![r] = "idle"]
  /\ breaker' = Exited(breaker)

Request(r) ==
  \/ Plan(r) \/ NotReached(r) \/ Begin(r) \/ Unbuilt(r)
  \/ Complete(r) \/ Fail(r) \/ FirstEvent(r) \/ Leave(r)

-----------------------------------------------------------------------------
\* Operators and remediation

ForceOpen(hold) == breaker' = ForcedOpen(breaker, hold) /\ UNCHANGED phase

ForceClose == breaker' = Closed(breaker) /\ UNCHANGED phase

\* reset() drops the record although requests may be in flight.
Reset == breaker' = FreshBreaker /\ UNCHANGED phase

Operator == ForceClose \/ Reset \/ \E hold \in BOOLEAN : ForceOpen(hold)

Tick ==
  /\ breaker.state = OPEN
  /\ breaker.since_opened < OpenDuration
  /\ breaker' = Aged(breaker)
  /\ UNCHANGED phase

Next == Tick \/ Operator \/ \E r \in Requests : Request(r)

Spec == Init /\ [][Next]_vars

\* Time passes, requests keep arriving, streams end; not every request is served
\* before the walk reaches the deployment and not every answer is cut short by
\* its caller.  Nothing obliges an operator to act.
Fairness ==
  /\ WF_vars(Tick)
  /\ \A r \in Requests : /\ WF_vars(Plan(r))
                         /\ SF_vars(Begin(r))
                         /\ SF_vars(Complete(r) \/ FirstEvent(r))
                         /\ WF_vars(phase[r] = "streaming" /\ Leave(r))

FairSpec == Spec /\ Fairness
-----------------------------------------------------------------------------
\* Properties

TypeOK ==
  /\ breaker \in Breakers
  /\ phase \in [Requests -> Phases]

\* `held_open` marks an open breaker only: no path (a late success, a probe, a
\* close) leaves a closed or half-open breaker that would still be refused as held.
HeldMeansOpen == breaker.held_open => breaker.state = OPEN

\* What the comment in _admits_locked relies on when it does not reset the
\* probe count: an open breaker counts no probe, so a half-open period starts at 0.
OpenCountsNoProbe == breaker.state = OPEN => breaker.half_open_in_flight = 0

\* Probe slots are not leaked: the counted probes never outnumber the requests
\* in flight, whatever mixture of early, late and cancelled requests ends, and
\* across reset().
SlotsAreHeld ==
  /\ breaker.half_open_in_flight <= breaker.queue_depth
  /\ breaker.queue_depth <= Cardinality(InFlight)

\* Hence a half-open breaker with nothing in flight admits the next request: it
\* cannot be stuck half-open behind slots nobody holds.
QuiescentHalfOpenAdmits ==
  breaker.state = HALF_OPEN /\ InFlight = {} => Admits(breaker)

\* force_open(hold=True) sticks: no answer that was already on its way, no
\* cooldown and no new request reopens a held deployment or is planned on it;
\* only an operator call does.
HoldNeedsOperator ==
  [][breaker.held_open /\ ~Operator =>
       /\ breaker'.held_open /\ breaker'.state = OPEN
       /\ \A r \in Requests : phase'[r] = "planned" => phase[r] = "planned"]_vars

\* An open period runs its course: late answers of requests sent before the trip
\* neither close the breaker nor restart its cooldown, and it ends in half-open,
\* after the whole cooldown, unless an operator ends it.
OpenPeriodRunsItsCourse ==
  [][breaker.state = OPEN /\ ~Operator =>
       \/ breaker'.state = OPEN /\ breaker'.since_opened >= breaker.since_opened
       \/ breaker'.state = HALF_OPEN /\ breaker.since_opened = OpenDuration]_vars

NoSetback == ~Operator /\ \A r \in Requests : ~Fail(r) /\ ~Unbuilt(r)

\* If from some point on the backend answers every attempt, no operator acts and
\* the breaker is not held, traffic alone closes the breaker for good.
Recovers ==
  <>[][NoSetback]_vars /\ <>[](~breaker.held_open) => <>[](breaker.state = CLOSED)
=============================================================================
