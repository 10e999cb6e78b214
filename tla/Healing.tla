------------------------------- MODULE Healing -------------------------------
(***************************************************************************)
(* Self-healing (heal/policies.py, remediate.py, controls.py, engine.py):   *)
(* a drift report becomes proposals; a tick applies those that are          *)
(* automatic, a person any of them.  Prompts are the versions of one        *)
(* prompt, in the store of PromptRepository (storage/repositories.py).      *)
(***************************************************************************)
EXTENDS Drift

CONSTANTS
  Models,              \* model ids; a model's deployment has the same name here
  Snapshots,           \* what a health snapshot may say: see Drift
  Reports,             \* the signals an analysis may find
  Targets,             \* what a person may name as a target
  ForbiddenTargets,    \* those that name authorization or safety
  Versions,            \* prompt versions, 1..n
  Classifiers,         \* versions of the classifier
  MaxPins              \* bound on the pins of the classifier ledger

VARIABLES
  health,     \* health[m]: the snapshot of m
  held,       \* deployments whose breaker is held open
  excluded,   \* TrafficOverlay
  ceiling,    \* context_ceiling_tokens is set
  pins,       \* ClassifierLedger: the versions pinned, the last one current
  serving,    \* the classifier that serves
  cached,     \* the tenant has cache entries
  recorded,   \* the remediation records of the last call
  prompts,    \* prompts[v]: status, or "absent"
  restoring   \* the version a rollback is about to promote, 0 if none

controls == <<held, excluded, ceiling, pins, serving, cached>>
vars == <<health, controls, recorded, prompts, restoring>>

AUTO_OPEN_ERROR_RATE == 50
AUTO_OPEN_MIN_SAMPLES == 10

Statuses == {"absent", "draft", "candidate", "evaluated", "canary", "production", "retired"}

PUBLISHED_PROMPT_STATUSES == {"canary", "production", "retired"}

Init ==
  /\ health \in [Models -> Snapshots]
  /\ held = {} /\ excluded = {} /\ ceiling = FALSE
  /\ pins \in {<<>>} \union {<<c>> : c \in Classifiers}
  /\ serving = pins /\ cached = TRUE /\ recorded = {}
  /\ prompts = [v \in Versions |-> "absent"] /\ restoring = 0

-----------------------------------------------------------------------------
\* Proposals

Proposal(kind, target, auto, parameter) ==
  [kind |-> kind, target |-> target, auto |-> auto, parameter |-> parameter]

Manual(kind, target) == Proposal(kind, target, FALSE, "none")

\* What each kind of significant drift suggests, none of it automatic.
Suggested(kind) ==
  {Manual(remedy[1], remedy[2]) : remedy \in
     IF kind \in {"classifier", "intent"}
     THEN {<<"learning_job", "classifier">>, <<"invalidate_cache", "intent">>,
           <<"rollback_classifier", "classifier">>}
     ELSE IF kind \in {"routing", "cost"} THEN {<<"shift_traffic", "routing">>}
     ELSE IF kind = "latency"
     THEN {<<"reduce_context_limit", "context">>, <<"shift_traffic", "routing">>}
     ELSE IF kind = "error" THEN {<<"open_circuit_breaker", "unhealthy">>}
     ELSE IF kind = "quality" THEN {<<"rollback_model", "model">>, <<"rollback_prompt", "prompt">>}
     ELSE {}}

ShouldTrip(row) ==
  /\ row.samples >= AUTO_OPEN_MIN_SAMPLES
  /\ ~row.circuit_open
  /\ \/ row.error_rate # None /\ row.error_rate[1] >= AUTO_OPEN_ERROR_RATE * row.error_rate[2]
     \/ row.health_score # None /\ row.health_score[1] = 0

Propose(signals, rows) ==
  LET significant == Significant(signals)
      tripping == {m \in DOMAIN rows : ShouldTrip(rows[m])}
      alarm == {Proposal("raise_incident", "tenant", TRUE, "critical") : s \in significant}
      found == alarm
        \union (UNION {Suggested(s.kind) : s \in significant})
        \union {Proposal("open_circuit_breaker", m, TRUE, "none") : m \in tripping}
        \union {Proposal("shift_traffic", m, TRUE, "none") : m \in tripping}
  IN  IF found = {} /\ \E s \in signals : s.severity = "moderate"
      THEN {Proposal("raise_incident", "tenant", TRUE, "warning")}
      ELSE found

IsForbidden(target) == target \in ForbiddenTargets

-----------------------------------------------------------------------------
\* Applying proposals: what a set of them, of kinds other than rollback_prompt,
\* leaves.  A proposal is recorded whether it could be applied or not.

Of(kind, proposals) == {p \in proposals : p.kind = kind}
TargetsOf(kind, proposals) == {p.target : p \in Of(kind, proposals)}

\* ClassifierLedger.rollback: needs a pin below the current one.
Unpinned == Front(pins)

MayUnpin == Len(pins) >= 2

Done(p) ==
  CASE p.kind = "rollback_classifier" -> MayUnpin
    [] p.kind = "rollback_model"      -> FALSE   \* nothing in src/ snapshots a model
    [] OTHER                          -> TRUE

Dispatch(proposals) ==
  LET unpin == Of("rollback_classifier", proposals) # {} /\ MayUnpin
  IN  /\ held' = held \union TargetsOf("open_circuit_breaker", proposals)
      /\ health' = [m \in Models |->
           IF m \in held' THEN [health[m] EXCEPT !.circuit_open = TRUE] ELSE health[m]]
      /\ excluded' = excluded \union TargetsOf("shift_traffic", proposals)
      /\ ceiling' = (ceiling \/ Of("reduce_context_limit", proposals) # {})
      /\ pins' = IF unpin THEN Unpinned ELSE pins
      /\ serving' = IF unpin THEN <<pins[Len(pins) - 1]>> ELSE serving
      /\ cached' = (cached /\ Of("invalidate_cache", proposals) = {})
      /\ recorded' = {p @@ [applied |-> Done(p)] : p \in proposals}

\* Mistake: every proposal is applied.
Automatic_All(proposals) == {p \in proposals : p.kind # "rollback_prompt"}

Automatic(proposals) == {p \in proposals : p.auto}

Tick ==
  /\ \E signals \in Reports : Dispatch(Automatic(Propose(signals, health)))
  /\ UNCHANGED <<prompts, restoring>>

Kinds == {"open_circuit_breaker", "shift_traffic", "rollback_model", "rollback_classifier",
          "reduce_context_limit", "invalidate_cache", "raise_incident", "learning_job"}

\* A person's proposal; one about authorization or safety is refused.
Apply ==
  /\ \E kind \in Kinds, target \in Targets :
       ~IsForbidden(target) /\ Dispatch({Manual(kind, target)})
  /\ UNCHANGED <<prompts, restoring>>

Refuse ==
  /\ \E target \in Targets : IsForbidden(target)
  /\ recorded' = {}
  /\ UNCHANGED <<health, controls, prompts, restoring>>

-----------------------------------------------------------------------------
\* What happens around it

\* Requests move the health of a deployment; a held breaker stays open.
Traffic(m) ==
  /\ \E s \in Snapshots : s.circuit_open = (m \in held) /\ health' = [health EXCEPT ![m] = s]
  /\ recorded' = {}
  /\ UNCHANGED <<controls, prompts, restoring>>

\* force_close: nothing restores the traffic with it.
Release(m) ==
  /\ held' = held \ {m}
  /\ health' = [health EXCEPT ![m].circuit_open = FALSE]
  /\ recorded' = {}
  /\ UNCHANGED <<excluded, ceiling, pins, serving, cached, prompts, restoring>>

Restore ==
  /\ \E m \in Models : excluded' \in {excluded \ {m}, {}}
  /\ recorded' = {}
  /\ UNCHANGED <<health, held, ceiling, pins, serving, cached, prompts, restoring>>

\* A classifier is deployed and pinned; the version on top is not pinned again.
Pin(c) ==
  /\ pins' = IF pins # <<>> /\ Last(pins) = c THEN pins ELSE Append(pins, c)
  /\ Len(pins') <= MaxPins
  /\ serving' = <<c>> /\ cached' = TRUE
  /\ recorded' = {}
  /\ UNCHANGED <<health, held, excluded, ceiling, prompts, restoring>>

-----------------------------------------------------------------------------
\* Prompts

\* publish(): the content of a version that is published cannot change.
Publish(v) ==
  /\ prompts[v] \notin PUBLISHED_PROMPT_STATUSES
  /\ \E status \in Statuses \ {"absent"} : prompts' = [prompts EXCEPT ![v] = status]
  /\ UNCHANGED <<health, controls, recorded, restoring>>

\* promote() checks only that the version exists.
PromoteVersion(v) ==
  /\ prompts[v] # "absent"
  /\ \E status \in Statuses \ {"absent"} : prompts' = [prompts EXCEPT ![v] = status]
  /\ UNCHANGED <<health, controls, recorded, restoring>>

InProduction == {v \in Versions : prompts[v] = "production"}

Highest(S) == CHOOSE v \in S : \A u \in S : u <= v

\* Mistake: drafts count.
Earlier_Any(v) == {u \in Versions : u < v /\ prompts[u] # "absent"}

\* Versions a rollback may go back to.
Earlier(v) ==
  {u \in Versions : u < v /\ prompts[u] \in {"production", "retired", "evaluated", "canary"}}

\* The first write of a rollback retires the version in production ...
RollbackPrompt ==
  /\ restoring = 0 /\ InProduction # {}
  /\ LET current == Highest(InProduction) IN
     /\ Earlier(current) # {}
     /\ restoring' = Highest(Earlier(current))
     /\ prompts' = [prompts EXCEPT ![current] = "retired"]
  /\ UNCHANGED <<health, controls, recorded>>

\* ... the second promotes the one before it, unless the store fails.
RestorePrompt ==
  /\ restoring # 0
  /\ prompts' \in {prompts, [prompts EXCEPT ![restoring] = "production"]}
  /\ restoring' = 0
  /\ UNCHANGED <<health, controls, recorded>>

Remedies ==
  \/ Tick \/ Apply \/ Refuse \/ Restore
  \/ \E m \in Models : Traffic(m) \/ Release(m)
  \/ \E c \in Classifiers : Pin(c)

PromptSteps ==
  \/ \E v \in Versions : Publish(v) \/ PromoteVersion(v)
  \/ RollbackPrompt \/ RestorePrompt

Next == Remedies \/ PromptSteps

Spec == Init /\ [][Next]_vars

-----------------------------------------------------------------------------
\* Properties

\* "No automatic mutation": whatever a report says, a tick raises incidents, holds
\* breakers and shifts traffic, and these two together and only for a deployment with
\* enough samples that fails at least half of its requests or scores nothing; the
\* classifier, the cache and the context ceiling need a person.
NeedsAPerson ==
  \/ <<ceiling, pins, serving, cached>>' # <<ceiling, pins, serving, cached>>
  \/ \E m \in (held' \ held) \union (excluded' \ excluded) :
       \/ m \notin held' \intersect excluded'
       \/ m \notin Models
       \/ health[m].samples < AUTO_OPEN_MIN_SAMPLES \/ health[m].circuit_open

TicksStayBounded == NeedsAPerson => ~Tick

AutomationIsBounded == [][TicksStayBounded]_vars

\* A rollback serves again only a version that was evaluated or served before, and
\* one older than what it retired.
ServesOlder ==
  restoring = 0 /\ restoring' # 0 =>
    /\ prompts[restoring'] \in {"evaluated"} \union PUBLISHED_PROMPT_STATUSES
    /\ \E v \in Versions : v > restoring' /\ prompts[v] = "production" /\ prompts'[v] = "retired"

RollbackServesOlder == [][ServesOlder]_vars
=============================================================================
