----------------------------- MODULE RoutePlanner -----------------------------
(***************************************************************************)
(* From a request to a plan (router/plan.py): candidates, policy, hard     *)
(* constraints, the preferences of the intent policy, approval, ranking.   *)
(* While requests are planned, breakers open and close and remediation     *)
(* shifts traffic away from deployments.                                   *)
(*                                                                         *)
(* A registry maps the ids, in the order of ModelIds, to specs (ModelSpec).*)
(* Grades and tiers are numbers; sets stand for optional bounds, none of   *)
(* which is the empty set.                                                 *)
(***************************************************************************)
EXTENDS Integers, SequencesExt, FiniteSetsExt

CONSTANTS
  NONE,                  \* a value nobody declared or observed
  ModelIds,              \* registry order
  Registries,            \* the registries the fabric may be started with
  Aliases,               \* virtual ids: candidates, policy, requires, minimum_grade
  IntentPolicies,        \* RoutingConfig: per intent id, what it prefers
  RoutingCeiling,        \* RoutingConfig.max_tier, as a set of tiers
  DefaultPolicy,
  Modes,                 \* sets of [require_approved, pin_requires_approved,
                         \* commercial_use_required]
  Requests, Tenants,     \* what may be asked, and for whom
  MaxOut                 \* how many breakers are open, or models shifted, at once

LastGrade == 29

VARIABLES
  registry, mode,
  open,      \* deployments whose breaker refuses
  shifted,   \* deployments a remediation has taken traffic from
  plan       \* the last plan, with the request and the tenant it was made for

vars == <<registry, mode, open, shifted, plan>>

-----------------------------------------------------------------------------
\* Tiers, capabilities and intents

ToGrade(tier) == IF tier > LastGrade THEN LastGrade ELSE tier

\* serves_tier: tier L30 is served from grade 29 too.
ServesTier(m, tier) == tier \in m.tiers \/ (m.grade # NONE /\ ToGrade(tier) = m.grade)

ServesApprovedTier(m, tier) ==
  tier \in m.approved_tiers \/ (tier > LastGrade /\ LastGrade \in m.approved_tiers)

\* _closure: a deployment held to a JSON schema produces structured output.
Effective(caps) == caps \union (IF "json_schema" \in caps THEN {"structured_output"} ELSE {})

Classified(q) == q.intent # NONE
Confident(q)  == Classified(q) /\ q.intent.optimized

\* for_classification, or else the intent the request names.
IntentPolicy(q) ==
  LET named(id) == id \in DOMAIN IntentPolicies
  IN  IF Classified(q) /\ ~q.intent.abstain /\ named(q.intent.id) THEN {IntentPolicies[q.intent.id]}
      ELSE IF named(q.intent_id) THEN {IntentPolicies[q.intent_id]}
      ELSE {}

-----------------------------------------------------------------------------
\* How candidates that may serve a request are ordered (router/policy.py).  Only the
\* order is modelled: all scores of a decision are multiplied by the same positive
\* number, so that they are integers and the renormalisation of the weights, which
\* divides by one, drops out.

FEATURES == {"quality", "latency", "cost", "health"}

Weights(quality, latency, cost, health) ==
  [quality |-> quality, latency |-> latency, cost |-> cost, health |-> health]

\* In percent.
POLICY_WEIGHTS ==
  [ quality_first |-> Weights(70, 10,  5, 15),
    latency_first |-> Weights( 5, 70,  5, 20),
    cost_first    |-> Weights( 3,  2, 80, 15),
    balanced      |-> Weights(30, 25, 30, 15),
    local_only    |-> Weights(30, 25, 30, 15),
    private_only  |-> Weights(30, 25, 30, 15),
    custom        |-> Weights(25, 25, 25, 25) ]

\* What is known of a deployment: its declared quality or else its grade, its
\* observed latency or else the declared one, its API price, its health score.
RawFeatures(spec) ==
  [ quality |-> IF spec.quality # NONE THEN spec.quality ELSE spec.grade,
    latency |-> IF spec.observed_ms # NONE THEN spec.observed_ms ELSE spec.latency_ms,
    cost    |-> spec.price,
    health  |-> spec.health_score ]

Known(specs, f)  == {s \in specs : RawFeatures(s)[f] # NONE}
Values(specs, f) == {RawFeatures(s)[f] : s \in Known(specs, f)}

\* A feature that some candidate lacks decides nothing, but the price ranks
\* those that have one.
Usable(specs, weights) ==
  {f \in FEATURES : /\ weights[f] > 0
                    /\ Known(specs, f) # {}
                    /\ f = "cost" \/ Known(specs, f) = specs}

Span(specs, f) == LET s == Max(Values(specs, f)) - Min(Values(specs, f))
                  IN  IF s = 0 THEN 1 ELSE s

\* X_Mistake is a plausible mistake in X, used to test the properties.
Normalised_BiggerIsBetter(specs, spec, f) ==
  LET value == RawFeatures(spec)[f]
      others == Values(specs, f)
  IN  IF Cardinality(others) = 1 THEN 1 ELSE value - Min(others)

\* _normalise, in units of 1 / Span: the better end is Span, the other 0.
Normalised(specs, spec, f) ==
  LET value == RawFeatures(spec)[f]
      others == Values(specs, f)
  IN  IF Cardinality(others) = 1 THEN 1
      ELSE IF f \in {"latency", "cost"} THEN Max(others) - value ELSE value - Min(others)

\* All shares are over the product of the spans, so that none is a fraction.
Scale(specs, weights, f) == IF f \in Usable(specs, weights) THEN Span(specs, f) ELSE 1

OtherScales(specs, weights, f) ==
  LET scale(g) == IF f = g THEN 1 ELSE Scale(specs, weights, g)
  IN  scale("quality") * scale("latency") * scale("cost") * scale("health")

Share(specs, spec, weights, f) ==
  IF f \in Usable(specs, weights) /\ spec \in Known(specs, f)
  THEN weights[f] * Normalised(specs, spec, f) * OtherScales(specs, weights, f) ELSE 0

Score(specs, spec, weights) ==
  LET share(f) == Share(specs, spec, weights, f)
  IN  share("quality") + share("latency") + share("cost") + share("health")

-----------------------------------------------------------------------------
\* What ModelSpec, Alias, TenantRoutingPolicy, the types of a request and
\* _validate_references let through, with nothing listed twice in one place.

PolicyNames == {"declared"} \union DOMAIN POLICY_WEIGHTS
Registered  == ToSet(ModelIds)

ASSUME PlannerAssumption ==
  /\ NONE \notin Int \union PolicyNames
  /\ ModelIds \in Seq(Registered)
  /\ \A r \in Registries : \A id \in Registered :
       LET m == r[id]
       IN  /\ m.id = id /\ m.fallbacks \in Seq(Registered)
           /\ {m.grade, m.quality, m.price, m.latency_ms, m.observed_ms, m.health_score}
                \subseteq Int \union {NONE}
  /\ \A a \in DOMAIN Aliases : /\ Aliases[a].candidates \in Seq(Registered)
                               /\ Aliases[a].policy \in PolicyNames \union {NONE}
  /\ \A q \in Requests : q.policy \in PolicyNames \union {NONE}
  /\ \A t \in Tenants : /\ t.policy \in PolicyNames \union {NONE}
                        /\ t.maximum_grade \subseteq Int
  /\ DefaultPolicy \in PolicyNames

-----------------------------------------------------------------------------
\* Candidates and policy

Alias(q)    == IF q.requested_model \in DOMAIN Aliases THEN {Aliases[q.requested_model]} ELSE {}
IsPinned(q) == q.requested_model \in ToSet(ModelIds)
Tier(q)     == q.tier   \* parse_service_tier: of a request for a tier, no other

\* An alias, a pinned model and its fallbacks, or all there are, in the order in which
\* they stay until they are ranked.
CandidateOrder(q) ==
  IF Alias(q) # {} THEN Aliases[q.requested_model].candidates
  ELSE IF IsPinned(q)
  THEN <<q.requested_model>> \o registry[q.requested_model].fallbacks
  ELSE ModelIds

Position(q, id) == CHOOSE i \in DOMAIN CandidateOrder(q) : CandidateOrder(q)[i] = id

\* A tier is for whoever serves it.
Candidates(q) ==
  {id \in ToSet(CandidateOrder(q)) :
     \/ Alias(q) # {} \/ IsPinned(q)
     \/ registry[id].enabled /\ \E x \in Tier(q) : ServesTier(registry[id], x)}

PolicyFromIntent(q) ==
  IF ~Confident(q) THEN NONE
  ELSE IF q.intent.quality = "maximum" THEN "quality_first"
  ELSE IF q.intent.latency = "realtime" THEN "latency_first"
  ELSE IF q.intent.cost = "minimal" THEN "cost_first"
  ELSE NONE

\* _resolve_policy: the first of these that says something.
Policy(q, t) ==
  LET alias == IF IsPinned(q) THEN "declared"
               ELSE IF Alias(q) # {} THEN Aliases[q.requested_model].policy ELSE NONE
      said == << t.policy, q.policy,
                 IF alias = "declared" THEN alias ELSE NONE,
                 IF Classified(q) /\ ~Confident(q) THEN "balanced" ELSE NONE,
                 alias, PolicyFromIntent(q), DefaultPolicy >>
  IN  said[Min({i \in DOMAIN said : said[i] # NONE})]

-----------------------------------------------------------------------------
\* Hard constraints

InHouse == {"local", "private"}

PolicyLocalities(policy) ==
  CASE policy = "local_only"   -> {{"local"}}
    [] policy = "private_only" -> {InHouse}
    [] OTHER                   -> {}

TenantLocalities_Adds(t) ==
  IF t.require_in_house
  THEN IF \E s \in t.allowed_localities : s # {}
       THEN {InHouse \union s : s \in t.allowed_localities} ELSE {InHouse}
  ELSE t.allowed_localities

\* TenantRoutingPolicy.localities
TenantLocalities(t) ==
  IF t.require_in_house
  THEN IF \E s \in t.allowed_localities : s # {}
       THEN {InHouse \intersect s : s \in t.allowed_localities} ELSE {InHouse}
  ELSE t.allowed_localities

\* _intersect_localities: a deployment must be in every one of these.
Localities(q, t) == PolicyLocalities(Policy(q, t)) \union TenantLocalities(t)

HardRequired(q) == q.required_capabilities \union UNION {a.requires : a \in Alias(q)}
Required(q) ==
  HardRequired(q)
    \union (IF Classified(q) /\ ~q.intent.abstain THEN q.intent.capabilities ELSE {})
    \union UNION {p.required_capabilities : p \in IntentPolicy(q)}

Floors(q, t)   == q.minimum_grade \union t.minimum_grade
                    \union UNION {a.minimum_grade : a \in Alias(q)}
Ceilings(q, t) == q.maximum_grade \union t.maximum_grade
                    \union {ToGrade(x) : x \in RoutingCeiling \union UNION {p.max_tier : p \in IntentPolicy(q)}}

\* Only a known price, or latency, excludes; the price of the request is taken to be
\* the blended price of the deployment.
OverBudget(m, q, t) == \E c \in q.budget \union t.max_cost : m.price # NONE /\ m.price > c

MissesSlo(m, q) ==
  LET latency == RawFeatures(m).latency
  IN  \E c \in q.latency_slo : latency # NONE /\ latency > c

\* The rules of _filter, in its order: the first that holds excludes.
Rules(m, q, t, required) ==
  << <<"disabled",                 ~m.enabled \/ m.lifecycle = "disabled">>,
     <<"commercial_use_forbidden", mode.commercial_use_required /\ m.commercial_use = FALSE>>,
     <<"traffic_shifted",          m.id \in shifted>>,
     <<"denied_by_tenant_policy",  m.id \in t.denied_models>>,
     <<"provider_not_permitted",   t.allowed_providers # {} /\ m.provider \notin t.allowed_providers>>,
     <<"locality_not_permitted",
        \E s \in Localities(q, t) : m.locality \notin s>>,
     <<"grade_below_minimum",      \E g \in Floors(q, t) : m.grade = NONE \/ m.grade < g>>,
     <<"grade_above_maximum",      \E g \in Ceilings(q, t) : m.grade # NONE /\ m.grade > g>>,
     <<"missing_capability",       ~(required \subseteq Effective(m.capabilities))>>,
     <<"context_too_small",        m.context # NONE /\ q.tokens > m.context>>,
     <<"circuit_open",             m.id \in open>>,
     <<"over_budget",              OverBudget(m, q, t)>>,
     <<"latency_slo_missed",       MissesSlo(m, q)>> >>

Broken(rules)    == {i \in DOMAIN rules : rules[i][2]}
FirstRule(rules) == rules[Min(Broken(rules))][1]

Exclusion(id, rule) == [model_id |-> id, rule |-> rule]

Filter(q, t, required) ==
  LET rules(id) == Rules(registry[id], q, t, required)
      allowed   == {id \in Candidates(q) : Broken(rules(id)) = {}}
  IN  [ eligible |-> allowed,
        excluded |-> {Exclusion(id, FirstRule(rules(id))) : id \in Candidates(q) \ allowed} ]

\* Capabilities only the intent asks for are given up before the request is.
Filtered(q, t) ==
  LET strict == Filter(q, t, Required(q))
  IN  IF strict.eligible = {} /\ Required(q) # HardRequired(q)
      THEN Filter(q, t, HardRequired(q)) ELSE strict

-----------------------------------------------------------------------------
\* Preferences and approval

\* Keeps the wanted if there are any.
Narrowed(f, wanted, rule) ==
  LET kept == f.eligible \intersect wanted
  IN  IF kept = {} THEN f
      ELSE [eligible |-> kept,
            excluded |-> f.excluded \union {Exclusion(id, rule) : id \in f.eligible \ kept}]

\* _narrow_to_intent_policy
Preferred(f, q) ==
  LET tiers  == UNION {p.tiers : p \in IntentPolicy(q)}
      models == UNION {p.models : p \in IntentPolicy(q)}
      served == {id \in f.eligible : \E x \in tiers : ServesTier(registry[id], x)}
  IN  Narrowed(Narrowed(f, served, "tier_not_preferred"), models, "model_not_preferred")

Pinned(q, t) == Policy(q, t) = "declared"
Strict(q, t) == mode.require_approved \/ (Pinned(q, t) /\ mode.pin_requires_approved)

IsApproved(m, strict) ==
  /\ m.lifecycle = "approved"
  /\ m.identity_match
  /\ m.evidence_bound \/ ~strict

PublicTier(m) == IF m.tiers # {} THEN {Max(m.tiers)} ELSE {}

\* A workload that has approved tiers must be served at one of them.
ApprovedForWorkload(m, q) ==
  LET tier == IF Tier(q) # {} THEN Tier(q) ELSE PublicTier(m)
  IN  \/ q.intent_id = NONE
      \/ m.approved_workloads = <<>>
      \/ /\ q.intent_id \in DOMAIN m.approved_workloads
         /\ tier \subseteq m.approved_workloads[q.intent_id]

UnapprovedRule(m, strict) ==
  IF ~m.identity_match THEN "artifact_revision_mismatch"
  ELSE CASE m.lifecycle = "registered" -> "not_probed"
         [] m.lifecycle = "probed"     -> "not_evaluated"
         [] m.lifecycle \in {"evaluated", "shadow", "approved"} -> "not_approved"
         [] OTHER -> "lifecycle_not_approved"

\* The rule that keeps m from a production auto-route, if any.
ApprovalRules(m, q, t) ==
  LET strict == Strict(q, t)
  IN  << <<UnapprovedRule(m, strict), ~IsApproved(m, strict)>>,
         <<"not_approved_for_tier",
            m.approved_tiers # {} /\ \E x \in Tier(q) : ~ServesApprovedTier(m, x)>>,
         <<"not_approved_for_workload", ~ApprovedForWorkload(m, q)>> >>

\* _narrow_to_approved.  When nobody remains and approval is not required, the
\* candidates stay eligible, and stay among the excluded as well.
Approved(f, q, t) ==
  LET rules(id) == ApprovalRules(registry[id], q, t)
      approved  == \E id \in f.eligible : IsApproved(registry[id], Strict(q, t))
      remaining == {id \in f.eligible : Broken(rules(id)) = {}}
      refused   == {Exclusion(id, FirstRule(rules(id))) : id \in f.eligible \ remaining}
  IN  IF \/ f.eligible = {}
         \/ (Pinned(q, t) /\ ~mode.pin_requires_approved)
         \/ ~(approved \/ Strict(q, t))
      THEN f
      ELSE [ eligible |-> IF remaining = {} /\ ~Strict(q, t) THEN f.eligible ELSE remaining,
             excluded |-> f.excluded \union refused ]

\* score_candidates: `declared` keeps the order of the candidates, and so do ties.
Ranked(ids, q, policy) ==
  LET all   == {registry[id] : id \in ids}
      score == [id \in ids |-> IF policy = "declared" THEN 0
                               ELSE Score(all, registry[id], POLICY_WEIGHTS[policy])]
      ahead(a, b) == \/ score[a] > score[b]
                     \/ score[a] = score[b] /\ Position(q, a) < Position(q, b)
  IN  CHOOSE s \in [1..Cardinality(ids) -> ids] : \A i, j \in DOMAIN s : i < j => ahead(s[i], s[j])

-----------------------------------------------------------------------------
\* plan(): a plan without a chain is a refusal.

PlanFor(q, t) ==
  LET final == Approved(Preferred(Filtered(q, t), q), q, t)
  IN  [ request |-> q, tenant |-> t, policy |-> Policy(q, t),
        chain |-> Ranked(final.eligible, q, Policy(q, t)), excluded |-> final.excluded ]

NoPlan == [chain |-> <<>>]

Init ==
  /\ registry \in Registries /\ mode \in Modes
  /\ open = {} /\ shifted = {}
  /\ plan = NoPlan

\* A tier nobody serves is refused before planning (ModelNotFoundError).  A plan
\* depends on nothing planned before: planning again is left out.
Plan(q, t) ==
  /\ plan = NoPlan /\ Candidates(q) # {}
  /\ plan' = PlanFor(q, t)
  /\ UNCHANGED <<registry, mode, open, shifted>>

\* A breaker opens or admits again; a remediation shifts traffic or is undone.
Toggled(S, id) == IF id \in S THEN S \ {id} ELSE S \union {id}

Trip(id) ==
  /\ open' = Toggled(open, id) /\ Cardinality(open') <= MaxOut
  /\ plan' = NoPlan
  /\ UNCHANGED <<registry, mode, shifted>>

Shift(id) ==
  /\ shifted' = Toggled(shifted, id) /\ Cardinality(shifted') <= MaxOut
  /\ plan' = NoPlan
  /\ UNCHANGED <<registry, mode, open>>

Next ==
  \/ \E q \in Requests, t \in Tenants : Plan(q, t)
  \/ \E id \in ToSet(ModelIds) : Trip(id) \/ Shift(id)

Spec == Init /\ [][Next]_vars

-----------------------------------------------------------------------------
\* Properties

Planned == plan # NoPlan

\* What the tenant's rules, the request's own hard requirements and the state of a
\* deployment ask of it.  An empty set of allowed localities forbids every deployment,
\* unless the tenant is to stay in house: then it is read as none declared.
Permitted(m, q, t) ==
  /\ m.enabled /\ m.id \notin open \union shifted \union t.denied_models
  /\ t.allowed_providers = {} \/ m.provider \in t.allowed_providers
  /\ ~t.require_in_house \/ m.locality # "external"
  /\ \A s \in t.allowed_localities : m.locality \in s \/ (s = {} /\ t.require_in_house)
  /\ \A g \in t.maximum_grade : m.grade = NONE \/ m.grade <= g
  /\ q.required_capabilities \subseteq Effective(m.capabilities)

\* "Tenant policy can only ever narrow the candidate set" (plan.py): nothing a
\* request, an alias or an intent says, no relaxation and no preference, puts a
\* deployment in the chain that the tenant's rules or the request's own hard
\* requirements forbid, or that may not take traffic.
NothingForbiddenIsPlanned ==
  Planned => \A id \in ToSet(plan.chain) : Permitted(registry[id], plan.request, plan.tenant)

Better(f, v, w) == IF f \in {"latency", "cost"} THEN v < w ELSE v > w

\* Among the candidates of plan p, a is at least as good as b in everything known of
\* both, and better in something known of all.
Dominates(p, a, b) ==
  LET x == RawFeatures(registry[a])
      y == RawFeatures(registry[b])
      weighed == {f \in FEATURES : POLICY_WEIGHTS[p.policy][f] > 0}
  IN  /\ \A f \in weighed : /\ (x[f] # NONE /\ y[f] # NONE) => ~Better(f, y[f], x[f])
                            /\ f = "cost" => (y[f] # NONE => x[f] # NONE)
      /\ \E f \in weighed : /\ \A id \in ToSet(p.chain) : RawFeatures(registry[id])[f] # NONE
                            /\ Better(f, x[f], y[f])

\* Who dominates another candidate is tried before it (policy.py).
NoDominatedCandidateLeads ==
  Planned /\ plan.policy # "declared" =>
    \A i, j \in DOMAIN plan.chain : i < j => ~Dominates(plan, plan.chain[j], plan.chain[i])

=============================================================================
