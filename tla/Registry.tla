------------------------------- MODULE Registry -------------------------------
(***************************************************************************)
(* The model registry (router/registry.py) with what its entries are made  *)
(* of - grades, tiers, capabilities, topology - and the routing policies   *)
(* checked against it (router/intent_routing.py).                          *)
(*                                                                         *)
(* An entry of the file is a record whose optional fields are <<>> or      *)
(* <<x>>; inside a block a field may also be <<NULL>>.  Numbers the parser *)
(* cannot read are Malformed.  A provider is named by its family and, for  *)
(* a pool such as ollama-gpu, the fact that it is one.  Scores are per     *)
(* cent, prices micro-dollars.  What one load refuses the program refuses  *)
(* with a ConfigurationError, and serves what it served before.            *)
(***************************************************************************)
EXTENDS Integers, Sequences, SequencesExt, FiniteSets, FiniteSetsExt, Functions

VARIABLES models,    \* the specs, in the order they were declared
          aliases,   \* id -> candidates, requires, minimum grade
          routing,   \* the routing policies read after the models
          outcome    \* what the last operation came to

vars == <<models, aliases, routing, outcome>>

CONSTANTS Entries,   \* the model lists a file may hold
          AliasLists, RoutingBlocks, Replacements, NewGrades

None == <<>>
NULL == -1000
Malformed == -1001

OrElse(option, default) == IF option = None THEN default ELSE option[1]
Given(option) == option # None /\ option # <<NULL>>

-----------------------------------------------------------------------------
\* router/grades.py and router/tiers.py: names are [form, n], of the forms
\* "digits", "L", "Grade" and "other"

GRADE_COUNT == 30
TIER_COUNT == 31

FromIndex(n) == IF n < GRADE_COUNT THEN <<n>> ELSE None

ParseGrade(name) ==
  IF name.form = "L" /\ name.n = GRADE_COUNT THEN <<GRADE_COUNT - 1>>
  ELSE IF name.form = "other" THEN None ELSE FromIndex(name.n)

AtLeast(minimum) == minimum .. GRADE_COUNT - 1   \* at_least

ToGrade(tier) == Min({tier, GRADE_COUNT - 1})
FromGrade(grade) == grade

ParseTier(name) ==
  IF name.form = "L" THEN IF name.n < TIER_COUNT THEN <<name.n>> ELSE None
  ELSE ParseGrade(name)

-----------------------------------------------------------------------------
\* router/capabilities.py

IMPLIES == ("json_schema" :> {"structured_output"})

Implied(c) == IF c \in DOMAIN IMPLIES THEN IMPLIES[c] ELSE {}

\* What is implied may imply more; one pass for each rule reaches the end.
Effective(declared) ==
  FoldSet(LAMBDA rule, known : known \union UNION {Implied(c) : c \in known},
          declared, DOMAIN IMPLIES)

Satisfies(declared, required) == required \subseteq Effective(declared)
MissingOf(declared, required) == required \ Effective(declared)

-----------------------------------------------------------------------------
\* serving/topology.py

DefaultsForProvider(provider) ==
  LET of(transport, runtime) ==
        [adapter |-> provider.family, transport |-> transport, runtime |-> runtime]
  IN  IF provider.family = "mock" THEN of("direct", "mock")
      ELSE IF provider.family = "litellm" THEN of("litellm", "external")
      ELSE IF provider.family \in {"ollama", "vllm"} THEN of("direct", provider.family)
      ELSE of("direct", "external")

-----------------------------------------------------------------------------
\* Reading one entry

KNOWN_PROVIDERS ==
  {"mock", "openai", "anthropic", "ollama", "vllm", "openai-compatible", "litellm"}
Pools == {"ollama", "vllm", "litellm"}

ValidProvider(provider) ==
  /\ ~provider.marked                             \* no scheme, slash or space in it
  /\ \/ provider.family \in KNOWN_PROVIDERS /\ (provider.pooled => provider.family \in Pools)
     \/ provider.plain                            \* letters, digits, _ - . from a letter on

Number(option) == option # <<Malformed>>

QUALITY_DIMENSIONS == {"reasoning", "coding", "agent", "math", "rag", "tool_use",
                       "structured_output", "safety"}
PERFORMANCE_FIELDS == {"p50_ttft_ms", "p95_ttft_ms", "p99_ttft_ms", "p50_tpot_ms",
                       "prefill_tokens_per_second", "decode_tokens_per_second"}
LOCALITIES == {"local", "private", "external"}
COST_CLASSES == {"unknown", "resource_cost_known", "resource_cost_unknown",
                 "marginal_api_price", "estimated_gpu_cost"}
LIFECYCLES == {"registered", "probed", "evaluated", "shadow", "approved", "disabled"}

In(block, name) == IF name \in DOMAIN block THEN block[name] ELSE None
Read(option) == IF Given(option) THEN option ELSE None

\* A null in the quality block gives way to the flat field...
QualityFrom(e) ==
  [d \in QUALITY_DIMENSIONS |->
     IF Given(In(e.quality, d)) THEN In(e.quality, d) ELSE Read(In(e.flat, d))]

\* ...in the performance and placement blocks it hides it.
FromBlock(block, flat, name) == Read(IF In(block, name) # None THEN In(block, name) ELSE In(flat, name))

PerformanceFrom(e) == [f \in PERFORMANCE_FIELDS |-> FromBlock(e.performance, e.flat, f)]

CheckScore(score) == score = None \/ score[1] \in 0 .. 100

\* Everything in the entry that can be read at all.
Readable(e) ==
  /\ e.id # None /\ e.provider # None
  /\ e.blocks                                      \* each block is a mapping, capabilities are not
  /\ ValidProvider(e.provider[1])
  /\ e.grade = None \/ ParseGrade(e.grade[1]) # None
  /\ \A i \in DOMAIN e.tiers : ParseTier(e.tiers[i]) # None
  /\ Number(e.context_window) /\ Number(e.recommended) /\ Number(e.input_cost) /\ Number(e.output_cost)
  /\ e.cost_class = None \/ e.cost_class[1] \in COST_CLASSES
  /\ e.lifecycle = None \/ e.lifecycle[1] \in LIFECYCLES
  /\ e.locality = None \/ e.locality[1] \in LOCALITIES
  /\ e.transport = None \/ e.transport[1] \in {"direct", "litellm"}
  /\ e.runtime = None \/ e.runtime[1] \in {"ollama", "vllm", "external", "mock"}
  /\ e.commercial_use = None \/ e.commercial_use[1] \in {"true", "false"}
  /\ \A d \in QUALITY_DIMENSIONS : Number(QualityFrom(e)[d]) /\ CheckScore(QualityFrom(e)[d])
  /\ \A f \in PERFORMANCE_FIELDS : Number(PerformanceFrom(e)[f])

\* 0 is no bound, as absence is.
NonZero(option) == IF option = <<0>> THEN None ELSE option

\* A flag is "on", "off" (false, null, 0 or no text) or "text": any text switches
\* it on, "false" among it.
Truth(flag, default) == IF flag = None THEN default ELSE flag[1] # "off"

Parsed(e) ==
  [ id |-> e.id[1], provider |-> e.provider[1],
    provider_model |-> OrElse(e.provider_model, e.id[1]),
    deployment_id |-> OrElse(e.deployment_id, ""),
    grade |-> IF e.grade = None THEN None ELSE ParseGrade(e.grade[1]),
    context_window |-> NonZero(e.context_window), recommended |-> NonZero(e.recommended),
    input_cost |-> e.input_cost, output_cost |-> e.output_cost,
    capabilities |-> e.capabilities, quality |-> QualityFrom(e), performance |-> PerformanceFrom(e),
    locality |-> OrElse(e.locality, "external"), cost_class |-> e.cost_class,
    adapter |-> e.adapter, transport |-> OrElse(e.transport, "direct"),
    runtime |-> OrElse(e.runtime, "external"),
    enabled |-> Truth(e.enabled, TRUE), trust_remote_code |-> Truth(e.trust_remote_code, FALSE),
    fallbacks |-> e.fallbacks,
    tiers |-> {ParseTier(e.tiers[i])[1] : i \in DOMAIN e.tiers},
    lifecycle |-> OrElse(e.lifecycle, "registered"), approved_tiers |-> {} ]

-----------------------------------------------------------------------------
\* ModelSpec.__post_init__: what is left out is filled in, then the whole is
\* judged.  Every dataclasses.replace of a spec comes through here again.

Filled(spec) ==
  LET defaults == DefaultsForProvider(spec.provider)
      adapter == IF spec.adapter = "" THEN defaults.adapter ELSE spec.adapter
  IN  [spec EXCEPT
        !.provider_model = IF @ = "" THEN spec.id ELSE @,
        !.deployment_id = IF @ = "" THEN spec.id ELSE @,
        !.adapter = adapter,
        !.transport = IF @ = "direct" /\ adapter = "litellm" THEN "litellm" ELSE @,
        !.runtime = IF @ = "external" THEN defaults.runtime ELSE @,
        !.tiers = IF @ = {} /\ spec.grade # None THEN {FromGrade(spec.grade[1])} ELSE @]

\* An adapter named like its provider passes for LiteLLM when the transport says so.
TransportFits(spec) ==
  spec.transport = "litellm" =>
    /\ \/ spec.adapter \in {"litellm", spec.provider.family}
       \/ spec.provider.family = "litellm"
    /\ spec.provider.family # "ollama"

Sound(spec) ==
  /\ spec.context_window = None \/ spec.context_window[1] > 0
  /\ ~spec.trust_remote_code
  /\ TransportFits(spec)
  /\ spec.input_cost = None \/ spec.input_cost[1] >= 0
  /\ spec.output_cost = None \/ spec.output_cost[1] >= 0
  /\ spec.recommended = None \/ spec.context_window = None
       \/ spec.recommended[1] <= spec.context_window[1]

\* The spec as it will be held, or None.
Made(spec) == IF Sound(Filled(spec)) THEN <<Filled(spec)>> ELSE None

SpecFrom(e) == IF Readable(e) THEN Made(Parsed(e)) ELSE None

\* What yaml makes of an entry: a name with a number in it, a price that is a number.
WellTyped(e) ==
  /\ e.grade = None \/ e.grade[1].n \in Nat
  /\ \A i \in DOMAIN e.tiers : e.tiers[i].n \in Nat
  /\ \A price \in {e.input_cost, e.output_cost} : price = None \/ (price = <<price[1]>> /\ price[1] \in Int)

\* The fields of a ModelSpec, and what its types say of them.
SpecFields ==
  { "id", "provider", "provider_model", "deployment_id", "grade", "context_window", "recommended",
    "input_cost", "output_cost", "capabilities", "quality", "performance", "locality", "cost_class",
    "adapter", "transport", "runtime", "enabled", "trust_remote_code", "fallbacks", "tiers",
    "lifecycle", "approved_tiers" }

IsSpec(s) ==
  /\ s = [f \in SpecFields |-> s[f]]
  /\ s.grade = None \/ (s.grade = <<s.grade[1]>> /\ s.grade[1] \in 0 .. GRADE_COUNT - 1)
  /\ s.tiers \subseteq 0 .. TIER_COUNT - 1
  /\ \A price \in {s.input_cost, s.output_cost} : price = None \/ (price = <<price[1]>> /\ price[1] \in Int)

-----------------------------------------------------------------------------
\* What a spec answers

HasKnownApiPrice(spec) == spec.input_cost # None /\ spec.output_cost # None

ApiCostKnowledge(spec) ==
  IF ~HasKnownApiPrice(spec) THEN "unknown"
  ELSE IF spec.input_cost[1] = 0 /\ spec.output_cost[1] = 0 THEN "known_zero" ELSE "known_nonzero"

CostUsd(spec, prompt_tokens, completion_tokens) ==
  IF ~HasKnownApiPrice(spec) THEN None
  ELSE <<prompt_tokens * spec.input_cost[1] + completion_tokens * spec.output_cost[1]>>

\* One part of input to three of output, in quarters.
BlendedCost(spec) ==
  IF ~HasKnownApiPrice(spec) THEN None ELSE <<spec.input_cost[1] + 3 * spec.output_cost[1]>>

KeepsDataInHouse(spec) == spec.locality \in {"local", "private"}

PublicTier(spec) ==
  IF spec.tiers # {} THEN <<Max(spec.tiers)>>
  ELSE IF spec.grade # None THEN <<FromGrade(spec.grade[1])>> ELSE None

ServesTier(spec, tier) ==
  \/ tier \in spec.tiers
  \/ /\ spec.grade # None
     /\ FromGrade(spec.grade[1]) = tier \/ (tier = 30 /\ spec.grade[1] = 29)

ServesApprovedTier(spec, tier) ==
  IF tier = 30 THEN {29, 30} \intersect spec.approved_tiers # {} ELSE tier \in spec.approved_tiers

-----------------------------------------------------------------------------
\* ModelRegistry

Ids(specs) == {specs[i].id : i \in DOMAIN specs}
Spec(id) == CHOOSE s \in Range(models) : s.id = id

\* _validate_references
Resolves(specs, named) ==
  /\ \A i \in DOMAIN specs : \A f \in Range(specs[i].fallbacks) :
        f \in Ids(specs) /\ f # specs[i].id
  /\ \A a \in DOMAIN named :
        named[a].candidates # <<>> /\ Range(named[a].candidates) \subseteq Ids(specs)

NoDuplicates(specs) == Cardinality(Ids(specs)) = Len(specs)

\* A registry is what may stand together; of two aliases with one id the later stands.
Constructible(specs, named) ==
  /\ NoDuplicates(specs)
  /\ DOMAIN named \intersect Ids(specs) = {}
  /\ Resolves(specs, named)

AliasesFrom(list) ==
  FoldLeft(LAMBDA named, a :
             (a.id :> [ candidates |-> a.candidates, policy |-> a.policy,
                        requires |-> a.requires, minimum_grade |-> a.minimum_grade ]) @@ named,
           [a \in {} |-> None], SelectSeq(list, LAMBDA a : a.id # ""))

-----------------------------------------------------------------------------
\* RoutingConfig

RoutingFrom(raw) ==
  [ default_tier |-> raw.default_tier, max_tier |-> raw.max_tier,
    escalation |-> [enabled |-> raw.enabled, max_steps |-> OrElse(raw.max_steps, 3)],
    policies |-> raw.policies ]

\* RoutingConfig.validate, and what reading it refuses.
RoutingIsSound(config, specs) ==
  /\ config.escalation.max_steps >= 1
  /\ \A i \in DOMAIN config.policies : config.policies[i].models \subseteq Ids(specs)

PolicyFor(config, intent) ==
  LET found == {i \in DOMAIN config.policies : config.policies[i].intent = intent}
  IN  IF found = {} THEN None ELSE <<config.policies[Min(found)]>>

\* The policy of the intent, else of its domain; the label a caller gives counts
\* only where no classification has one.
PolicyForRequest(config, classified, label) ==
  LET known == classified # None /\ ~classified[1].abstain /\ classified[1].intent # "unknown"
      own == IF known THEN PolicyFor(config, classified[1].intent) ELSE None
      domain == IF known THEN PolicyFor(config, classified[1].domain) ELSE None
  IN  IF own # None THEN own ELSE IF domain # None THEN domain
      ELSE IF label # None THEN PolicyFor(config, label[1]) ELSE None

-----------------------------------------------------------------------------
\* The registry in use

Init ==
  /\ models = <<>> /\ aliases = [a \in {} |-> None]
  /\ routing = RoutingFrom([default_tier |-> None, max_tier |-> None, enabled |-> TRUE,
                            max_steps |-> None, policies |-> <<>>])
  /\ outcome = "empty"

Refuse(why) == outcome' = why /\ UNCHANGED <<models, aliases, routing>>

\* At start: from_mapping, then the routing policies validated against what came
\* of it
Load(entries, list, raw) ==
  /\ models = <<>>
  /\ LET specs == [i \in DOMAIN entries |-> SpecFrom(entries[i])]
         held == [i \in DOMAIN entries |-> specs[i][1]]
         named == AliasesFrom(list)
         config == RoutingFrom(raw)
     IN  IF /\ \A i \in DOMAIN specs : specs[i] # None
            /\ Constructible(held, named) /\ RoutingIsSound(config, held)
         THEN models' = held /\ aliases' = named /\ routing' = config /\ outcome' = "loaded"
         ELSE Refuse("configuration error")

Substituted(spec) == [i \in DOMAIN models |-> IF models[i].id = spec.id THEN spec ELSE models[i]]

\* In place: as promotion's overlay and remediation do.  A mistake keeps what
\* was refused.
Replaced_KeepsRefused(spec) == Substituted(spec)
Replaced(spec) == IF Resolves(Substituted(spec), aliases) THEN Substituted(spec) ELSE models

Replace(spec) ==
  IF spec.id \notin Ids(models) THEN Refuse("model not found")
  ELSE /\ models' = Replaced(spec)
       /\ outcome' = IF Resolves(Substituted(spec), aliases) THEN "replaced" ELSE "configuration error"
       /\ UNCHANGED <<aliases, routing>>

\* A registry of its own with one model substituted or added, put in use
ReplaceModel(spec) ==
  LET specs == IF spec.id \in Ids(models) THEN Substituted(spec) ELSE Append(models, spec)
  IN  IF Constructible(specs, aliases)
      THEN models' = specs /\ outcome' = "replaced" /\ UNCHANGED <<aliases, routing>>
      ELSE Refuse("configuration error")

\* The tiers filled in from the old grade stay.
Regrade(id, grade) ==
  IF id \notin Ids(models) THEN Refuse("model not found")
  ELSE LET spec == Made([Spec(id) EXCEPT !.grade = <<grade>>])
       IN  IF spec = None THEN Refuse("configuration error") ELSE ReplaceModel(spec[1])

Next ==
  \/ \E e \in Entries, l \in AliasLists, r \in RoutingBlocks : Load(e, l, r)
  \/ \E s \in Replacements : Replace(s) \/ ReplaceModel(s)
  \/ \E s \in Replacements, g \in NewGrades : Regrade(s.id, g)

Specification == Init /\ [][Next]_vars

-----------------------------------------------------------------------------
\* What is asked of it (the order of the answers, that of the file, decides nothing here)

Enabled == {s \in Range(models) : s.enabled}
ModelsServingTier(tier) == {s \in Enabled : ServesTier(s, tier)}
Known(id, tier) ==
  id \in Ids(models) \union DOMAIN aliases \/ (tier # None /\ ModelsServingTier(tier[1]) # {})
Graded(grade) == {s \in Enabled : s.grade = <<grade>>}
WithCapabilities(required) == {s \in Enabled : Satisfies(s.capabilities, required)}
InHouse == {s \in Enabled : KeepsDataInHouse(s)}
Cards == {s.id : s \in Enabled} \union DOMAIN aliases

-----------------------------------------------------------------------------
\* What the registry answers in two ways it answers alike: the blended price is the
\* price of one token in to three out, a price is unknown or zero for both; a model is
\* among those with some capabilities exactly when it misses none of them; what is
\* listed is known; and an abstention prefers no model, as if nobody had classified.
AnswersAgree ==
  LET intents == {routing.policies[i].intent : i \in DOMAIN routing.policies} \union {"unknown"}
      labels == {None} \union {<<i>> : i \in intents}
      classified == [abstain : BOOLEAN, intent : intents, domain : intents]
      preferred(c, label) == ToSet(PolicyForRequest(routing, c, label))
  IN  /\ \A s \in Enabled :
           /\ BlendedCost(s) = CostUsd(s, 1, 3)
           /\ (ApiCostKnowledge(s) = "known_zero") <=> (CostUsd(s, 1, 1) = <<0>>)
           /\ \A required \in SUBSET {"json_schema", "structured_output", "tools"} :
                s \in WithCapabilities(required) <=> MissingOf(s.capabilities, required) = {}
      /\ \A id \in Cards : Known(id, None)
      /\ \A c \in classified, label \in labels :
           /\ \A p \in preferred(<<c>>, label) : p.models \subseteq Ids(models)
           /\ c.abstain => preferred(<<c>>, label) = preferred(None, label)

\* Whatever is loaded, replaced, regraded or refused, and in whatever order, the
\* registry in use is one that could be built from nothing (registry.py:807-838):
\* every fallback, alias and preferred model is there to be routed to, no name
\* means two things, and filling in an entry a second time changes nothing, so
\* that the overlay and remediation alter only what they name.  A graded model is
\* found by its grade and by the tier of its grade, however often it moved.
RegistryStandsAlone ==
  /\ Constructible(models, aliases)
  /\ RoutingIsSound(routing, models)
  /\ \A i \in DOMAIN models : Made(models[i]) = <<models[i]>>
  /\ \A s \in Enabled : s.grade # None =>
       /\ s \in Graded(s.grade[1]) \intersect ModelsServingTier(FromGrade(s.grade[1]))
       /\ Known("", PublicTier(s))

=============================================================================
