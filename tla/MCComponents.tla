----------------------------- MODULE MCComponents -----------------------------
(***************************************************************************)
(* Values for the constants of Components, and the inputs and properties of *)
(* the components that are functions of what they are called with: each     *)
(* call names the component and what it is given.                            *)
(***************************************************************************)
EXTENDS Components

UpTo(n, S) == UNION {[1..k -> S] : k \in 0..n}
Maybe(S) == {<<>>} \union {<<x>> : x \in S}

-----------------------------------------------------------------------------
(* Intents 1 > 2 > 3 and 4; an evolution may add 5 under 4, retire 2 or hang 1 *)
(* below 3, which is refused.                                                *)

Classification == INSTANCE IntentClassifiers

Node(parent) == [parent |-> parent, status |-> "active", examples |-> 1, described |-> TRUE]

Intents == (1 :> Node(<<>>)) @@ (2 :> Node(<<1>>)) @@ (3 :> Node(<<2>>)) @@ (4 :> Node(<<>>))

Taxonomies ==
  UNION {{t[1] : t \in {Classification!Evolve(Intents, added, replaced, retired)} \ {<<>>}} :
           added \in {[i \in {} |-> 0], 5 :> Node(<<4>>)},
           replaced \in {[i \in {} |-> 0], 1 :> Node(<<3>>), 3 :> [Node(<<2>>) EXCEPT !.examples = 0]},
           retired \in {{}, {2}}}

Texts == {[blank |-> FALSE, injection |-> i, coercion |-> FALSE, remainder |-> r] :
            i \in BOOLEAN, r \in {5, 20}}

Plain == [blank |-> FALSE, injection |-> FALSE, coercion |-> FALSE, remainder |-> 20]

\* Near itself, near nothing, or held back by its hard negatives.
Similarities == [1..5 -> {[prototype |-> 60, hn |-> 0, cx |-> 0], [prototype |-> 5, hn |-> 0, cx |-> 0],
                          [prototype |-> 70, hn |-> 80, cx |-> 0]}]

Replies == Maybe({}) \union [abstain : BOOLEAN, intent : 0..5, alternatives : UpTo(2, {1, 2, 4, 9})]

RuleSet == [intent : {1, 2, 3, 4, 9}, weight : {10, 20}]

Shortlists == {<<>>, <<2, 4>>}

ClassifierCalls ==
  [of : {"rules"}, text : Texts, matched : UpTo(2, RuleSet), taxonomy : Taxonomies]
  \union [of : {"rules"}, text : {Plain}, matched : [1..3 -> RuleSet], taxonomy : {Intents}]
  \union [of : {"embeddings"}, sim : Similarities, taxonomy : Taxonomies]
  \union [of : {"rerank"}, sim : Similarities, shortlist : Shortlists, taxonomy : {Intents}]
  \union [of : {"model"}, reply : Replies, shortlist : Shortlists, taxonomy : Taxonomies]

Profiles ==
  [ complexity : {"trivial", "simple", "moderate", "complex", "very_complex"},
    reasoning_level : {"none", "moderate", "extended"}, context_class : {"short"},
    structured_output : {FALSE}, risk_class : {"high"}, agent_required : BOOLEAN ]

Prompts ==
  [constraints : {0, 1, 2, 4}, multi_step : BOOLEAN, fences : {0, 2}, chars : {30, 100}, json : {FALSE}]

Harder(p) ==
  {q \in Prompts : /\ q.constraints >= p.constraints /\ q.fences >= p.fences
                   /\ q.chars >= p.chars /\ (p.multi_step => q.multi_step)}

PromptCalls == [of : {"prompt"}, profile : Profiles, prompt : Prompts]

VerdictOf(c) ==
  CASE c.of = "rules"      -> Classification!ClassifyByRules(c.text, c.matched, c.taxonomy)
    [] c.of = "embeddings" -> Classification!ClassifyByEmbedding(Plain, c.sim, c.taxonomy, "mixed")
    [] c.of = "rerank"     -> Classification!ClassifyByRerank(Plain, c.sim, c.taxonomy, c.shortlist)
    [] c.of = "model"      -> Classification!ClassifyByModel(Plain, c.reply, c.taxonomy, c.shortlist)

-----------------------------------------------------------------------------
(* Conversations of up to three turns, with a memory or none, and windows that *)
(* hold all, some or nothing of it.                                          *)

Contexts == INSTANCE ContextCompiler

Said == {[words |-> "long", tokens |-> 30], [words |-> "some", tokens |-> 10], [words |-> "few", tokens |-> 5]}

Memory == [ id |-> 9, text |-> [words |-> "memory", tokens |-> 20], source |-> "memory", tenant |-> "t1",
            type |-> "long_term_memory", trust |-> "tenant", priority |-> "low",
            cacheability |-> "semi_stable" ]

ContextCalls ==
  [ of : {"context"}, messages : UpTo(3, [role : {"system", "user", "tool"}, text : Said]) \ {<<>>},
    extra : {<<>>, <<Memory>>}, window : Maybe({104}), max_tokens : Maybe({16}) ]

-----------------------------------------------------------------------------
(* A secret and a personal pattern of two characters, in up to three deltas.  *)

SecretPattern == <<"s", "k">>
PiiPattern == <<"1", "2">>
SmallLimits == [bytes |-> 1, tokens |-> 1, output |-> 1, documents |-> 3, corpus |-> 5, blocks |-> 3]

Guards == INSTANCE Guardrails
  WITH Secret <- SecretPattern, Pii <- PiiPattern, Holdback <- 2, MaxOutput <- 3,
       Limits <- SmallLimits

GuardCalls == [of : {"stream"}, deltas : UpTo(3, UpTo(2, {"s", "k", "1", "2"}))]

StageCalls ==
  [ of : {"stages"},
    documents : UpTo(3, [ tenant : Maybe({"t1", "t2"}), trust : {"tenant", "retrieved", "untrusted"},
                          role : {"system", "user"}, bytes : {1} ]) ]

-----------------------------------------------------------------------------
(* Examples with and without a label or an output, and gates of every kind.   *)

ExactMatch(metric, expected, output) == IF expected = <<output>> THEN <<100>> ELSE <<0>>

Supports ==
  [ deterministic |-> {"exact_match"}, judge |-> {"judge_score"}, classification |-> {"accuracy"},
    routing |-> {"route_match", "cost", "overpowered_rate", "underpowered_rate"} ]

Evaluations == INSTANCE Evaluation WITH Says <- ExactMatch, Supported <- Supports

EvaluationCalls ==
  [ of : {"release"},
    examples : UpTo(3, [id : {1}, expected : Maybe({"a"}), output : Maybe({"a", "b"})]),
    metric : {"exact_match", "new"},
    gate : [ metric : {"exact_match"}, higher : BOOLEAN, kind : Maybe({"regression"}),
             minimum : Maybe({50}), maximum : Maybe({60}), degradation : Maybe({0}), critical : {TRUE} ] ]

Deployments == [id : {"m1", "m2"}, cost : Maybe({1, 2}), grade : Maybe({3}), capabilities : {{}}]

PlanCalls ==
  [of : {"plan"}, plan : [selected : Maybe(Deployments), ranked : UpTo(2, Deployments), excluded : {{}}]]

-----------------------------------------------------------------------------
(* Answers of up to three chunks; the reason, and each half of the usage, come *)
(* with one of them or not at all; there may be comments and a [DONE].        *)

Providers == INSTANCE Adapters

Asked == [messages |-> <<[role |-> "user", size |-> 9]>>, max_tokens |-> <<>>]

\* `reason`, `prompt` and `completion` are the chunks they come with, 0 for none.
AnswerCalls ==
  [ of : {"answer"}, sizes : UpTo(3, {0, 3}) \ {<<>>}, reason : 0..3, prompt : 0..3, completion : 0..3,
    comment : BOOLEAN, done : BOOLEAN, status : {200, 429}, breaks : {"none"} ]

At(i, k, n) == IF i = k THEN <<n>> ELSE <<>>

Chunks(c) ==
  [ i \in DOMAIN c.sizes |->
      [ kind |-> "chunk",
        usage |-> [prompt |-> At(i, c.prompt, 7), completion |-> At(i, c.completion, 11)],
        choices |-> <<[size |-> c.sizes[i], reason |-> At(i, c.reason, "length")]>> ] ]

Total(sizes) == LET sum[i \in 0..Len(sizes)] == IF i = 0 THEN 0 ELSE sum[i - 1] + sizes[i] IN sum[Len(sizes)]

AsAWhole(c) ==
  [ failure |-> "none", status |-> c.status, message |-> "none",
    choices |-> <<[ size |-> Total(c.sizes),
                    reason |-> IF c.reason \in DOMAIN c.sizes THEN <<"length">> ELSE <<>> ]>>,
    usage |-> [ prompt |-> IF c.prompt \in DOMAIN c.sizes THEN <<7>> ELSE <<>>,
                completion |-> IF c.completion \in DOMAIN c.sizes THEN <<11>> ELSE <<>> ] ]

AsAStream(c) ==
  [ failure |-> "none", status |-> c.status, message |-> "none", breaks |-> c.breaks,
    lines |-> (IF c.comment THEN <<[kind |-> "comment"]>> ELSE <<>>) \o Chunks(c)
              \o (IF c.done THEN <<[kind |-> "done"], Chunks(c)[1]>> ELSE <<>>) ]

\* An answer of Anthropic: text blocks, the reason and the usage, which a stream gives
\* half at its start and half at its end, with pings between.
AnthropicCalls ==
  [ of : {"anthropic"}, sizes : UpTo(2, {0, 3, 5}), reason : Maybe({"end_turn", "max_tokens", "refusal"}),
    prompt : Maybe({7}), completion : Maybe({11}), status : {200, 401, 529} ]

UsageIn(c) == [prompt |-> c.prompt, completion |-> c.completion]

Blocks(c) ==
  [ failure |-> "none", status |-> c.status, message |-> "none",
    content |-> [i \in DOMAIN c.sizes |-> [type |-> "text", size |-> c.sizes[i]]] \o <<[type |-> "tool_use"]>>,
    stop_reason |-> c.reason, usage |-> UsageIn(c) ]

Events(c) ==
  [ failure |-> "none", status |-> c.status, message |-> "none", breaks |-> "none",
    lines |-> <<[kind |-> "message_start", usage |-> [UsageIn(c) EXCEPT !.completion = <<>>]]>>
              \o [i \in DOMAIN c.sizes |-> [kind |-> "content_block_delta", size |-> c.sizes[i]]]
              \o << [kind |-> "ping"],
                    [ kind |-> "message_delta", reason |-> c.reason,
                      usage |-> [UsageIn(c) EXCEPT !.prompt = <<>>] ] >> ]

MockCalls == [of : {"mock"}, words : UpTo(3, {0, 3}) \ {<<>>}, fails : BOOLEAN]

TurnCalls ==
  [of : {"turns"}, messages : UpTo(4, [role : {"system", "user", "assistant", "tool"}, size : {3}])]

-----------------------------------------------------------------------------
(* Two requests, one after the other or at once: the first may have failed over, *)
(* each may be answered with or without usage, fail or be cancelled.          *)

Meters == INSTANCE UsageReports WITH BufferSize <- 2

\* `at` is when its last attempt is over.
Ending(request, tenant, user, failedOver, end, at) ==
  LET Lost == [ id |-> <<request, 1>>, model |-> "m1", error |-> TRUE, depth |-> 0, prompt |-> 0,
                completion |-> 0, source |-> "UNAVAILABLE", cost |-> <<>>, completed |-> at - 2 ]
      good == end \in {"reported", "estimated"}
      Final == [ id |-> <<request, 2>>, model |-> "m2", error |-> end = "failed",
                depth |-> IF failedOver THEN 1 ELSE 0, prompt |-> IF good THEN 3 ELSE 0,
                completion |-> IF good THEN 4 ELSE 0, completed |-> at,
                source |-> CASE end = "reported" -> "PROVIDER_MEASURED"
                             [] end = "estimated" -> "LOCAL_TOKENIZER_ESTIMATE"
                             [] OTHER -> "UNAVAILABLE",
                cost |-> IF good THEN <<14>> ELSE <<>> ]
  IN  [ d |-> [ request |-> request, tenant |-> tenant, user |-> user,
                attempts |-> IF failedOver THEN <<Lost, Final>> ELSE <<Final>> ],
        seen |-> [ prompt |-> 3, completion |-> IF end = "failed" THEN 0 ELSE 4,
                   reported |-> end = "reported", price |-> <<2>>,
                   error |-> IF good THEN <<>> ELSE <<end>> ] ]

Endings == {"reported", "estimated", "failed", "cancelled"}

UsageCalls ==
  [ of : {"usage"},
    metered : { <<Ending("r1", "t1", <<"u1">>, f, e, 5), Ending("r2", t, u, g, h, at)>> :
                  f \in BOOLEAN, g \in BOOLEAN, e \in Endings, h \in Endings, t \in {"t1", "t2"},
                  u \in Maybe({"u1"}), at \in {6, 9} } ]

-----------------------------------------------------------------------------
(* Two workloads of one kind or of two, answered rightly, wrongly or not at all. *)

Trials == INSTANCE ModelTrials

Workload(category, expected, object) == [category |-> category, expected |-> expected, object |-> object]

Objects == {[k \in {} |-> 1], [k \in {"x"} |-> 1]} \union {[k \in {"x", "y"} |-> n] : n \in 1..2}
Evidence == [words : SUBSET {"4", "5"}, json : {<<>>}] \union [words : {{}}, json : {<<o>> : o \in Objects}]

Workloads ==
  {Workload(c, <<"4">>, <<>>) : c \in {"math", "coding", "summarization", "reasoning", "long_context"}}
  \union {Workload("math", <<>>, <<>>), Workload("summarization", <<"">>, <<>>)}
  \union {Workload("structured_extraction", <<>>, o) : o \in Objects}

TrialCalls ==
  [ of : {"trial"}, cases : [1..2 -> Workloads],
    answers : [1..2 -> Maybe(Evidence)] ]

-----------------------------------------------------------------------------
(* For the start: identity settings of every kind, storage settings of every kind, *)
(* and worlds in which something is down, behind or missing.                  *)

Sound ==
  [ environment |-> <<"production">>, auth_mode |-> <<>>, oidc_issuer |-> TRUE, oidc_audience |-> TRUE,
    dev_auth_secret |-> FALSE, api_credentials |-> FALSE, api_keys |-> "none", allow_anonymous |-> FALSE,
    allow_unsafe_multiworker |-> FALSE, wildcard_cors |-> FALSE, database_url |-> "postgresql",
    redis_url |-> TRUE, intent_embedder |-> "local", intent_allow_hashing_embedder |-> FALSE,
    workers |-> <<>>, max_attempts |-> 3, litellm_num_retries |-> 0,
    tenant_limits |-> [x \in {"requests_per_minute"} |-> <<10>>], user_limits |-> [x \in {} |-> <<>>],
    breaker_max_concurrency |-> <<>>, otlp_endpoint |-> FALSE ]

Identities ==
  { [Sound EXCEPT !.environment = e, !.auth_mode = m, !.oidc_issuer = i, !.oidc_audience = a,
                  !.dev_auth_secret = d, !.api_keys = k, !.allow_anonymous = n] :
      e \in {<<"production">>, <<"development">>, <<>>},
      m \in {<<>>, <<"api_key">>, <<"disabled">>, <<"dev">>}, i \in BOOLEAN, a \in BOOLEAN,
      d \in BOOLEAN, k \in {"none", "long", "short"}, n \in BOOLEAN }

Storages ==
  { [Sound EXCEPT !.environment = e, !.database_url = d, !.redis_url = r, !.workers = w,
                  !.allow_unsafe_multiworker = u, !.intent_embedder = m, !.max_attempts = t,
                  !.litellm_num_retries = 1] :
      e \in {<<"production">>, <<"test">>}, d \in {"none", "sqlite", "postgresql"}, r \in BOOLEAN,
      w \in {<<>>, <<2>>}, u \in BOOLEAN, m \in {"hashing", "local"}, t \in {3, 5} }

MCConfigurations == Identities \union Storages

Fine ==
  [ database |-> TRUE, redis |-> TRUE, schema |-> "head", identity |-> TRUE, embedder |-> TRUE,
    files |-> {"registry", "routing", "promotion"}, role_bypasses_rls |-> FALSE,
    role_has_ddl |-> FALSE, inference |-> TRUE, telemetry |-> TRUE ]

MCWorlds ==
  { Fine, [Fine EXCEPT !.database = FALSE], [Fine EXCEPT !.redis = FALSE],
    [Fine EXCEPT !.schema = "behind"], [Fine EXCEPT !.identity = FALSE, !.embedder = FALSE],
    [Fine EXCEPT !.files = {"registry"}, !.role_bypasses_rls = TRUE] }

-----------------------------------------------------------------------------
MCFunctionCalls == ClassifierCalls \union PromptCalls \union ContextCalls \union GuardCalls \union EvaluationCalls
  \union PlanCalls \union AnswerCalls
  \union AnthropicCalls \union MockCalls \union StageCalls \union TurnCalls \union UsageCalls \union TrialCalls

-----------------------------------------------------------------------------
\* The planner: three deployments that differ in what it may weigh or require

CONSTANTS d1, d2, d3

MCModelIds == <<d1, d2, d3>>

Base(id) ==
  [ id |-> id, enabled |-> TRUE, lifecycle |-> "approved", commercial_use |-> NONE,
    provider |-> "ollama", locality |-> "local", grade |-> 10, tiers |-> {10},
    capabilities |-> {"chat"}, context |-> NONE, fallbacks |-> <<>>,
    price |-> NONE, quality |-> NONE, latency_ms |-> NONE, observed_ms |-> NONE,
    health_score |-> NONE, identity_match |-> TRUE, evidence_bound |-> TRUE,
    approved_tiers |-> {}, approved_workloads |-> <<>> ]

\* A small local model; a private one of the last grade; an external one.
VariantsA ==
  { [Base(d1) EXCEPT !.fallbacks = <<d3, d2>>, !.price = p, !.lifecycle = l,
                    !.health_score = IF l = "approved" THEN 9 ELSE NONE] :
      p \in {NONE, 0}, l \in {"evaluated", "approved"} }
    \ {[Base(d1) EXCEPT !.fallbacks = <<d3, d2>>, !.lifecycle = "evaluated"]}
VariantsB ==
  { [Base(d2) EXCEPT !.grade = 29, !.tiers = {29}, !.locality = "private", !.provider = "vllm", !.price = p,
                    !.capabilities = {"chat", "json_schema"}, !.health_score = 4,
                    !.evidence_bound = e, !.approved_tiers = {29},
                    !.approved_workloads = [coding |-> {29, 30}]] :
      p \in {NONE, 2}, e \in BOOLEAN }
VariantsC ==
  { [Base(d3) EXCEPT !.grade = gq[1], !.tiers = {10, 28}, !.locality = "external",
                    !.fallbacks = <<d1>>,
                    !.provider = "openai", !.price = 5, !.quality = gq[2], !.latency_ms = 3,
                    !.capabilities = {"chat", "vision"}, !.context = 8, !.health_score = 7,
                    !.commercial_use = (gq[1] = 28),
                    !.identity_match = (gq[2] = 29)] :
      gq \in {<<NONE, NONE>>, <<28, 29>>, <<28, NONE>>} }

MCRegistries ==
  { (d1 :> x) @@ (d2 :> y) @@ (d3 :> z) : x \in VariantsA, y \in VariantsB, z \in VariantsC }

MCAliases ==
  [ auto |-> [candidates |-> <<d3, d1, d2>>, policy |-> "cost_first", requires |-> {},
              minimum_grade |-> {}],
    best |-> [candidates |-> <<d1, d2, d3>>, policy |-> NONE, requires |-> {"chat"},
              minimum_grade |-> {}] ]

MCIntentPolicies ==
  [ coding |-> [tiers |-> {28}, models |-> {d2}, required_capabilities |-> {"structured_output"},
                max_tier |-> {30}],
    quick  |-> [tiers |-> {10}, models |-> {}, required_capabilities |-> {}, max_tier |-> {}] ]

Coding == [id |-> "coding", abstain |-> FALSE, optimized |-> TRUE, capabilities |-> {"vision"},
           quality |-> "maximum", latency |-> "any", cost |-> "any"]
Vague  == [Coding EXCEPT !.abstain = TRUE, !.optimized = FALSE]

Ask(model) ==
  [ requested_model |-> model, tier |-> {}, intent |-> NONE, intent_id |-> NONE, policy |-> NONE,
    required_capabilities |-> {}, minimum_grade |-> {}, maximum_grade |-> {},
    tokens |-> 1, budget |-> {}, latency_slo |-> {} ]

MCModes ==
  { [require_approved |-> r, pin_requires_approved |-> r, commercial_use_required |-> r] :
      r \in BOOLEAN }

MCRequests ==
  { Ask("auto"), Ask("best"), Ask(d1), [Ask(NONE) EXCEPT !.tier = {30}], [Ask(NONE) EXCEPT !.tier = {10}],
    [Ask("best") EXCEPT !.intent = Coding], [Ask("auto") EXCEPT !.intent = Vague],
    [Ask("auto") EXCEPT !.intent_id = "quick", !.tokens = 9],
    [Ask("best") EXCEPT !.intent_id = "coding", !.minimum_grade = {11}],
    [Ask("best") EXCEPT !.policy = "latency_first", !.budget = {2}, !.latency_slo = {2}],
    [Ask("best") EXCEPT !.required_capabilities = {"structured_output"}],
    [Ask("auto") EXCEPT !.policy = "local_only"] }

NoTenant ==
  [ policy |-> NONE, allowed_localities |-> {}, allowed_providers |-> {}, denied_models |-> {},
    minimum_grade |-> {}, maximum_grade |-> {}, max_cost |-> {}, require_in_house |-> FALSE ]

MCTenants ==
  { NoTenant,
    [NoTenant EXCEPT !.require_in_house = TRUE, !.allowed_localities = {{"local", "external"}}],
    [NoTenant EXCEPT !.allowed_providers = {"vllm", "openai"}, !.policy = "balanced"],
    [NoTenant EXCEPT !.denied_models = {d2}, !.maximum_grade = {28}, !.max_cost = {4}] }

-----------------------------------------------------------------------------
\* The other components: values that need no instance

Context(conversation) ==
  [taxonomy |-> 1, classifier |-> 1, policy |-> "v1", language |-> "en", conversation |-> conversation]

MCArrivals ==
  { [tenant |-> "t1", prompt |-> "p1", context |-> Context("a")],
    [tenant |-> "t1", prompt |-> "p2", context |-> Context("a")],
    [tenant |-> "t1", prompt |-> "p1", context |-> Context("b")],
    [tenant |-> "t2", prompt |-> "p1", context |-> Context("a")] }

MCVerdicts ==
  { [intent |-> <<>>, confidence |-> 0, runner_up |-> 0], [intent |-> <<1>>, confidence |-> 85, runner_up |-> 0] }

MCCosine == [pair \in {"p1", "p2"} \X {"p1", "p2"} |-> IF pair[1] = pair[2] THEN 100 ELSE 95]

MCCachePolicies == [n \in {"intent"} |-> [ttl |-> 1, max |-> 1, enabled |-> TRUE]]
MCCacheTTLs == Maybe({0})

MCTokens ==
  { [kid |-> <<"k1">>, signer |-> "k1", exp |-> 2, id |-> 1, tenant |-> "a", delegates |-> FALSE],
    [kid |-> <<>>, signer |-> "k2", exp |-> 2, id |-> 2, tenant |-> "b", delegates |-> TRUE] }

MCAnswers ==
  { [status |-> 200, error |-> <<>>, retry_after |-> <<>>],
    [status |-> 429, error |-> <<"quota_exceeded">>, retry_after |-> <<1>>],
    [status |-> 503, error |-> <<"no_candidate">>, retry_after |-> <<>>],
    [status |-> 400, error |-> <<"invalid_request_error">>, retry_after |-> <<>>],
    [status |-> 404, error |-> <<"model_not_found">>, retry_after |-> <<>>] }

-----------------------------------------------------------------------------
\* Values of the constants, from instances that do not depend on them

Analysis == INSTANCE Drift WITH MinSamples <- 2, UNKNOWN <- <<"unknown">>

Parser == INSTANCE Registry
  WITH Entries <- {}, AliasLists <- {}, RoutingBlocks <- {}, Replacements <- {}, NewGrades <- {}

\* Files of one or two models, whose entries are wrong or odd in one way each.
NoFields == [x \in {} |-> <<>>]

OfFamily(family, pooled) ==
  <<[family |-> family, pooled |-> pooled, marked |-> FALSE, plain |-> TRUE]>>

PlainEntry ==
  [ id |-> <<"a">>, provider |-> OfFamily("openai", FALSE), blocks |-> TRUE, grade |-> <<>>,
    tiers |-> <<>>, context_window |-> <<>>, recommended |-> <<>>, input_cost |-> <<>>,
    output_cost |-> <<>>, cost_class |-> <<>>, lifecycle |-> <<>>, locality |-> <<>>,
    transport |-> <<>>, runtime |-> <<>>, commercial_use |-> <<>>, quality |-> NoFields,
    performance |-> NoFields, flat |-> NoFields, capabilities |-> {"json_schema"},
    provider_model |-> <<>>, deployment_id |-> <<>>, adapter |-> "", enabled |-> <<>>,
    trust_remote_code |-> <<>>, fallbacks |-> <<>> ]

L30 == [form |-> "L", n |-> 30]
Digits(n) == <<[form |-> "digits", n |-> n]>>

OfA ==
  { PlainEntry,
    \* grades and tiers, spelled every way
    [PlainEntry EXCEPT !.grade = <<L30>>], [PlainEntry EXCEPT !.tiers = <<L30>>], [PlainEntry EXCEPT !.grade = Digits(30)],
    [PlainEntry EXCEPT !.enabled = <<"off">>, !.grade = <<[form |-> "Grade", n |-> 5]>>],
    \* fallbacks to another and to itself
    [PlainEntry EXCEPT !.fallbacks = <<"b">>], [PlainEntry EXCEPT !.fallbacks = <<"a">>],
    \* families, transports and runtimes
    [PlainEntry EXCEPT !.provider = OfFamily("litellm", TRUE), !.runtime = <<"ollama">>],
    [PlainEntry EXCEPT !.provider = OfFamily("ollama", FALSE), !.adapter = "litellm"],
    [PlainEntry EXCEPT !.provider = OfFamily("vllm", FALSE), !.transport = <<"litellm">>],
    \* windows, flags, blocks beside flat values, prices
    [PlainEntry EXCEPT !.context_window = <<0>>, !.recommended = <<8>>],
    [PlainEntry EXCEPT !.context_window = <<4>>, !.recommended = <<8>>],
    [PlainEntry EXCEPT !.trust_remote_code = <<"text">>],
    [PlainEntry EXCEPT !.quality = "coding" :> <<Parser!NULL>>,
                 !.flat = ("coding" :> <<90>>) @@ ("p50_ttft_ms" :> <<5>>),
                 !.performance = "p50_ttft_ms" :> <<Parser!NULL>>],
    [PlainEntry EXCEPT !.input_cost = <<Parser!Malformed>>], [PlainEntry EXCEPT !.input_cost = <<-1>>] }

OfB == {[PlainEntry EXCEPT !.id = <<"b">>, !.grade = Digits(3), !.fallbacks = f] : f \in {<<>>, <<"a">>}}

MCEntries ==
  {<<a>> : a \in OfA} \union {<<a, b>> : a \in OfA, b \in OfB} \union {<<b, b>> : b \in OfB}

AliasTo(id, candidates) ==
  [id |-> id, candidates |-> candidates, policy |-> <<>>, requires |-> {}, minimum_grade |-> <<>>]

MCAliasLists ==
  { <<>>, <<AliasTo("auto", <<"a", "b">>)>>, <<AliasTo("b", <<"a">>)>>,
    <<AliasTo("auto", <<"a">>), AliasTo("auto", <<>>)>>, <<AliasTo("auto", <<>>), AliasTo("auto", <<"a">>)>> }

RoutingBlock(preferred, steps) ==
  [ default_tier |-> <<>>, max_tier |-> <<>>, enabled |-> TRUE, max_steps |-> steps,
    policies |-> <<[intent |-> "i", models |-> preferred, tiers |-> <<>>]>> ]

MCRoutingBlocks == {RoutingBlock({}, <<>>), RoutingBlock({"b"}, <<>>), RoutingBlock({"a"}, <<0>>)}

MCReplacements ==
  UNION {{Parser!SpecFrom(e)[1] : e \in {x \in OfA \union OfB : Parser!SpecFrom(x) # <<>>}},
         {[Parser!SpecFrom(b)[1] EXCEPT !.fallbacks = <<"c">>] : b \in OfB}}

\* Healthy, failing with enough samples or one short of it, and already open.
MCSnapshots ==
  { [samples |-> 0, error_rate |-> <<>>, health_score |-> <<>>, circuit_open |-> FALSE],
    [samples |-> 9, error_rate |-> <<60, 100>>, health_score |-> <<0, 1>>, circuit_open |-> FALSE],
    [samples |-> 10, error_rate |-> <<50, 100>>, health_score |-> <<30, 1>>, circuit_open |-> FALSE] }

Row(error, latency, intent, confidence, layer, cost, model) ==
  [ error |-> error, failovers |-> IF error THEN 1 ELSE 0, latency |-> latency, intent |-> intent,
    confidence |-> confidence, layer |-> layer, cost |-> cost, served |-> model ]

Rows ==
  { Row(FALSE, 100, <<"a">>, <<90>>, "rules", <<10>>, "m1"), Row(TRUE, 100, <<"a">>, <<70>>, "rules", <<>>, "m2"),
    Row(FALSE, 300, <<"unknown">>, <<>>, "embedding", <<20>>, "m1"), Row(FALSE, 0, <<>>, <<>>, <<>>, <<>>, "m2") }

\* What analyses find of buffers whose older and newer halves differ, of one too short
\* to be cut, and of evaluations alone.
MCReports ==
  {Analysis!Analyze(<<x, x, y, y>>, <<>>, <<>>) : x \in Rows, y \in Rows}
  \union {Analysis!Analyze(<<>>, <<>>, <<[x |-> <<80>>], [x |-> q]>>) : q \in Maybe({50, 75})}
  \union {Analysis!Analyze(<<x, x, x>>, <<>>, <<>>) : x \in Rows}

-----------------------------------------------------------------------------
\* Properties of the functions

Specific(said, c) ==
  /\ Classification!StaysInTaxonomy(said, c.taxonomy)
  /\ c.of = "rules" => Classification!MostSpecific(said, c.matched, c.taxonomy)

\* Every classifier names live intents only, rules the most specific, and a prompt that
\* asks for more is not classified as less (intent).
VerdictsAreSpecific ==
  /\ asked.of \in {"rules", "embeddings", "rerank", "model"} => Specific(VerdictOf(asked), asked)
  /\ asked.of = "prompt" =>
       \A harder \in Harder(asked.prompt) :
         Classification!MoreIsNotLess(asked.profile, asked.prompt, harder)

\* A compiled context fits its window and accounts for its tokens (context).
FitsAndAccounts ==
  asked.of = "context" =>
    Contexts!FitsAndAccounts("t1", asked.messages, asked.extra, asked.window, asked.max_tokens)

\* However an answer is cut into deltas, no secret leaves and nothing is lost, and no
\* stage passes what the next must refuse (guardrails).
StreamsAreWhole ==
  /\ asked.of = "stream" => Guards!StreamsAreWhole(asked.deltas)
  /\ asked.of = "stages" => Guards!StagesRefuse(asked.documents, "t1")

\* Gates pass on measured values only, regrets are real, ranks are earned (evaluation,
\* models/eval.py).
ReleasesAreMeasured ==
  /\ asked.of = "release" =>
       /\ Evaluations!ReleasesAreMeasured(asked.examples, asked.metric, asked.gate)
       /\ \A score \in {<<>>, <<90>>, <<190>>} :
            Evaluations!UnavailableIsNotReleased(asked.examples, {asked.metric, "judge_score"},
                                                 [id \in {1} |-> score], asked.gate)
  /\ asked.of = "plan" =>
       /\ Evaluations!RegretMeansOverrouting(asked.plan)
       /\ \A id \in {"m1", "m2"}, grade \in Maybe({2, 4}) : Evaluations!ReportsAgree(asked.plan, id, grade)
  /\ asked.of = "trial" => Trials!RanksAreEarned(asked.cases, asked.answers)

\* What can be had in two ways is worth the same either way: an answer at once or as a
\* stream (serving/adapters), a report of usage from memory or from the ledger
\* (observability/metering.py).
EitherWayAgrees ==
  /\ asked.of = "usage" => Meters!MetersAgree(asked.metered, Maybe({"t1", "t2"}), Maybe({"u1"}))
  /\ asked.of = "answer" =>
       Providers!StreamAgrees(AsAWhole(asked).usage, Providers!GenerateOpenAI(Asked, AsAWhole(asked)),
                              Providers!StreamOpenAI(Asked, AsAStream(asked)))
  /\ asked.of = "anthropic" =>
       Providers!StreamAgrees(UsageIn(asked), Providers!GenerateAnthropic(Asked, Blocks(asked)),
                              Providers!StreamAnthropic(Asked, Events(asked)))
  /\ asked.of = "mock" =>
       Providers!StreamAgrees([prompt |-> <<>>, completion |-> <<>>],
                              Providers!GenerateMock(Asked, asked.fails, Total(asked.words)),
                              Providers!StreamMock(Asked, asked.fails, asked.words))
  /\ asked.of = "turns" =>
       Providers!TurnsAlternate([messages |-> asked.messages, max_tokens |-> <<>>])
=============================================================================
