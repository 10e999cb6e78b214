------------------------------ MODULE Components ------------------------------
(***************************************************************************)
(* One instance of each component that shares no state with another: a     *)
(* behaviour is about one of them, the focus, while the others stay in an  *)
(* initial state.  The planner is the module itself; the functions, whose     *)
(* modules keep no state, are called once, with one of FunctionCalls.         *)
(***************************************************************************)
EXTENDS RoutePlanner, FiniteSets

VARIABLE focus

Focuses == { "planner", "remedies", "prompts", "cascade", "stores", "cache", "identity",
             "benchmark", "registry", "startup", "client", "functions" }

-----------------------------------------------------------------------------
\* Instances: constants first, the large ones through the configuration

CONSTANTS Snapshots, Reports, RegistryEntries, AliasLists, RoutingBlocks, Replacements,
          Configurations, Worlds,
          Models, Targets, ForbiddenTargets, Versions, Classifiers, MaxPins,
          Prompters, Arrivals, Cosine, Verdicts, Paid, Capacity, ExactTTL, SemanticTTL, MaxDecisions,
          CascadeTime,
          Callers, SignedTokens, KeySets, CacheSeconds, MinInterval, Leeway, FailClosed, DefaultTTL,
          MaxDenied, IdentityTime,
          Processes, PerProcess, Interval, WarmupTime, Duration, LateBound, MaxErrorRate, MaxRequests,
          BenchTime,
          MaxRetries, Answers, ClientTime,
          CacheWorkers, CacheTenants, Namespaces, Parts, Payloads, CachePolicies, CacheTTLs,
          CacheTime, MaxPuts,
          StoreTenants, StoreKeys, StoreBodies, MaxRecords, MaxWrites,
          FunctionCalls

VARIABLES health, held, excluded, ceiling, pins, serving, cached, recorded, prompts, restoring

\* A snapshot counts its samples (router/health.py); versions of a prompt count from 1
\* without a gap (storage/repositories.py).
ASSUME HealingAssumption ==
  /\ Snapshots \subseteq [samples : Nat, error_rate : Seq(Nat), health_score : Seq(Int),
                          circuit_open : BOOLEAN]
  /\ Versions = 1..Cardinality(Versions) /\ IsFiniteSet(Versions)

Healing == INSTANCE Healing
  WITH MinSamples <- 2, UNKNOWN <- <<"unknown">>

\* What an answer depends on besides the prompt are these five (intent/cache.py); a
\* similarity and the settings of the caches are numbers.
ASSUME CascadeAssumption ==
  /\ \A a \in Arrivals :
       a.context = [ taxonomy |-> a.context.taxonomy, classifier |-> a.context.classifier,
                     policy |-> a.context.policy, language |-> a.context.language,
                     conversation |-> a.context.conversation ]
  /\ \A a, b \in Arrivals : Cosine[<<a.prompt, b.prompt>>] \in Int
  /\ Capacity \in Nat /\ {ExactTTL, SemanticTTL} \subseteq Int

VARIABLES cascadeNow, exact, semantic, cascadeRequest, examples, counters, given

Cascade == INSTANCE IntentCascade
  WITH Requests <- Prompters, MaxTime <- CascadeTime, now <- cascadeNow, request <- cascadeRequest

VARIABLES bucket, rows, clock, flagged, backup, restored

\* max_records_per_tenant (tenancy/store.py).
ASSUME StoresAssumption == MaxRecords \in Nat \ {0}

Stores == INSTANCE TenantStores
  WITH Tenants <- StoreTenants, Keys <- StoreKeys, Bodies <- StoreBodies

VARIABLES shared, cacheNow, local, redis, puts, answer

\* A bucket may hold a number of entries; times to live are in ticks of the clock
\* (tenancy/cache.py).
ASSUME CacheAssumption ==
  /\ \A n \in Namespaces : CachePolicies[n].max \in Nat /\ CachePolicies[n].ttl \in Int
  /\ CacheTTLs \subseteq Seq(Int)

Cache == INSTANCE TenantCache
  WITH Workers <- CacheWorkers, Tenants <- CacheTenants, Policies <- CachePolicies, TTLs <- CacheTTLs,
       MaxTime <- CacheTime, now <- cacheNow

VARIABLES idNow, published, keys, fetched, attempt, holder, denied, idRequest, accepted

\* oidc.py takes its times in seconds, none below 0.
ASSUME IdentityAssumption == {CacheSeconds, MinInterval, Leeway, DefaultTTL} \subseteq Nat

Identity == INSTANCE Identity
  WITH Requests <- Callers, Tokens <- SignedTokens, MaxTime <- IdentityTime, now <- idNow, request <- idRequest

\* Connections are shared out among the processes there are, and spread within an
\* interval (bench/load.py).
ASSUME BenchmarkAssumption ==
  /\ IsFiniteSet(Processes) /\ PerProcess \in Nat \ {0}
  /\ {Interval, WarmupTime, Duration, LateBound} \subseteq Nat

VARIABLES benchNow, benchMode, conn, part, process, verdict

Benchmark == INSTANCE Benchmark
  WITH Warmup <- WarmupTime, MaxTime <- BenchTime, now <- benchNow, mode <- benchMode

VARIABLES models, aliases, routing, outcome

Registry == INSTANCE Registry WITH Entries <- RegistryEntries, NewGrades <- {3, 29}

\* A file lists its models in some order; a name may have a number in it, and a price is a
\* number.  What replaces a model went through the checks of every spec (registry.py).
ASSUME RegistryAssumption ==
  /\ \A list \in RegistryEntries :
       /\ list \in Seq({list[i] : i \in DOMAIN list})
       /\ \A i \in DOMAIN list : Registry!WellTyped(list[i])
  /\ \A raw \in RoutingBlocks : raw.policies \in Seq({raw.policies[i] : i \in DOMAIN raw.policies})
  /\ \A s \in Replacements : Registry!IsSpec(s) /\ Registry!Made(s) = <<s>>

VARIABLES settings, world, phase, gateway, closed

\* auth_mode is an AuthMode, or not set (config.py).
ASSUME StartupAssumption ==
  \A s \in Configurations : s.auth_mode \in {<<>>, <<"oidc">>, <<"dev">>, <<"api_key">>, <<"disabled">>}

Startup == INSTANCE Startup

VARIABLES call, heard, onTheWay, served, clientNow

ASSUME ClientAssumption ==
  /\ MaxRetries \in Nat
  /\ Answers \subseteq [status : Nat, error : Seq(STRING), retry_after : Seq(Int)]

Client == INSTANCE Client WITH MaxTime <- ClientTime, now <- clientNow

VARIABLE asked   \* what a function was called with

-----------------------------------------------------------------------------
\* The composition

healing == <<health, held, excluded, ceiling, pins, serving, cached, recorded, prompts, restoring>>
cascade == <<cascadeNow, exact, semantic, cascadeRequest, examples, counters, given>>
stores == <<bucket, rows, clock, flagged, backup, restored>>
cache == <<shared, cacheNow, local, redis, puts, answer>>
identity == <<idNow, published, keys, fetched, attempt, holder, denied, idRequest, accepted>>
benchmark == <<benchNow, benchMode, conn, part, process, verdict>>
catalog == <<models, aliases, routing, outcome>>
startup == <<settings, world, phase, gateway, closed>>
client == <<call, heard, onTheWay, served, clientNow>>

Either(S) == CHOOSE x \in S : TRUE

\* The constraint on the initial states of a component that is not the focus, first.
Unless(of, rest) == IF focus = of THEN TRUE ELSE rest

InitAll ==
  /\ focus \in Focuses
  /\ Unless("planner", registry = Either(Registries) /\ mode = Either(Modes)) /\ Init
  /\ Unless("startup", settings = Either(Configurations) /\ world = Either(Worlds)) /\ Startup!Init
  /\ Unless("cache", shared = FALSE) /\ Cache!Init
  /\ Unless("identity", published = {}) /\ Identity!Init
  /\ Unless("benchmark", benchMode = "open") /\ Benchmark!Init
  /\ Healing!Init
  /\ Unless("remedies", pins = <<>> /\ \A m \in Models : health[m].samples = 0)
  /\ Cascade!Init /\ Stores!Init /\ Registry!Init /\ Client!Init
  /\ IF focus = "functions" THEN asked \in FunctionCalls ELSE asked = [of |-> "nothing"]

NextAll ==
  \/ /\ focus = "planner" /\ Next
     /\ UNCHANGED <<focus, asked, healing, cascade, stores, cache, identity, benchmark, catalog, startup, client>>
  \/ /\ \/ focus = "remedies" /\ Healing!Remedies
        \/ focus = "prompts" /\ Healing!PromptSteps
     /\ UNCHANGED <<focus, asked, vars, cascade, stores, cache, identity, benchmark, catalog, startup, client>>
  \/ /\ focus = "cascade" /\ Cascade!Next
     /\ UNCHANGED <<focus, asked, vars, healing, stores, cache, identity, benchmark, catalog, startup, client>>
  \/ /\ focus = "stores" /\ Stores!Next
     /\ UNCHANGED <<focus, asked, vars, healing, cascade, cache, identity, benchmark, catalog, startup, client>>
  \/ /\ focus = "cache" /\ Cache!Next
     /\ UNCHANGED <<focus, asked, vars, healing, cascade, stores, identity, benchmark, catalog, startup, client>>
  \/ /\ focus = "identity" /\ Identity!Next
     /\ UNCHANGED <<focus, asked, vars, healing, cascade, stores, cache, benchmark, catalog, startup, client>>
  \/ /\ focus = "benchmark" /\ Benchmark!Next
     /\ UNCHANGED <<focus, asked, vars, healing, cascade, stores, cache, identity, catalog, startup, client>>
  \/ /\ focus = "registry" /\ Registry!Next
     /\ UNCHANGED <<focus, asked, vars, healing, cascade, stores, cache, identity, benchmark, startup, client>>
  \/ /\ focus = "startup" /\ Startup!Next
     /\ UNCHANGED <<focus, asked, vars, healing, cascade, stores, cache, identity, benchmark, catalog, client>>
  \/ /\ focus = "client" /\ Client!Next
     /\ UNCHANGED <<focus, asked, vars, healing, cascade, stores, cache, identity, benchmark, catalog, startup>>

all == <<focus, asked, vars, healing, cascade, stores, cache, identity, benchmark, catalog, startup, client>>

SpecAll == InitAll /\ [][NextAll]_all

-----------------------------------------------------------------------------
\* Properties, as their modules state them

\* No tick of the healing loop does what needs a person (heal/policies.py).
AutomationIsBounded == [][focus = "remedies" => Healing!TicksStayBounded]_healing

\* A rollback of a prompt serves an older version again (heal/remediate.py).
RollbackServesOlder == [][Healing!ServesOlder]_healing

\* The intent caches repeat only answers of layers (intent/cascade.py).
CachedAnswersWereGiven == Cascade!CachedAnswersWereGiven

\* Memory and PostgreSQL hold the same records (tenancy/store.py, storage/postgres.py).
StoresAgree == focus = "stores" => Stores!StoresAgree

\* A hit of the tenant cache is the tenant's own and in its time (tenancy/cache.py).
HitsAreFresh == Cache!HitsAreFresh

\* An accepted token is one the provider vouches for (identity).
AcceptedIsVouched == Identity!AcceptedIsVouched

\* A benchmark that passes has offered its load (bench/load.py).
PassingWasOffered == Benchmark!PassingWasOffered

\* The registry in use could be built from nothing, and does not contradict itself
\* (router/registry.py, router/intent_routing.py).
RegistryStandsAlone == focus = "registry" => Registry!RegistryStandsAlone /\ Registry!AnswersAgree

\* What serves in production is guarded (config.py, gateway/app.py).
ProductionIsGuarded == focus = "startup" => Startup!ProductionIsGuarded

\* What the start refuses, the doctor reports (doctor.py).
DoctorForetells == focus = "startup" => Startup!DoctorForetells

\* The client repeats only what may be repeated (myvista).
RepeatsAreJustified == Client!RepeatsAreJustified
=============================================================================
