-------------------------------- MODULE Startup --------------------------------
(***************************************************************************)
(* How a gateway comes up: the settings and what they come to (config.py),  *)
(* the checks before the port is bound (runtime.py, storage/runtime.py,     *)
(* __main__.py), what create_app builds, its lifespan (gateway/app.py), and  *)
(* what the doctor reports of the same settings (doctor.py).                *)
(*                                                                         *)
(* The checks run up to three times - in the command, in create_app, in the *)
(* lifespan - and the world moves on between them.  It is the state of what *)
(* the gateway depends on: is it up, is the schema at the head of this      *)
(* build, which files are in order.  Settings are set (TRUE, or a value in an *)
(* option) or not; of a secret only that counts.                           *)
(***************************************************************************)
EXTENDS Integers, Sequences, FiniteSets, Functions

CONSTANTS Configurations,  \* the settings that may be in the environment
          Worlds           \* what may be met: records of the world

VARIABLES settings,
          world,
          phase,    \* "down", "checked", "built", "serving", "stopped" or "refused"
          gateway,  \* what create_app built, <<>> before
          closed    \* what the shutdown got to close

vars == <<settings, world, phase, gateway, closed>>

None == <<>>
OrElse(option, default) == IF option = None THEN default ELSE option[1]

-----------------------------------------------------------------------------
\* Settings

VALID_ENVIRONMENTS == {"development", "test", "production"}

Production(s) == s.environment = <<"production">>

\* What pydantic and the validators make of the environment, or an error; a short
\* legacy key is only met by resolved_credentials.
SettingsAreValid(s) == s.environment # None /\ s.environment[1] \in VALID_ENVIRONMENTS

EffectiveAuthMode(s) ==
  IF s.auth_mode # None THEN s.auth_mode[1]
  ELSE IF s.oidc_issuer THEN "oidc"
  ELSE IF s.dev_auth_secret THEN "dev"
  ELSE IF s.api_credentials \/ s.api_keys # "none" THEN "api_key"
  ELSE "disabled"

AuthRequired(s) == Production(s) \/ EffectiveAuthMode(s) # "disabled"

\* resolved_credentials raises on a short key.
ResolvedCredentials(s) ==
  IF s.api_keys = "short" THEN "error"
  ELSE IF s.api_credentials \/ s.api_keys = "long" THEN "some" ELSE "none"

PRODUCTION_TENANT ==
  [ requests_per_minute |-> 3000, requests_per_day |-> 500000, requests_per_month |-> 10000000,
    tokens_per_day |-> 50000000, max_concurrency |-> 64, project_requests_per_minute |-> 3000,
    provider_requests_per_minute |-> 6000, model_requests_per_minute |-> 3000 ]

PRODUCTION_USER ==
  [ requests_per_minute |-> 1200, requests_per_day |-> 100000, tokens_per_day |-> 10000000,
    max_concurrency |-> 16 ]

PRODUCTION_BREAKER_MAX_CONCURRENCY == 256

Configured(limits, name) == IF name \in DOMAIN limits THEN limits[name] ELSE None

\* Mistake: what is not set stays unset in production too.
Policy_Unset(s, limits, defaults) == [name \in DOMAIN defaults |-> Configured(limits, name)]

\* tenant_quota_policy and user_quota_policy; the cost has no default anywhere.
Policy(s, limits, defaults) ==
  [name \in DOMAIN defaults |->
     IF Configured(limits, name) = None /\ Production(s) THEN <<defaults[name]>>
     ELSE Configured(limits, name)]

TenantQuotaPolicy(s) == Policy(s, s.tenant_limits, PRODUCTION_TENANT)
UserQuotaPolicy(s)   == Policy(s, s.user_limits, PRODUCTION_USER)

EffectiveBreakerMaxConcurrency(s) ==
  IF s.breaker_max_concurrency # None \/ ~Production(s) THEN s.breaker_max_concurrency
  ELSE <<PRODUCTION_BREAKER_MAX_CONCURRENCY>>

IdentitySourceIsComplete(s, mode) ==
  /\ mode = "oidc" => s.oidc_issuer /\ s.oidc_audience
  /\ mode = "api_key" => ResolvedCredentials(s) = "some"
  /\ mode = "dev" => s.dev_auth_secret

HashingEmbedders == {"hashing", "hash", "lexical"}

\* _validate_production_auth
ProductionIsAllowed(s, mode) ==
  /\ ~s.allow_anonymous /\ ~s.dev_auth_secret
  /\ mode \notin {"dev", "disabled"} /\ IdentitySourceIsComplete(s, mode)
  /\ ~s.allow_unsafe_multiworker /\ ~s.wildcard_cors
  /\ s.database_url = "postgresql" /\ s.redis_url
  /\ s.intent_embedder \notin HashingEmbedders \/ s.intent_allow_hashing_embedder

\* refuse_retry_amplification
RetriesAreBounded(s) ==
  /\ s.litellm_num_retries \in 0 .. 1
  /\ (IF s.max_attempts < 1 THEN 1 ELSE s.max_attempts) * (1 + s.litellm_num_retries) <= 9

ValidateStartup(s) ==
  /\ RetriesAreBounded(s)
  /\ LET mode == EffectiveAuthMode(s)
     IN  IF Production(s) THEN ProductionIsAllowed(s, mode)
         ELSE (mode = "disabled" => s.allow_anonymous) /\ IdentitySourceIsComplete(s, mode)

-----------------------------------------------------------------------------
\* The dependencies

\* probe_distributed_state with _assert_engine_schema
DistributedStateIsUsable(s, w) ==
  s.database_url # "none" /\ s.redis_url /\ w.database /\ w.redis /\ w.schema = "head"

InitializeRuntime(s, w) == ValidateStartup(s) /\ (Production(s) => DistributedStateIsUsable(s, w))

\* uvicorn_config
ManyWorkers(s) == s.workers # None /\ s.workers[1] > 1
WorkersAreSafe(s) ==
  ManyWorkers(s) => s.allow_unsafe_multiworker \/ (s.redis_url /\ s.database_url # "none")

-----------------------------------------------------------------------------
\* What create_app builds

BuildVerifier(s) ==
  LET mode == EffectiveAuthMode(s)
  IN  IF mode = "disabled" THEN "none"
      ELSE IF ~IdentitySourceIsComplete(s, mode) THEN "error" ELSE mode

\* Only outside production does the process make its tables itself.
BuildEngine(s, w) ==
  IF s.database_url = "none" THEN "memory"
  ELSE IF Production(s) \/ w.database THEN s.database_url ELSE "error"

ResolveServingEmbedder(s, w) ==
  IF w.embedder \/ s.intent_embedder \in HashingEmbedders THEN s.intent_embedder
  ELSE IF Production(s) THEN "error" ELSE "hashing"

Built(s, w) ==
  LET shared == IF s.redis_url THEN "redis" ELSE "process"
  IN  [ verifier |-> BuildVerifier(s), engine |-> BuildEngine(s, w), auth_required |-> AuthRequired(s),
        quota |-> shared, health |-> shared, revocation |-> shared,
        revocation_fails_closed |-> s.redis_url /\ Production(s),
        meter |-> IF BuildEngine(s, w) = "memory" THEN "memory" ELSE "durable",
        tenant_policy |-> TenantQuotaPolicy(s), user_policy |-> UserQuotaPolicy(s),
        breaker_max_concurrency |-> EffectiveBreakerMaxConcurrency(s),
        embedder |-> ResolveServingEmbedder(s, w),
        docs |-> ~Production(s), dev_tokens |-> EffectiveAuthMode(s) = "dev" ]

CreateAppFails(s, w) ==
  \/ ~InitializeRuntime(s, w) \/ w.files # {"registry", "routing", "promotion"}
  \/ "error" \in {BuildVerifier(s), BuildEngine(s, w), ResolveServingEmbedder(s, w)}

-----------------------------------------------------------------------------
\* Coming up and going down

Init ==
  /\ settings \in Configurations /\ world \in Worlds
  /\ phase = "down" /\ gateway = None /\ closed = <<>>

Reach(p) == phase' = p /\ UNCHANGED <<settings, world, closed>>

\* The command: settings, the runtime, then uvicorn's configuration
Main ==
  /\ phase = "down"
  /\ Reach(IF SettingsAreValid(settings) /\ InitializeRuntime(settings, world) /\ WorkersAreSafe(settings)
           THEN "checked" ELSE "refused")
  /\ UNCHANGED gateway

\* In every worker.  Clients of Redis and, in production, the pool connect later.
CreateApp ==
  /\ phase = "checked"
  /\ IF CreateAppFails(settings, world)
     THEN Reach("refused") /\ UNCHANGED gateway
     ELSE Reach("built") /\ gateway' = <<Built(settings, world)>>

\* lifespan.  Only production asks for the provider's keys ahead; logging what was
\* configured meets a short legacy key, whichever mode is in force.
ComesUp(s, w, app) ==
  /\ InitializeRuntime(s, w)
  /\ Production(s) => /\ app.auth_required /\ app.verifier # "none"
                      /\ app.verifier = "oidc" => w.identity
  /\ ResolvedCredentials(s) # "error"

Lifespan ==
  /\ phase = "built"
  /\ Reach(IF ComesUp(settings, world, gateway[1]) THEN "serving" ELSE "refused")
  /\ UNCHANGED gateway

Closing == <<"monitor", "providers", "telemetry", "verifier">>

\* A step of the shutdown that raises leaves the rest open.
Stop ==
  /\ phase = "serving"
  /\ \E steps \in 1 .. Len(Closing) : closed' = SubSeq(Closing, 1, steps)
  /\ phase' = "stopped"
  /\ UNCHANGED <<settings, world, gateway>>

\* Killed, or started again after it stopped or refused
Restart ==
  /\ phase # "down"
  /\ phase' = "down" /\ gateway' = None /\ closed' = <<>>
  /\ UNCHANGED <<settings, world>>

WorldMoves ==
  /\ world' \in Worlds
  /\ UNCHANGED <<settings, phase, gateway, closed>>

Next == Main \/ CreateApp \/ Lifespan \/ Stop \/ Restart \/ WorldMoves

Specification == Init /\ [][Next]_vars

-----------------------------------------------------------------------------
\* The doctor: what it reports as FAIL

PostgreSQL(s) == s.database_url = "postgresql"

\* Mistake: any revision will do.
Migrations_AnyRevision(s, w) ==
  IF s.database_url = "none" THEN Production(s) ELSE ~w.database \/ w.schema \in {"none", "partial"}

\* The revision counts in production only, the tables everywhere.
Migrations(s, w) ==
  IF s.database_url = "none" THEN Production(s)
  ELSE ~w.database \/ w.schema = "partial" \/ (Production(s) /\ w.schema # "head")

UnsafeFlags(s) == Production(s) /\ (s.allow_anonymous \/ s.allow_unsafe_multiworker \/ s.dev_auth_secret)

DatabaseIsDeclared(s)  == Production(s) => PostgreSQL(s)
DatabaseAnswers(s, w)  == PostgreSQL(s) => w.database
RoleIsConfined(s, w)   == PostgreSQL(s) => w.database /\ ~w.role_bypasses_rls
RoleChangesNothing(s, w) == PostgreSQL(s) /\ Production(s) => ~w.role_has_ddl

Redis(s, w) == IF s.redis_url THEN ~w.redis ELSE Production(s)

\* No model is enabled, or the local endpoint of the live ones does not answer.
Inference(s, w) == "registry" \notin w.files \/ ~w.inference

Telemetry(s, w) == s.otlp_endpoint /\ ~w.telemetry

\* collect_checks; its remaining checks can at most warn.
DoctorFails(s, w) ==
  \/ ~ValidateStartup(s) \/ UnsafeFlags(s)
  \/ ~DatabaseIsDeclared(s) \/ ~DatabaseAnswers(s, w)
  \/ ~RoleIsConfined(s, w) \/ ~RoleChangesNothing(s, w)
  \/ Migrations(s, w) \/ Redis(s, w)
  \/ Inference(s, w) \/ Telemetry(s, w)

-----------------------------------------------------------------------------
\* However the world moves between the checks, a gateway that serves in production
\* verifies its callers, keeps quotas, breakers and revocations where every worker
\* sees them, knows an unreachable denylist for a reason to refuse, writes usage to
\* PostgreSQL and leaves no limit of requests, tokens or concurrency open
\* (config.py:620, gateway/app.py:302).
ProductionIsGuarded ==
  phase = "serving" /\ Production(settings) =>
    LET app == gateway[1]
    IN  /\ app.verifier \in {"oidc", "api_key"} /\ app.auth_required
        /\ ~app.dev_tokens /\ ~app.docs /\ app.revocation_fails_closed
        /\ {app.quota, app.health, app.revocation} = {"redis"} /\ app.engine = "postgresql"
        /\ None \notin Range(app.tenant_policy) \union Range(app.user_policy)
                      \union {app.breaker_max_concurrency}

\* Two implementations of the same judgement: what the command refuses to start in
\* production, the doctor reports as a failure in the same world (doctor.py:150,
\* runtime.py:40; docs/BACKUP_RECOVERY.md:63 relies on it after a restore).
DoctorForetells ==
  Production(settings) /\ ~InitializeRuntime(settings, world) => DoctorFails(settings, world)

=============================================================================
