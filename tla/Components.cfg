SPECIFICATION SpecAll
CONSTANTS
  d1 = d1
  d2 = d2
  d3 = d3
  NONE = NONE
  ModelIds <- MCModelIds
  Registries <- MCRegistries
  Aliases <- MCAliases
  IntentPolicies <- MCIntentPolicies
  RoutingCeiling = {}
  DefaultPolicy = "cost_first"
  Modes <- MCModes
  Requests <- MCRequests
  Tenants <- MCTenants
  MaxOut = 1
  Snapshots <- MCSnapshots
  Reports <- MCReports
  RegistryEntries <- MCEntries
  AliasLists <- MCAliasLists
  RoutingBlocks <- MCRoutingBlocks
  Replacements <- MCReplacements
  Configurations <- MCConfigurations
  Worlds <- MCWorlds
  Models = {"m1"}
  Targets = {"m1", "guardrails"}
  ForbiddenTargets = {"guardrails"}
  Versions = {1, 2, 3}
  Classifiers = {"c1", "c2"}
  MaxPins = 3
  Prompters = {"r1", "r2"}
  Arrivals <- MCArrivals
  Cosine <- MCCosine
  Verdicts <- MCVerdicts
  Paid = {"l4"}
  Capacity = 1
  ExactTTL = 1
  SemanticTTL = 1
  MaxDecisions = 1
  CascadeTime = 1
  Processes = {"p1"}
  PerProcess = 2
  Interval = 2
  WarmupTime = 1
  Duration = 3
  LateBound = 1
  MaxErrorRate = 0
  MaxRequests = 2
  BenchTime = 4
  Callers = {"r1", "r2"}
  SignedTokens <- MCTokens
  KeySets = {{}, {"k1"}, {"k2"}}
  CacheSeconds = 1
  MinInterval = 2
  Leeway = 1
  FailClosed = TRUE
  DefaultTTL = 2
  MaxDenied = 1
  IdentityTime = 3
  MaxRetries = 2
  Answers <- MCAnswers
  ClientTime = 6
  CacheWorkers = {"w1", "w2"}
  CacheTenants = {"t1", "t2"}
  Namespaces = {"intent"}
  Parts = {"p", "q"}
  Payloads = {"v1", "v2"}
  CachePolicies <- MCCachePolicies
  CacheTTLs <- MCCacheTTLs
  CacheTime = 1
  MaxPuts = 2
  StoreTenants = {"t1", "t2"}
  StoreKeys = {"k1", "k2", "k3"}
  StoreBodies = {"draft", "published"}
  MaxRecords = 2
  MaxWrites = 3
  FunctionCalls <- MCFunctionCalls
INVARIANTS
  NothingForbiddenIsPlanned
  NoDominatedCandidateLeads
  CachedAnswersWereGiven
  StoresAgree
  HitsAreFresh
  AcceptedIsVouched
  PassingWasOffered
  RegistryStandsAlone
  ProductionIsGuarded
  DoctorForetells
  RepeatsAreJustified
  VerdictsAreSpecific
  
  
  ReleasesAreMeasured
  EitherWayAgrees
PROPERTIES
  AutomationIsBounded
  RollbackServesOlder
CHECK_DEADLOCK FALSE
