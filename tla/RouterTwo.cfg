SPECIFICATION Spec
CONSTANTS
  d1 = d1
  d2 = d2
  d3 = d3
  timeout = timeout
  down = down
  Requests = {r1, r2}
  Deployments = {d1, d2}
  Reasons = {timeout, down}
  ProviderDown = down
  Declared <- Undeclared
  Cost <- Priced
  CostIsCapped = FALSE
  MaxCost = 0
  MaxAttempts = 3
  MaxDepth = 2
  MaxLatency = 0
  Latencies = {0}
  ConsecutiveFailures = 1
  ErrorRate = 2
  MinimumSamples = 2
  OpenDuration = 1
  HalfOpenSuccesses = 1
  MaxConcurrency = 2
  Scale = 2
  Alpha = 1
INVARIANTS
  NoStrandedCandidate
PROPERTIES
  ImplementsBreakers
CHECK_DEADLOCK FALSE
