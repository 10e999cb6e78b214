SPECIFICATION FairSpec
CONSTANTS
  d1 = d1
  d2 = d2
  d3 = d3
  timeout = timeout
  down = down
  Requests = {r1}
  Deployments = {d1, d2, d3}
  Reasons = {timeout, down}
  ProviderDown = down
  Declared <- Cyclic
  Cost <- Priced
  CostIsCapped = TRUE
  MaxCost = 1
  MaxAttempts = 3
  MaxDepth = 2
  MaxLatency = 2
  Latencies = {0, 1}
  ConsecutiveFailures = 1
  ErrorRate = 2
  MinimumSamples = 2
  OpenDuration = 1
  HalfOpenSuccesses = 1
  MaxConcurrency = 0
  Scale = 2
  Alpha = 1
PROPERTIES
  FirstByteCommits
  RequestsEnd
CHECK_DEADLOCK FALSE
