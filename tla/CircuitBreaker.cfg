SPECIFICATION FairSpec
CONSTANTS
  Requests = {r1, r2, r3}
  ConsecutiveFailures = 2
  ErrorRate = 2
  MinimumSamples = 3
  OpenDuration = 2
  HalfOpenSuccesses = 2
  MaxConcurrency = 2
  Scale = 4
  Alpha = 2
PROPERTIES
  HoldNeedsOperator
  Recovers
