SPECIFICATION FairSpec
CONSTANTS
  w1 = w1
  w2 = w2
  Workers = {w1, w2}
  NoWorker = nobody
  Offset <- Offsets
  Ttl = 2
  ConsecutiveFailures = 1
  ErrorRate = 1
  MinimumSamples = 1
  OpenDuration = 1
  HalfOpenSuccesses = 1
  MaxConcurrency = 0
  Scale = 1
  Alpha = 1
PROPERTIES
  UpdatesAreAtomic
  HoldOutlivesTraffic
  NobodyPinsOpen
