SPECIFICATION FairSpec
CONSTANTS
  r1 = r1
  r2 = r2
  r3 = r3
  e1 = e1
  e2 = e2
  e3 = e3
  e4 = e4
  Requests = {r1, r2}
  EventsOf <- TwoRequests
  RetryMax = 2
  FailThreshold = 2
  RecoveryThreshold = 2
  AmbiguousCommits = TRUE
  MaxRepairs = 1
  MaxCrashes = 1
INVARIANTS
  NoEventVanishes
  FastCountersTrail
PROPERTIES
  AdmissionIsVouched
  ReadinessFollows
