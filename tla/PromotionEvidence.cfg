SPECIFICATION Spec
CONSTANTS
  d1 = d1
  o1 = o1
  o2 = o2
  rA = rA
  rB = rB
  NONE = NONE
  Blank = Blank
  Deployments = {d1}
  Operators = {o1, o2}
  Identities = {rA, rB}
  Tiers = {1, 2, 3}
  DeclaredTiers = {1, 2}
  Workloads = {"coding"}
  Supported = {{}, {"chat"}}
  Required <- MCRequired
  Licensed = {d1}
  BindIdentity = TRUE
  RequireProbe = TRUE
  RequireEvaluation = TRUE
  RequireShadow = TRUE
  Policies = {1, 2}
  GivenArguments <- MCArguments
  MaxCommands = 3
  MaxEdits = 2
SYMMETRY Symmetry
INVARIANT
  EvidenceIsOfWhatServes
CHECK_DEADLOCK FALSE
