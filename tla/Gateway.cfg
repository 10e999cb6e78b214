SPECIFICATION BoundedSpec
CONSTANTS
  u1 = u1
  u2 = u2
  p1 = p1
  r1 = r1
  r2 = r2
  r3 = r3
  Requests = {r1, r2}
  Users = {u1, u2}
  Projects = {p1}
  Tenant = tenant
  NoProject = noproject
  UserOf <- Owners
  ProjectOf <- InProject
  TenantLimit <- TenantLimits
  UserLimit <- UserLimits
  ProjectPerMinute = 1
  TenantSlots = 2
  UserSlots = 1
  Span <- Minutes
  MaxTracked = 3
  Spends = {1}
  MaxEntries = 1
  Lifetimes <- Lives
  MaxTime = 1
INVARIANTS
  SlotsAreHeld
  CeilingsHold
  AnsweredIsMetered
PROPERTIES
  RevokedIsRefused
  ImplementsLedger
