SPECIFICATION BoundedSpec
CONSTANTS
  u1 = u1
  u2 = u2
  p1 = p1
  r1 = r1
  r2 = r2
  r3 = r3
  Requests = {r1, r2, r3}
  Users = {u1, u2}
  Projects = {p1}
  Tenant = tenant
  NoProject = noproject
  UserOf <- ThreeOwners
  ProjectOf <- ThreeInProject
  TenantLimit <- TenantLimits
  UserLimit <- UserLimits
  ProjectPerMinute = 1
  TenantSlots = 2
  UserSlots = 1
  Span <- Minutes
  MaxTracked = 4
  Spends = {0, 1}
  MaxEntries = 1
  Lifetimes = {}
  MaxTime = 3
INVARIANTS
  ConcurrencyIsCapped
