SPECIFICATION FairSpec
CONSTANTS
  u1 = u1
  u2 = u2
  r1 = r1
  r2 = r2
  r3 = r3
  Requests = {r1, r2, r3}
  Users = {u1, u2}
  Tenant = tenant
  UserOf <- ThreeRequests
  TenantLimit = 2
  UserLimit = 1
  TenantSlots = 2
  UserSlots = 1
  LocksExpire = TRUE
  SlotsExpire = TRUE
  MaxCrashes = 1
INVARIANTS
  FleetCeiling
  
PROPERTIES
  EveryRequestEnds
CHECK_DEADLOCK FALSE
