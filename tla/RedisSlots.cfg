SPECIFICATION Spec
CONSTANTS
  u1 = u1
  u2 = u2
  r1 = r1
  r2 = r2
  r3 = r3
  Requests = {r1, r2}
  Users = {u1, u2}
  Tenant = tenant
  UserOf <- TwoUsers
  TenantLimit = 2
  UserLimit = 1
  TenantSlots = 1
  UserSlots = 1
  LocksExpire = FALSE
  SlotsExpire = FALSE
  MaxCrashes = 0
INVARIANTS
  SlotCeiling
CHECK_DEADLOCK FALSE
