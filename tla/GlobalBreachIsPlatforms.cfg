CONSTANTS
  o1 = o1
  o2 = o2
  o3 = o3
  a = a
  b = b
  Ops = {o1, o2, o3}
  Requests = {"rp", "ra", "rb"}
  NoRequest = NoRequest
  Tenants = {a, b}
  Platform = Platform
  TenantOf <- MCTenantOf
  Estimate <- MCEstimate
  GlobalCap = 3
  InitialSpend = 0
  Costs = {1, 2}
  Caps = {3}
  BatchSize = 2
SYMMETRY OpSymmetry
SPECIFICATION LedgerSpec
CHECK_DEADLOCK FALSE
INVARIANT GlobalBreachIsPlatforms
