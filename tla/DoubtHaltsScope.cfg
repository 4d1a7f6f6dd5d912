CONSTANTS
  o1 = o1
  o2 = o2
  o3 = o3
  a = a
  b = b
  Ops = {o1, o2}
  Requests = {"rp", "ra"}
  NoRequest = NoRequest
  Tenants = {a}
  Platform = Platform
  TenantOf <- MCTenantOf
  Estimate <- MCEstimate
  GlobalCap = 3
  InitialSpend = 0
  Costs = {1, 2}
  Caps = {2}
  BatchSize = 2
SYMMETRY OpSymmetry
SPECIFICATION LedgerSpec
CHECK_DEADLOCK FALSE
INVARIANT DoubtHaltsScope
