CONSTANTS
  o1 = o1
  o2 = o2
  o3 = o3
  a = a
  Ops = {o1, o2}
  Requests = {"rp", "ra"}
  NoRequest = NoRequest
  Tenants = {a}
  Platform = Platform
  TenantOf <- MCTenantOf
  Estimate <- MCEstimate
  GlobalCap = 3
  InitialSpend = 1
  Costs = {0, 2}
  Caps = {2}
  BatchSize = 1
  Amounts = {1}
  MaxDirect = 1
SYMMETRY OpSymmetry
SPECIFICATION GovernorSpec
INVARIANT GovernorTypeOK
INVARIANT PlatformDoubtHalts
INVARIANT NoSpendLost
PROPERTY SpendAtCapHalts
CHECK_DEADLOCK FALSE
