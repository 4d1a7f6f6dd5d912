CONSTANTS
  o1 = o1
  o2 = o2
  o3 = o3
  a = a
  b = b
  Ops = {o1, o2, o3}
  Requests = {"rp", "ra", "rc"}
  NoRequest = NoRequest
  Tenants = {a}
  Platform = Platform
  TenantOf <- MCTenantOf
  Estimate <- MCEstimate
  GlobalCap = 3
  InitialSpend = 0
  Costs = {0, 2}
  Caps = {2}
  BatchSize = 2
SYMMETRY OpSymmetry
SPECIFICATION LedgerSpec
INVARIANT LedgerTypeOK
INVARIANT OneActivePerRequest
INVARIANT OneOutcomePerOperation
INVARIANT SpendMatchesSettlements
PROPERTY LiabilityWithinCap
PROPERTY ImplementsEscrow
CHECK_DEADLOCK FALSE
