CONSTANTS
  o1 = o1
  o2 = o2
  c1 = c1
  c2 = c2
  c3 = c3
  Ops = {o1, o2}
  Requests = {"flag", "query"}
  NoRequest = NoRequest
  Tenants = {}
  Platform = Platform
  TenantOf <- MCTenantOf
  Estimate <- MCEstimate
  GlobalCap = 3
  InitialSpend = 0
  Costs = {1}
  Caps = {2}
  BatchSize = 2
  Amounts = {}
  MaxDirect = 0
  Calls = {c1, c2, c3}
  Dangerous = {"flag"}
SYMMETRY Symmetry
SPECIFICATION ExecSpec
INVARIANT ExecTypeOK
INVARIANT DispatchAccounted
INVARIANT SettledMeansReturned
INVARIANT NoConcurrentEffects
INVARIANT TruthfulAnswers
CHECK_DEADLOCK FALSE
