CONSTANTS
  o1 = o1
  o2 = o2
  c1 = c1
  c2 = c2
  x1 = x1
  x2 = x2
  Ops = {o1, o2}
  Requests = {"flag"}
  NoRequest = NoRequest
  Tenants = {}
  Platform = Platform
  TenantOf <- MCTenantOf
  Estimate <- MCEstimate
  GlobalCap = 3
  InitialSpend = 0
  Costs = {1}
  Caps = {2}
  BatchSize = 1
  Amounts = {}
  MaxDirect = 0
  Calls = {c1, c2}
  Dangerous = {"flag"}
  Exchanges = {x1, x2}
  Maximum = 2
SPECIFICATION FairAnsweredSpec
PROPERTY NothingHangs
PROPERTY CallsReturn
PROPERTY CloseCompletes
CHECK_DEADLOCK FALSE
