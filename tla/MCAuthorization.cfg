SPECIFICATION FairSpec
CONSTANTS
  ua = ua
  uv = uv
  f = f
  v = v
  c1 = c1
  p1 = p1
  p2 = p2
  Users = {ua, uv}
  Fleets = {f}
  Vins = {v}
  Calls = {c1}
  Pods = {p1, p2}
  SeedPlan <- Demo
  TTL = 1
  MaxTime = 2
  MaxLogins = 1
  MaxGrants = 1
  MaxChanges = 1
  MaxFaults = 1
INVARIANTS
  IInv
  ScopeIsBracketed
  StaleAuthorityEnds
  SeedStays
PROPERTY
  PodsServe
CHECK_DEADLOCK FALSE
