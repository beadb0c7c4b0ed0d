SPECIFICATION FairSpec
CONSTANTS
  k1 = k1
  k2 = k2
  u1 = u1
  u2 = u2
  f1 = f1
  f2 = f2
  All = All
  Refresher = Refresher
  Clients = {k1, k2}
  Users = {u1}
  UserOf <- OneUser
  Tags = {f1, f2, All}
  Scopes <- NoneOrAdmin
  Routers = {r1}
  r1 = r1
  MaxConnects = 1
  MaxGrants = 1
  MaxBreaks = 1
  MaxInFlight = 1
INVARIANTS
  IInv
  NoLostWakeup
PROPERTIES
  ScopesReachClients
  InterestReachesRouters
CHECK_DEADLOCK FALSE
