SPECIFICATION FairSpec
CONSTANTS
  k1 = k1
  k2 = k2
  u1 = u1
  u2 = u2
  f1 = f1
  f2 = f2
  All = All
  Refresher = Refresher
  Clients = {k1, k2}
  Users = {u1, u2}
  UserOf <- TwoUsers
  Tags = {f1, f2, All}
  Scopes <- AdminOrOne
  Routers = {r1}
  r1 = r1
  MaxConnects = 1
  MaxGrants = 0
  MaxBreaks = 0
  MaxInFlight = 1
PROPERTY
  InterestDrains
CHECK_DEADLOCK FALSE
