SPECIFICATION FairSpec
CONSTANTS
  v1 = v1
  v2 = v2
  fa = fa
  fb = fb
  None = None
  Vehicles = {v1}
  Vins = {v1}
  Fleets = {fa, fb}
  Scopes <- FleetOrNothing
  PageSize = 1
  Attempts = 2
  HasDLQ = FALSE
  MaxReports = 1
  MaxTrouble = 0
  MaxMoves = 0
  MaxGrants = 1
  MaxBreaks = 1
CHECK_DEADLOCK FALSE
PROPERTY
  StreamRecovers
