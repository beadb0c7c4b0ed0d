SPECIFICATION Spec
CONSTANTS
  v1 = v1
  v2 = v2
  fa = fa
  fb = fb
  None = None
  Vehicles = {v1, v2}
  Vins = {v1, v2}
  Fleets = {fa, fb}
  Scopes <- FleetOrNothing
  PageSize = 1
  Attempts = 2
  HasDLQ = TRUE
  MaxReports = 2
  MaxTrouble = 2
  MaxMoves = 1
  MaxGrants = 2
  MaxBreaks = 1
CONSTRAINT
  FewAtATime
CHECK_DEADLOCK FALSE
INVARIANTS
  TypeOK
  NoReportVanishes
  ShownIsNewest
  ShownWasGranted
  NothingUnseen
  PageInv
