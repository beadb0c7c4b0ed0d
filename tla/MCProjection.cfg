SPECIFICATION FairSpec
CONSTANTS
  Vins = {v1, v2}
  Fleets = {f1, f2}
  NoFleet = NoFleet
  Keep = Keep
  Syncers = {s1, s2}
  Handlers = {h1, h2}
  MaxChanges = 2
  MaxFaults = 2
INVARIANTS
  IInv
  StaleForACause
PROPERTIES
  Converges
CHECK_DEADLOCK FALSE
