SPECIFICATION FairSpec
CONSTANTS
  c1 = c1
  c2 = c2
  p1 = p1
  p2 = p2
  v1 = v1
  v2 = v2
  a1 = a1
  a2 = a2
  b1 = b1
  f1 = f1
  NoOwner = NoOwner
  Invalid = Invalid
  Partitions = {p1}
  Events = {a1, a2}
  Vins = {v1}
  VinOf <- OneVin
  PartitionOf <- OnePartition
  Consumers = {c1}
  EarlyEvents = {}
  MaxRecords = 2
  MaxFaults = 0
  MaxExpulsions = 1
  Fleets = {}
  NoFleet = NoFleet
  MaxReassigns = 0
CHECK_DEADLOCK FALSE
PROPERTY
  EveryRecordHandled
