SPECIFICATION FairSpec
CONSTANTS
  c1 = c1
  c2 = c2
  p1 = p1
  p2 = p2
  v1 = v1
  v2 = v2
  a1 = a1
  a2 = a2
  b1 = b1
  f1 = f1
  NoOwner = NoOwner
  Invalid = Invalid
  Partitions = {p1, p2}
  Events = {a1, b1}
  Vins = {v1, v2}
  VinOf <- TwoVins
  PartitionOf <- TwoPartitions
  Consumers = {c1, c2}
  EarlyEvents = {b1}
  MaxRecords = 1
  MaxFaults = 1
  MaxExpulsions = 1
  Fleets = {}
  NoFleet = NoFleet
  MaxReassigns = 0
CHECK_DEADLOCK FALSE
PROPERTIES
  EveryRecordCommitted
  ImplementsAtLeastOnce
