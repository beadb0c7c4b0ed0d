SPECIFICATION FairSpec
CONSTANTS
  c1 = c1
  c2 = c2
  p1 = p1
  p2 = p2
  e1 = e1
  e2 = e2
  e3 = e3
  NoOwner = NoOwner
  Unparseable = Unparseable
  Consumers = {c1, c2}
  Partitions = {p1}
  Events = {e1, e2}
  Unindexable = {e2}
  PartitionOf <- Placement
  MaxRecords = 2
  MaxFaults = 1
  MaxLate = 1
  MaxExpulsions = 2
CHECK_DEADLOCK FALSE
INVARIANTS
  TypeOK
  IInv
  NeverLost
  DocumentsAreCurrent
  CurrentInv
PROPERTIES
  EveryRecordAnswered
  ImplementsAtLeastOnce
