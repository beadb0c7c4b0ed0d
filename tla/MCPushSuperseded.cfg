SPECIFICATION FairSpec
CONSTANTS
  All = All
  fa = fa
  fb = fb
  va = va
  vb = vb
  ea = ea
  eb = eb
  p1 = p1
  Partitions = {p1}
  Routers = {r1}
  Clients = {k1}
  Events = {ea}
  Tags <- AllTags
  TagsOf <- TagsOfEvent
  VinOf <- VinOfEvent
  PartitionOf <- OnePartition
  Scopes <- Granted
  Interests <- Asked
  Buffer = 1
  Window = 1
  Queue = 1
  MaxRecords = 2
  MaxMoves = 0
  Ageing = FALSE
PROPERTIES
  DroppedAreSuperseded
CHECK_DEADLOCK FALSE
