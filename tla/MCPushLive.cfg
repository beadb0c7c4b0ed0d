SPECIFICATION FairSpec
CONSTANTS
  All = All
  fa = fa
  fb = fb
  va = va
  vb = vb
  ea = ea
  eb = eb
  p1 = p1
  Partitions = {p1}
  Routers = {r1, r2}
  Clients = {k1}
  Events = {ea, eb}
  Tags <- AllTags
  TagsOf <- TagsOfEvent
  VinOf <- VinOfEvent
  PartitionOf <- OnePartition
  Scopes <- Granted
  Interests <- Asked
  Buffer = 1
  Window = 2
  Queue = 1
  MaxRecords = 2
  MaxMoves = 1
  Ageing = TRUE
INVARIANTS
  TypeOK
  IInv
  NothingVanishes
PROPERTIES
  ImplementsLiveFeed
  EveryDueEventShown
CHECK_DEADLOCK FALSE
