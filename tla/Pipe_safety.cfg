SPECIFICATION Spec
CONSTANTS
  p1 = p1
  p2 = p2
  c1 = c1
  c2 = c2
  e1 = e1
  e2 = e2
  Owner = owner
  Free = free
  Junk = junk
  Producers <- TwoProducers
  Consumers <- TwoConsumers
  Elements <- OneElement
  DEFAULT_MINCAP = 2
  Limit = 0
  PowersOf2 <- Powers
  NDEBUG = FALSE
  StoresReorder = FALSE
  MayFree <- Nobody
  MayAsk <- Nobody
  MaxPush = 2
  MaxPop = 2
  MaxQueue = 3
SYMMETRY Symmetry
INVARIANTS TypeOK NoAbort SnapshotSound NoOverlap OnlyElementsPopped
CHECK_DEADLOCK FALSE
