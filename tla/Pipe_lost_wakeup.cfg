SPECIFICATION FairSpec
CONSTANTS
  p1 = p1
  p2 = p2
  c1 = c1
  c2 = c2
  e1 = e1
  e2 = e2
  Owner = owner
  Free = free
  Junk = junk
  Producers <- OneProducer
  Consumers <- OneConsumer
  Elements <- OneElement
  DEFAULT_MINCAP = 2
  Limit = 0
  PowersOf2 <- Powers
  NDEBUG = FALSE
  StoresReorder = FALSE
  MayFree <- Nobody
  MayAsk <- Nobody
  MaxPush = 1
  MaxPop = 1
  MaxQueue = 4
PROPERTIES PopReturnsWhenFilled
CHECK_DEADLOCK FALSE
