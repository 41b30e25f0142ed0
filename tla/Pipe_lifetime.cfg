SPECIFICATION Spec
CONSTANTS
  p1 = p1
  p2 = p2
  c1 = c1
  c2 = c2
  e1 = e1
  e2 = e2
  Owner = owner
  Free = free
  Junk = junk
  Producers <- OneProducer
  Consumers <- OneConsumer
  Elements <- TwoElements
  DEFAULT_MINCAP = 2
  Limit = 3
  PowersOf2 <- Powers
  NDEBUG = TRUE
  StoresReorder = FALSE
  MayFree <- Everybody
  MayAsk <- Nobody
  MaxPush = 2
  MaxPop = 2
  MaxQueue = 5
SYMMETRY Symmetry
INVARIANTS FreedAfterUse BufferKept ShortMeansClosed
PROPERTIES IsFifo
CHECK_DEADLOCK FALSE
