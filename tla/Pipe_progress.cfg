SPECIFICATION FairSpec
CONSTANTS
  p1 = p1
  p2 = p2
  c1 = c1
  c2 = c2
  e1 = e1
  e2 = e2
  Owner = owner
  Free = free
  Junk = junk
  Producers <- OneProducer
  Consumers <- OneConsumer
  Elements <- OneElement
  DEFAULT_MINCAP = 3
  Limit = 3
  PowersOf2 <- Powers
  NDEBUG = TRUE
  StoresReorder = TRUE
  MayFree <- Everybody
  MayAsk <- OneConsumer
  MaxPush = 2
  MaxPop = 1
  MaxQueue = 5
INVARIANTS SizeIsSafe
PROPERTIES PushReturns CloseWakes
CHECK_DEADLOCK FALSE
