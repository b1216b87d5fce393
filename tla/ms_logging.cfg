SPECIFICATION FairSpec
CONSTANTS
  BizCalls = {b1, b2}
  LogCalls = {l1, l2}
  StatCalls = {}
  Strangers = {b2}
  MayLeave = {l1}
  MayStall = {l2}
  Window = 1
  MayStop = TRUE
  None = None
  Acl <- MCAcl
  Metadata <- MCMetadata
  FullMethod <- MCFullMethod
INVARIANTS TypeOK FeedIsContiguous BroadcastComplete ObservedInOrder
PROPERTIES ImplementsLogFeed HangsOnlyOnReturned EventsReachLoggers
CHECK_DEADLOCK FALSE
