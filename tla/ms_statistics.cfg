SPECIFICATION FairSpec
CONSTANTS
  BizCalls = {b1}
  LogCalls = {}
  StatCalls = {s1, s2}
  Strangers = {}
  MayLeave = {s1, s2}
  MayStall = {s1}
  Window = 1
  MayStop = FALSE
  None = None
  Acl <- MCAcl
  Metadata <- MCMetadata
  FullMethod <- MCFullMethod
INVARIANTS NoDoubleReport StatsAccounting
PROPERTY HangsOnlyOnReturned
CHECK_DEADLOCK FALSE
