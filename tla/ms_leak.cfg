SPECIFICATION FairSpec
CONSTANTS
  BizCalls = {b1}
  LogCalls = {}
  StatCalls = {s1}
  Strangers = {}
  MayLeave = {}
  MayStall = {}
  Window = 1
  MayStop = TRUE
  None = None
  Acl <- MCAcl
  Metadata <- MCMetadata
  FullMethod <- MCFullMethod
PROPERTY GoroutinesEnd
CHECK_DEADLOCK FALSE
