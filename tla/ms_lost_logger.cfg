SPECIFICATION Spec
CONSTANTS
  BizCalls = {}
  LogCalls = {l1, l2}
  StatCalls = {}
  Strangers = {}
  MayLeave = {}
  MayStall = {}
  Window = 1
  MayStop = FALSE
  None = None
  Acl <- MCAcl
  Metadata <- MCMetadata
  FullMethod <- MCFullMethod
INVARIANT EveryLoggerRegistered
CHECK_DEADLOCK FALSE
