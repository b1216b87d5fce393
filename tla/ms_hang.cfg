SPECIFICATION FairSpec
CONSTANTS
  BizCalls = {b1}
  LogCalls = {l1}
  StatCalls = {}
  Strangers = {}
  MayLeave = {l1}
  MayStall = {}
  Window = 1
  MayStop = FALSE
  None = None
  Acl <- MCAcl
  Metadata <- MCMetadata
  FullMethod <- MCFullMethod
PROPERTY BizAnswered
CHECK_DEADLOCK FALSE
