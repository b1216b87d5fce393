SPECIFICATION Spec
CONSTANTS
  s1 = s1
  s2 = s2
  sBad = sBad
  a1 = a1
  a2 = a2
  Nobody = Nobody
  MaxConns = 1
  Servers <- MCServers
  Addrs <- MCAddrs
  Addr <- MCAddr
  BadAcl <- MCBadAcl
  Patient = {}
INVARIANTS StopNeverKills
CHECK_DEADLOCK FALSE
