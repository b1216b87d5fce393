SPECIFICATION Spec
CONSTANTS
  c1 = c1
  c2 = c2
  c3 = c3
  Calls = {c1}
  None = None
  Requests <- MCEnum
  BadUser <- MCBadUser
  BadUsername <- MCBadUsername
  Rvasily <- MCRvasily
INVARIANTS StatusIsOneOf
CHECK_DEADLOCK FALSE
