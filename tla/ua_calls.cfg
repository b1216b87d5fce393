SPECIFICATION FairSpec
CONSTANTS
  c1 = c1
  c2 = c2
  c3 = c3
  Calls <- MCCalls
  None = None
  Requests <- MCRequests
  BadUser <- MCBadUser
  BadUsername <- MCBadUsername
  Rvasily <- MCRvasily
INVARIANTS TypeOK AnswersStayTrue OnlyValidRegistered
PROPERTIES ImplementsRegistry EveryCallAnswered
CHECK_DEADLOCK FALSE
