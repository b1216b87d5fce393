SPECIFICATION FairSpec
CONSTANTS
  Input <- MCInput
  Th = 2
  Less <- MCLess
  None = None
INVARIANTS TypeOK NoOverheat NoPanic HashesRight
PROPERTIES ImplementsSignature Terminates Flows
CHECK_DEADLOCK FALSE
