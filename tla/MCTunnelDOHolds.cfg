SPECIFICATION FairSpec
CONSTANTS
  Conn = {c1, c2}
  Request = {r1}
  MaxFailures = 1
  None = None
PROPERTY HoldsTunnel
CHECK_DEADLOCK FALSE
