SPECIFICATION RelayFairSpec
CONSTANTS
  Conn = {c1, c2, c3}
  Request = {r1}
  MaxFailures = 2
  None = None
INVARIANTS
  TypeOK
  LiveTunnelRoutable
  PendingOwned
  ReaderNeverBlocks
  AnswersTruthful
PROPERTIES
  ImplementsService
  RequestsAnswered
  Heals
CHECK_DEADLOCK FALSE
