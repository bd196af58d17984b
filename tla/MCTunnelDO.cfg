SPECIFICATION FairStreamSpec
CONSTANTS
  Conn = {c1, c2}
  Request = {r1}
  Stream = {s1}
  MaxFailures = 1
  MaxFrames = 3
  MaxAnswers = 1
  None = None
INVARIANTS
  TypeOK
  TunnelOpen
  PendingUnsettled
  AnswersTruthful
  StreamsTracked
  FramesOrdered
PROPERTIES
  RequestsSettled
  ClientCloseArrives
  HeadscaleCloseArrives
CHECK_DEADLOCK FALSE
