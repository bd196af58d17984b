SPECIFICATION Spec
CONSTANTS
  MaxChunks = 3
INVARIANTS
  UpstreamInOrder
  DownstreamInOrder
PROPERTIES
  ClientCloseArrives
  HeadscaleCloseArrives
CHECK_DEADLOCK FALSE
