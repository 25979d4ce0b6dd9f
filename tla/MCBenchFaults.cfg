SPECIFICATION Spec
CONSTANTS
  Modes = {"tcp", "udp", "both"}
  Directions = {"up", "down", "both"}
  RateLists <- SmallRateLists
  BufCap = 1
  MaxChunks = 2
  Faults = {"connect", "bind", "accept", "refuse", "data", "loss", "stall", "abort", "crash"}
INVARIANTS
  TypeOK
  PlansInDocumentedOrder
  FramingInSync
PROPERTIES
  ImplementsBenchRun
CHECK_DEADLOCK FALSE
