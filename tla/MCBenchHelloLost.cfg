SPECIFICATION FairSpec
CONSTANTS
  Modes = {"udp"}
  Directions = {"down"}
  RateLists <- OneRate
  BufCap = 1
  MaxChunks = 2
  Faults = {"loss"}
PROPERTIES
  RunEnds
CHECK_DEADLOCK FALSE
