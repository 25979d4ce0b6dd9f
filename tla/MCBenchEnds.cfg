SPECIFICATION FairSpec
CONSTANTS
  Modes = {"tcp", "udp", "both"}
  Directions = {"up", "down", "both"}
  RateLists <- SmallRateLists
  BufCap = 1
  MaxChunks = 2
  Faults = {"connect", "bind", "accept", "refuse", "data", "abort", "crash"}
PROPERTIES
  RunEnds
  SessionEnds
  LocalServerEnds
  SessionEndsOrAwaits
CHECK_DEADLOCK FALSE
