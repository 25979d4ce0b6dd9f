SPECIFICATION Spec
CONSTANTS
  Directions = {"up", "down"}
  Rates = {3}
  PacketBits = 2
  Duration = 3
  Grace = 1
  MaxPackets = 3
  MaxDups = 1
  MaxStrays = 0
  LatestStart = 1
  MaxTime = 5
INVARIANTS
  TypeOK
  StatsMatchArrivals
  LossIsExact
  JitterWithinSpread
  AnchoredUploadIsHonest
