SPECIFICATION FairSpec
CONSTANTS
  Directions = {"up", "down"}
  Rates = {0, 1, 3}
  PacketBits = 4
  Duration = 3
  Grace = 1
  MaxPackets = 2
  MaxDups = 0
  MaxStrays = 1
  LatestStart = 1
  MaxTime = 5
INVARIANTS
  ReceivedWasSent
  NeverAheadOfRate
PROPERTIES
  FlowEnds
