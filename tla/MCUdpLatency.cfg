SPECIFICATION Spec
CONSTANTS
  Directions = {"down"}
  Rates = {3}
  PacketBits = 2
  Duration = 3
  Grace = 1
  MaxPackets = 3
  MaxDups = 0
  MaxStrays = 0
  LatestStart = 1
  MaxTime = 5
INVARIANTS
  LatencyIsVariation
