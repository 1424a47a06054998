SPECIFICATION ReqSpec
CONSTANTS
  p1 = p1
  p2 = p2
  Peers <- MCPeers
  NBlocks = 3
  WireIndex <- MCInRange
  MaxInFlight = 2
  StallTimeout = 4
  OverallTimeout = 4
  MaxLate = 0
  MaxBurst = 2
INVARIANTS
  OutstandingWithinLimit
