SPECIFICATION FairSpec
CONSTANTS
  p1 = p1
  p2 = p2
  Peers <- MCPeers
  NBlocks = 2
  WireIndex <- MCOnePastTheEnd
  MaxInFlight = 1
  StallTimeout = 1
  OverallTimeout = 3
  MaxLate = 1
  MaxBurst = 1
INVARIANTS
  TypeOK
  SlotAccounting
  TrackersAgree
  NoIdleCapacity
  GiveUpJustified
  GenuineHashesSucceed
PROPERTIES
  AcceptedIsFinal
  Termination
