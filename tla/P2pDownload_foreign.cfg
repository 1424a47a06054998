SPECIFICATION Spec
CONSTANTS
  w1 = w1
  w2 = w2
  p1 = p1
  p2 = p2
  n1 = n1
  n2 = n2
  Workers <- MCWorkers
  Peers <- MCOnePeer
  Nars <- MCNars
  Bootstrap <- MCNoBootstrap
  MinProviders = 1
  MaxPeers = 1
  BanThreshold = 3
  HandshakeAttempts = 1
  BusCapacity = 1
  MaxJobs = 1
  MaxChurn = 0
  MaxKnown = 3
  MaxRetries = 1
INVARIANTS
  HandshakesForTarget
