SPECIFICATION Spec
CONSTANTS
  w1 = w1
  w2 = w2
  p1 = p1
  p2 = p2
  n1 = n1
  n2 = n2
  Workers <- MCWorker
  Peers <- MCPeers
  Nars <- MCOneNar
  Bootstrap <- MCNoBootstrap
  MinProviders = 2
  MaxPeers = 2
  BanThreshold = 3
  HandshakeAttempts = 2
  BusCapacity = 2
  MaxJobs = 1
  MaxChurn = 0
  MaxKnown = 3
  MaxRetries = 1
SYMMETRY PeerSymmetry
INVARIANTS
  HandshakesDistinct
  QuorumBeforeDownload
  AskBudget
PROPERTIES
  AnsweredLeftAlone
