SPECIFICATION FairSpec
CONSTANTS
  w1 = w1
  w2 = w2
  p1 = p1
  p2 = p2
  n1 = n1
  n2 = n2
  Workers <- MCWorker
  Peers <- MCOnePeer
  Nars <- MCOneNar
  Bootstrap <- MCOnePeer
  MinProviders = 1
  MaxPeers = 1
  BanThreshold = 3
  HandshakeAttempts = 1
  BusCapacity = 1
  MaxJobs = 2
  MaxChurn = 1
  MaxKnown = 3
  MaxRetries = 1
INVARIANTS
  TypeOK
  BackoffIsReset
PROPERTIES
  JobsEnd
