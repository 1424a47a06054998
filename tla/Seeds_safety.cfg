SPECIFICATION Spec
CONSTANTS
  n1 = n1
  n2 = n2
  p1 = p1
  p2 = p2
  c1 = c1
  c2 = c2
  NoPath = NoPath
  NoNar = NoNar
  Nars <- MCNars
  Paths <- MCPaths
  NarOf <- MCOnto
  Refusable <- MCNar
  Clients <- MCClients
  MaxRequests = 3
  MaxDownloads = 1
  MaxCrashes = 1
  MaxFaults = 2
SYMMETRY ClientSymmetry
INVARIANTS
  ServedIsGenuine
  ProvenanceKept
  AckedSurvive
  SeedsAnnounced
CHECK_DEADLOCK FALSE
