SPECIFICATION Spec
CONSTANTS
  n1 = n1
  n2 = n2
  p1 = p1
  p2 = p2
  c1 = c1
  c2 = c2
  NoPath = NoPath
  NoNar = NoNar
  Nars <- MCNars
  Paths <- MCPaths
  NarOf <- MCOnto
  Refusable <- MCNar
  Clients <- MCClients
  MaxRequests = 2
  MaxDownloads = 0
  MaxCrashes = 0
  MaxFaults = 0
INVARIANT SettingsPreserved
CHECK_DEADLOCK FALSE
