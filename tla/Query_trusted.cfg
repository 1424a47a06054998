SPECIFICATION FairSpec
CONSTANTS
  p1 = p1
  p2 = p2
  p3 = p3
  Paths <- MCPaths
  NotStore <- MCNotStore
  BadHash <- MCBadHash
  NoDeriver <- MCNoDeriver
  Queries <- MCQueries
  LocalFiles <- MCLocalFiles
  Misfiled <- MCMisfiled
  Servers = 2
  Ttl = 1
  MaxCommands = 1
  MaxTicks = 0
  MaxStops = 0
CHECK_DEADLOCK FALSE
INVARIANTS
  ClaimedIsTrusted
