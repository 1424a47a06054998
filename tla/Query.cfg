SPECIFICATION FairSpec
CONSTANTS
  p1 = p1
  p2 = p2
  p3 = p3
  Paths <- MCPaths
  NotStore <- MCNotStore
  BadHash <- MCBadHash
  NoDeriver <- MCNoDeriver
  Queries <- MCQueries
  LocalFiles <- MCLocalFiles
  Misfiled <- NoneMisfiled
  Servers = 2
  Ttl = 1
  MaxCommands = 2
  MaxTicks = 1
  MaxStops = 1
CHECK_DEADLOCK FALSE
INVARIANTS
  NamedIsVouched
  BuiltinKept
PROPERTIES
  ImplementsQuery
  InfoKeepsClaims
  QueriesSettle
