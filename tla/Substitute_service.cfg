SPECIFICATION FairSpec
CONSTANTS
  MaxRequests = 2
  Chunks = 2
  Candidates = 2
INVARIANTS
  KeptIsGenuine
PROPERTIES
  ImplementsService
  GivesUpLast
  RequestsSettle
CHECK_DEADLOCK FALSE
