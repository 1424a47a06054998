SPECIFICATION FairSpec
CONSTANTS
  Peers = {a}
  Nars = {n}
  Sizes <- MCSizes
  BlockSize = 2
  IndexLists <- MCIndexLists
  HashBytes = 2
  ErrorBytes = 1
  Timeout = 1
  Rates <- MCRates
  Listeners <- MCListeners
  BusCapacity = 1
  HistoryLimit = 2
  MaxRequests = 2
  MaxOthers = 1
CHECK_DEADLOCK FALSE
INVARIANTS
  AdvertisedIsServed
  UploadCapped
  HistoryIsLatest
  TransfersAddUp
PROPERTIES
  RepliesLeave
