SPECIFICATION Spec
CONSTANTS
  LSearch = 3
  NumSyncs = 2
  MaxC = 4
  Programs <- Calls
  Data <- Line
  Seeds <- PickOrders
  Shuffles <- Orders
  MaxBuilds = 2
  MaxParts = 5
  MaxTrain = 5
  Kept <- Samplings
  SectorWords = 18
  CacheWords = 5
INVARIANTS
  DiskIndexRight
  PqMatches
