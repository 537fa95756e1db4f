SPECIFICATION FairSpec
CONSTANTS
  a = a
  b = b
  c = c
  Nodes <- NodeIds
  Nbrs <- Adjacency
  Pages <- Layout
  PerSector = 2
  Medoids <- Start
  Queries <- TwoQueries
  Callers = {a, b, c}
  NCalls = 3
  Options <- Programs
  LSearch = 3
  MaxReads = 2
  MaxRobinMap = 1
  CacheShare = 2
INVARIANTS
  RecordsAreTheirOwn
  DataAccounted
  AnswerNearest
PROPERTY
  SearchesEnd
