SPECIFICATION FairSpec
CONSTANTS
  BeamWidth = 3
  DispatchBelow <- DupGraphBelow
  MemoryShare <- DupGraphShare
  MaxReads = 6
  IoLimit <- Unlimited
  MaxCandidates = 9
  EmbeddingL = 7
  Queries = 2
INVARIANTS
  IInv
  BuffersExclusive
  RightNode
  QuietHandover
  QueuesFit
PROPERTY
  QueriesEnd
