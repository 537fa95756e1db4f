SPECIFICATION Spec
CONSTANTS
  BeamWidth = 4
  DispatchBelow <- PageSearchBelow
  MemoryShare = 0
  MaxReads = 8
  IoLimit = 3
  MaxCandidates = 6
  EmbeddingL = 0
  Queries = 2
INVARIANT
  NoReadError
