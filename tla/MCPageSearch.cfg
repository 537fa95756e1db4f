SPECIFICATION FairSpec
CONSTANTS
  Nodes <- NodeIds
  Layout <- FourPages
  Nbrs <- Adjacency
  MemGraph = {0, 1, 2, 3}
  MemEmb = {0}
  StartLists <- Starts
  ExactDists <- Exact
  Programs <- Calls
  LSearch = 4
  BeamWidth = 4
  EmbDen = 10
  MaxReads = 8
INVARIANTS
  KeepsNearest
  TraversalClosed
  CandidatesEvaluated
  AnswerNearest
PROPERTIES
  ImplementsPipeline
  SearchEnds
