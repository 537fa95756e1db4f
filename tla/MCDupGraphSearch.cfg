SPECIFICATION Spec
CONSTANTS
  Nodes <- NodeIds
  Copied <- Copies
  Nbrs <- Adjacency
  MemGraph = {0}
  MemEmb = {0}
  StartLists <- Starts
  PqDists <- SomePq
  ExactDists <- Exact
  LSearch = 6
  KSearch = 3
  BeamWidth = 2
  FilterNum = 9
  FilterDen = 10
  EmbNum = 3
  EmbDen = 5
  MaxReads = 4
INVARIANTS
  AdjacencyIsOwn
  TraversalClosed
  AnswerNearest
PROPERTY
  ImplementsPipeline
