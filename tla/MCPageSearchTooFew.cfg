SPECIFICATION Spec
CONSTANTS
  Nodes <- NodeIds
  Layout <- FourPages
  Nbrs <- Adjacency
  MemGraph = {0, 1, 2, 3}
  MemEmb = {0}
  StartLists <- Starts
  ExactDists <- Exact
  Programs <- AllWanted
  LSearch = 4
  BeamWidth = 4
  EmbDen = 10
  MaxReads = 8
INVARIANT
  EnoughResults
