SPECIFICATION FairSpec
CONSTANTS
  Nodes <- NodeIds
  Pages <- Layout
  GraphPages <- GraphLayout
  n_graph_node_per_sector = 2
  TagLists <- Tags
  Options <- Programs
  MaxReads = 2
INVARIANTS
  CachesAreOwn
  CachesAreFilled
PROPERTY
  LoadEnds
