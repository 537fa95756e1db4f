SPECIFICATION Spec
CONSTANTS
  Threads = {a, b}
  Tags = {1, 2, 3}
  MaxPoints = 3
  IndexingRange = 2
  SlackRange = 2
  StartPoints = {1, 2}
  StartGraph <- Chain
  ConcModes <- BothModes
  SavesWithHoles = FALSE
  SparseTogether = TRUE
  MaxRestarts = 1
  MaxCalls = 5
  MaxCallsMisused = 3
SYMMETRY Symmetric
INVARIANTS
  SlotsAccounted
  ChecksPass
  DegreeBounded
  VectorIsItsOwn
  EdgesStayValid
PROPERTY
  SavedIndexKept
