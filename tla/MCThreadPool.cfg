SPECIFICATION FairSpec
CONSTANTS
  NThreads = 3
  StartCores = {0, 1}
  AsyncCores = {1}
  Widths <- AllWidths
  MaxRounds = 2
INVARIANTS
  IInv
  CallsCurrentTask
  RoundComplete
PROPERTIES
  ImplementsForkJoin
  CallsReturn
  DestructorReturns
