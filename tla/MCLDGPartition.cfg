SPECIFICATION FairSpec
CONSTANTS
  Threads = {a, b}
  a = a
  b = b
  Index <- Four
  Jobs <- AllJobs
  FreqFiles <- Freqs
  DimLen = 2
  MaxNodeLen = 4
  IdLen = 1
  OutLen = 11
INVARIANTS
  IInv
  Partitioned
PROPERTY
  PartitioningEnds
