SPECIFICATION FairSpec
CONSTANTS
  Sizes = {2}
  Chunk = 2
  Capacity = 2
  MaxReads = 2
  MaxPosts = 3
  Burst = FALSE
  MayFail = TRUE
PROPERTY TerminateReturns
PROPERTY PostedArrives
PROPERTY EndIsNoticed
