SPECIFICATION Spec
CONSTANTS
  Sizes = {1}
  Chunk = 2
  Capacity = 2
  MaxReads = 2
  MaxPosts = 3
  Burst = TRUE
  MayFail = FALSE
INVARIANT ReceivedMatches
