SPECIFICATION Spec
CONSTANTS
  None = None
  Loaded = Loaded
  Threads = 2
  MaxFds = 2
  Entries = 2
  MaxOps = 4
INVARIANT Inv
INVARIANT OwnDescriptor
INVARIANT DescriptorsOwned
INVARIANT EntriesOnce
CHECK_DEADLOCK FALSE
