SPECIFICATION FairSpec
CONSTANTS
  Children = {c1, c2}
  Handlers = {h1, h2}
  Watcher = Watcher
  None = None
  PipeMax = 2
  MaxSignals = 1
  MaxOps = 4
INVARIANT Inv
INVARIANT MessageTargetLive
PROPERTY NoLateSignal
PROPERTY ImplementsLifetime
PROPERTY Settles
CHECK_DEADLOCK FALSE
