SPECIFICATION Spec
CONSTANTS
  Timers = {t1, t2}
  NoTimer = NoTimer
  MaxDelay = 1
  MaxJobs = 2
  MaxOps = 4
  IsWorker = TRUE
SYMMETRY Symmetry
INVARIANT IInv
