SPECIFICATION FairSpec
CONSTANTS
  Timers = {t1, t2}
  NoTimer = NoTimer
  MaxDelay = 1
  MaxJobs = 2
  MaxOps = 4
  IsWorker = FALSE
INVARIANT TypeOK
INVARIANT NeverSleepsOnJobs
INVARIANT ArmedIsOwned
INVARIANT ClosesUnlessBound
PROPERTY NoLateCall
PROPERTY JobsRun
PROPERTY TimerEnds
