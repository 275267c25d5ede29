SPECIFICATION FairPoolSpec
PROPERTIES
  EveryJobSettles
  BusyEnds
CONSTANTS
  j1 = j1
  j2 = j2
  w1 = w1
  w2 = w2
  p1 = p1
  p2 = p2
  NoJob = NoJob
  NoWorker = NoWorker
  Jobs <- OneJob
  Workers <- OneWorker
  Callers <- LoopAndProducer
  MaxAttempts <- OneBudget
  BaseDelay = 1
  MaxDelay = 1
  Strategy = "exponential"
  StaleAfter = 1
  Discipline = "serial"
  Offered <- LoopOffers
  EnqueueDelay <- Deferred
  MaxLag = 1
  MaxRestarts = 1
  MaxRetries = 0
  MaxTime = 6
  MaxRuns = 3
  WorkerOrder <- OneAtATime
  Handled <- OneJob
  WorkerStale = 0
  MaxFaults = 1
CHECK_DEADLOCK FALSE
