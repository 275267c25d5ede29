SPECIFICATION PoolSpec
INVARIANTS
  PoolTypeOK
  BusyIsTrue
  AttemptsAreAccounted
  RunsWithinBudget
CONSTANTS
  j1 = j1
  j2 = j2
  w1 = w1
  w2 = w2
  p1 = p1
  p2 = p2
  NoJob = NoJob
  NoWorker = NoWorker
  Jobs <- TwoJobs
  Workers <- TwoWorkers
  Callers <- LoopAndProducer
  MaxAttempts <- TwoBudgets
  BaseDelay = 1
  MaxDelay = 1
  Strategy = "exponential"
  StaleAfter = 1
  Discipline = "serial"
  Offered <- LoopOffers
  EnqueueDelay <- NoDelay
  MaxLag = 1
  MaxRestarts = 0
  MaxRetries = 1
  MaxTime = 1
  MaxRuns = 4
  WorkerOrder <- InTurn
  Handled <- SpentAtOnce
  WorkerStale = 0
  MaxFaults = 1
SYMMETRY CallerSymmetry
CHECK_DEADLOCK FALSE
