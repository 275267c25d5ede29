SPECIFICATION Spec
INVARIANTS
  TypeOK
  RunsWithinBudget
  ExecutedIsRunning
PROPERTIES
  TerminalIsFinal
  ImplementsLifecycle
CONSTANTS
  j1 = j1
  j2 = j2
  w1 = w1
  p1 = p1
  p2 = p2
  NoJob = NoJob
  NoWorker = NoWorker
  Jobs <- MCJobs
  Workers <- MCWorkers
  Callers <- MCCallers
  MaxAttempts <- MCMaxAttempts
  BaseDelay = 1
  MaxDelay = 1
  Strategy = "exponential"
  StaleAfter = 1
  Discipline = "serial"
  Offered <- WithoutBeat
  EnqueueDelay <- NoDelay
  MaxLag = 0
  MaxRestarts = 1
  MaxRetries = 1
  MaxTime = 2
  MaxRuns = 4
SYMMETRY CallerSymmetry
CHECK_DEADLOCK FALSE
