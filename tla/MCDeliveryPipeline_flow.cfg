SPECIFICATION Spec
CONSTANTS
  p1 = p1
  c1 = c1
  c2 = c2
  Projects <- MCProjects
  Callers <- MCCallers
  Heads <- MCQuietHeads
  MaxAttempts = 3
  MaxCaptures = 1
  MaxRuns = 1
  MaxFaults = 3
INVARIANTS
  TypeOK
  RequestsAreCurrent
  HalfBuildIsReported
PROPERTIES
  ApprovedAsBuilt
  ReturnedAnswersTookEffect
  ImplementsGates
CHECK_DEADLOCK FALSE
